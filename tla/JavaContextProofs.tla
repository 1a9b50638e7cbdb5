-------------------------- MODULE JavaContextProofs --------------------------
(***************************************************************************)
(* Theorems about JavaContext, for any threads and any number of nodes and *)
(* captures: its types, NoLeak and LinksToLast.  ContextInv is inductive:  *)
(* every context goes on from what the next node will be linked from,      *)
(* unless a join's parents were lost (ContextGood); and the trace() calls  *)
(* a thread is in, back to the task it runs, are a chain of last children, *)
(* so that each call finds its own span on its way out (Nested).  Its      *)
(* parts are operators on contexts, stacks and tasks, for a context may be *)
(* in force, kept by a frame or captured.                                  *)
(***************************************************************************)
EXTENDS JavaContext, SequenceTheorems, WellFoundedInduction, TLAPS

-----------------------------------------------------------------------------
(* The inductive invariant.                                                *)

NodeRecord == [trace : Nat, parents : SUBSET Node, before : SUBSET Node,
               lost : BOOLEAN, stray : BOOLEAN]

TaskRecord == [kind : {"wrap", "scope"}, snapshot : Context, running : Int, runs : Nat,
               tails : SUBSET Node, ends : SUBSET Node, lost : BOOLEAN]

Frame == [kind : {"trace"}, active : {None} \cup Node]
           \cup [kind : {"task"}, previous : Context, of : Nat]

Shape ==
  /\ ctx \in [Thread -> Context] /\ stack \in [Thread -> Seq(Frame)]
  /\ node \in Seq(NodeRecord) /\ task \in Seq(TaskRecord)

Ids(ns) == 1 .. Len(ns)

\* A node links to older ones: to those its work goes on from, unless a join's parents were lost,
\* and to those of its trace, unless a join was called outside it.
NodeGood(n, ns) ==
  /\ ns[n].trace \in 1..n /\ ns[n].parents \subseteq 1..(n - 1)
  /\ ~ns[n].lost => ns[n].parents = ns[n].before
  /\ ~ns[n].stray =>
       /\ ns[n].parents = {} <=> ns[n].trace = n
       /\ \A p \in ns[n].parents : ns[p].trace = ns[n].trace

NodesGood(ns) ==
  /\ Len(ns) <= MaxNode
  /\ \A n \in Ids(ns) : NodeGood(n, ns)

\* Last children are younger than their parents and of their trace.
LastGood(last, ns) ==
  \A m \in Node : last[m] /= None =>
    m < last[m] /\ last[m] \in Ids(ns) /\ ns[m].trace = ns[last[m]].trace

\* The tail of the active span is of its trace.
TailGood(c, ns) ==
  TailOf(c, c.active) \in Ids(ns) /\ ns[TailOf(c, c.active)].trace = ns[c.active].trace

\* A context, in force or kept for later, goes on from what the next node will be linked from,
\* and that is of its trace; without an active span it holds nothing but the parents of a stray join.
ContextGood(c, ns) ==
  /\ c.active \in {None} \cup Ids(ns) /\ c.pending \cup c.before \subseteq Ids(ns)
  /\ LastGood(c.last, ns)
  /\ ~c.lost => c.before = ParentsOf(c)
  /\ c.active = None => c.last = Empty.last /\ (~c.stray => c.pending = {})
  /\ c.active /= None =>
       /\ TailGood(c, ns)
       /\ ~c.stray => \A p \in c.pending : ns[p].trace = ns[c.active].trace

\* A task goes on from its fork, and a scope from where its branches ended.
TaskGood(k, ns) ==
  /\ ContextGood(k.snapshot, ns)
  /\ k.tails \cup k.ends \subseteq Ids(ns)
  /\ ~k.lost => k.ends = k.tails
  /\ k.snapshot.active = None => k.tails = {}
  /\ k.snapshot.active /= None => \A n \in k.tails : ns[n].trace = ns[k.snapshot.active].trace

\* The context in force when frame j was pushed on s, or now, and the span that is active in the
\* work of frame k - 1, if only trace() calls were entered between it and j.
Inner(s, c, j) == IF j > Len(s) THEN c ELSE s[j].previous
ActiveAt(s, c, k, j) == IF k < j THEN s[k].active ELSE Inner(s, c, j).active

\* Between frame i and frame j, a task or the end of the stack, there are only trace() calls.
Segment(s, i, j) ==
  /\ i < j /\ (j <= Len(s) => s[j].kind = "task")
  /\ \A k \in i + 1 .. j - 1 : s[k].kind = "trace"

\* A thread's first frame finds no active span, the first in a task that of the fork; a span is
\* older than those inside it, and its last child is the next of them.
Linked(s, c, tasks, i, j) ==
  /\ i = 0 => ActiveAt(s, c, 1, j) = None
  /\ i > 0 /\ s[i].kind = "task" => ActiveAt(s, c, i + 1, j) = tasks[s[i].of].snapshot.active
  /\ i > 0 /\ s[i].kind = "trace" =>
       /\ \A k \in i + 1 .. j : s[i].active < ActiveAt(s, c, k, j)
       /\ s[i].active /= None => Inner(s, c, j).last[s[i].active] = ActiveAt(s, c, i + 1, j)

Nested(s, c, tasks) ==
  \A i \in 0 .. Len(s), j \in 1 .. Len(s) + 1 : Segment(s, i, j) => Linked(s, c, tasks, i, j)

FrameGood(f, tasks, ns) ==
  IF f.kind = "trace" THEN f.active \in {None} \cup Ids(ns)
  ELSE ContextGood(f.previous, ns) /\ f.of \in 1 .. Len(tasks)

ThreadGood(s, c, tasks, ns) ==
  /\ ContextGood(c, ns) /\ Nested(s, c, tasks)
  /\ \A k \in 1 .. Len(s) : FrameGood(s[k], tasks, ns)

ContextInv ==
  /\ Shape /\ NodesGood(node)
  /\ \A i \in 1 .. Len(task) : TaskGood(task[i], node)
  /\ \A t \in Thread : ThreadGood(stack[t], ctx[t], task, node)

-----------------------------------------------------------------------------
(* Sequences and the chain of last children.                               *)

LEMMA Appended ==
  ASSUME NEW S, NEW s \in Seq(S), NEW e \in S
  PROVE  /\ Append(s, e) \in Seq(S) /\ Len(s) \in Nat /\ Len(Append(s, e)) = Len(s) + 1
         /\ \A i \in 1 .. Len(s) : Append(s, e)[i] = s[i]
         /\ Append(s, e)[Len(s) + 1] = e
OBVIOUS

LEMMA Popped ==
  ASSUME NEW S, NEW s \in Seq(S), s /= <<>>
  PROVE  /\ Front(s) \in Seq(S) /\ Len(s) \in Nat \ {0} /\ Len(Front(s)) = Len(s) - 1
         /\ \A i \in 1 .. Len(s) - 1 : Front(s)[i] = s[i]
<1> DEFINE m == Len(s) - 1
<1>1. Len(s) \in Nat \ {0} /\ m \in Nat /\ \A i \in 1 .. m : s[i] \in S
  OBVIOUS
<1> HIDE DEF m
<1>2. /\ SubSeq(s, 1, m) \in Seq(S) /\ Len(SubSeq(s, 1, m)) = IF 1 <= m THEN m - 1 + 1 ELSE 0
      /\ \A i \in 1 .. m - 1 + 1 : SubSeq(s, 1, m)[i] = s[1 + i - 1]
  BY <1>1, SubSeqProperties
<1>3. m - 1 + 1 = m /\ \A i \in 1 .. m : 1 + i - 1 = i
  BY <1>1
<1>4. Len(SubSeq(s, 1, m)) = m
  BY <1>1, <1>2
<1>5. Front(s) = SubSeq(s, 1, m)
  BY DEF Front, m
<1> QED BY <1>1, <1>2, <1>3, <1>4, <1>5 DEF m

LEMMA Induction ==
  ASSUME NEW S \in SUBSET Nat, 0 \in S, \A k \in S : k + 1 \in S
  PROVE  S = Nat
<1> SUFFICES ASSUME Nat \ S /= {} PROVE FALSE
  OBVIOUS
<1>1. PICK x \in Nat \ S : \A y \in Nat \ S : ~ (<<y, x>> \in OpToRel(<, Nat))
  <2>1. IsWellFoundedOn(OpToRel(<, Nat), Nat)
    BY NatLessThanWellFounded
  <2> QED BY <2>1, WFMin
<1>2. OpToRel(<, Nat) = {ss \in Nat \X Nat : ss[1] < ss[2]}
  BY Zenon DEF OpToRel
<1>0. x \in Nat /\ x /= 0
  OBVIOUS
<1>3. x - 1 \in Nat /\ x - 1 < x /\ (x - 1) + 1 = x
  BY <1>0
<1>4. x - 1 \in S
  <2> SUFFICES ASSUME x - 1 \notin S PROVE FALSE
    OBVIOUS
  <2>1. <<x - 1, x>> \in OpToRel(<, Nat)
    BY <1>0, <1>2, <1>3
  <2> QED BY <1>1, <1>3, <2>1
<1> QED BY <1>3, <1>4

\* The chain of last children ends, for each is younger than the one before: getTail's loop
\* terminates, and gives the tail of a node's last child.
LEMMA TailStep ==
  ASSUME NEW c, c.last \in [Node -> {None} \cup Node],
         \A m \in Node : c.last[m] /= None => m < c.last[m],
         NEW n \in Node
  PROVE  TailOf(c, n) = IF c.last[n] = None THEN n ELSE TailOf(c, c.last[n])
<1> DEFINE last == c.last
           tail[m \in Node] == IF c.last[m] = None THEN m ELSE tail[c.last[m]]
           Ends(g, k) == \A m \in Node : m + k > MaxNode =>
                           g[m] = IF last[m] = None THEN m ELSE g[last[m]]
           S == {k \in Nat : \E g \in [Node -> Node] : Ends(g, k)}
<1>1. MaxNode \in Nat /\ Node \subseteq Nat
  BY BoundAssumption DEF Node
<1>2. 0 \in S
  <2>1. [m \in Node |-> m] \in [Node -> Node] /\ Ends([m \in Node |-> m], 0)
    BY <1>1 DEF Node
  <2> HIDE DEF Ends
  <2> QED BY <2>1
<1>3. ASSUME NEW k \in S PROVE k + 1 \in S
  <2>1. PICK g \in [Node -> Node] : Ends(g, k)
    OBVIOUS
  <2> DEFINE m0 == MaxNode - k
             h == [g EXCEPT ![m0] = IF last[m0] = None THEN m0 ELSE g[last[m0]]]
  <2>2. h \in [Node -> Node]
    OBVIOUS
  <2>3. Ends(h, k + 1)
    <3> SUFFICES ASSUME NEW m \in Node, m + (k + 1) > MaxNode
                 PROVE  h[m] = IF last[m] = None THEN m ELSE h[last[m]]
      OBVIOUS
    <3>1. last[m] /= None => last[m] \in Node /\ m < last[m] /\ last[m] /= m0
      BY <1>1
    <3>2. CASE m = m0
      BY <3>1, <3>2
    <3>3. CASE m /= m0
      <4>1. m + k > MaxNode
        BY <1>1, <3>3
      <4>2. g[m] = IF last[m] = None THEN m ELSE g[last[m]]
        BY <2>1, <4>1
      <4> QED BY <3>1, <3>3, <4>2
    <3> QED BY <3>2, <3>3
  <2> HIDE DEF Ends, h
  <2> QED BY <2>2, <2>3
<1>4. PICK g \in [Node -> Node] : Ends(g, MaxNode)
  <2>1. S = Nat
    <3> HIDE DEF S
    <3>1. S \in SUBSET Nat
      BY DEF S
    <3> QED BY <1>2, <1>3, <3>1, Induction
  <2> QED BY <1>1, <2>1
<1>5. g = [m \in Node |-> IF c.last[m] = None THEN m ELSE g[c.last[m]]]
  <2>1. \A m \in Node : g[m] = IF last[m] = None THEN m ELSE g[last[m]]
    BY <1>1, <1>4 DEF Node
  <2> QED BY <2>1
<1>6. tail = [m \in Node |-> IF c.last[m] = None THEN m ELSE tail[c.last[m]]]
  <2> HIDE <1>4
  <2> QED BY <1>5 DEF tail
<1>7. \A m : TailOf(c, m) = tail[m]
  BY DEF TailOf
<1>8. tail[n] = IF c.last[n] = None THEN n ELSE tail[c.last[n]]
  <2> HIDE DEF tail
  <2> QED BY <1>6
<1> HIDE DEF tail
<1> QED BY <1>7, <1>8

LEMMA TailSame ==
  ASSUME NEW c, NEW d, d.last = c.last, NEW n
  PROVE  TailOf(d, n) = TailOf(c, n)
BY DEF TailOf

LEMMA ParentsSame ==
  ASSUME NEW c, NEW d, d.last = c.last, d.active = c.active, d.pending = c.pending
  PROVE  ParentsOf(d) = ParentsOf(c)
BY TailSame DEF ParentsOf

LEMMA NodesAreNumbers == MaxNode \in Nat /\ Node \subseteq Nat /\ None = 0 /\ None \notin Node
BY BoundAssumption DEF Node, None

-----------------------------------------------------------------------------
(* New nodes.                                                              *)

\* The last children stay good as nodes are started, also when the new one is the last child of
\* one of its trace; it has none itself.
LEMMA LastGrows ==
  ASSUME NEW ns \in Seq(NodeRecord), NEW r \in NodeRecord,
         NEW last \in [Node -> {None} \cup Node], LastGood(last, ns), Len(ns) + 1 \in Node
  PROVE  /\ LastGood(last, Append(ns, r)) /\ last[Len(ns) + 1] = None
         /\ \A a \in Ids(ns) : ns[a].trace = r.trace =>
              /\ LastGood([last EXCEPT ![a] = Len(ns) + 1], Append(ns, r))
              /\ a \in Node /\ [last EXCEPT ![a] = Len(ns) + 1] \in [Node -> {None} \cup Node]
<1> DEFINE new == Append(ns, r)
           N == Len(ns) + 1
<1>1. /\ Len(ns) \in Nat /\ Len(new) = N /\ new[N] = r
      /\ \A i \in Ids(ns) : new[i] = ns[i]
  BY Appended DEF Ids
<1> HIDE DEF new
<1>2. Ids(new) = Ids(ns) \cup {N}
  BY <1>1 DEF Ids
<1>3. \A m \in Node : last[m] /= None =>
        m \in Ids(ns) /\ m < last[m] /\ last[m] \in Ids(ns) /\ ns[m].trace = ns[last[m]].trace
  <2>1. \A m \in Node : m \in Nat /\ m >= 1
    BY NodesAreNumbers DEF Node
  <2> QED BY <1>1, <2>1 DEF LastGood, Ids
<1>4. LastGood(last, new) /\ last[N] = None
  <2>1. last[N] = None
    BY <1>1, <1>3 DEF Ids
  <2> QED BY <1>1, <1>2, <1>3, <2>1 DEF LastGood
<1>5. ASSUME NEW a \in Ids(ns), ns[a].trace = r.trace
      PROVE  /\ LastGood([last EXCEPT ![a] = N], new)
             /\ a \in Node /\ [last EXCEPT ![a] = N] \in [Node -> {None} \cup Node]
  <2>1. a \in Node /\ a < N
    BY <1>1, NodesAreNumbers DEF Ids, Node
  <2>2. new[a] = ns[a] /\ N \in Ids(new)
    BY <1>1, <1>2
  <2> QED BY <1>1, <1>2, <1>3, <1>5, <2>1, <2>2 DEF LastGood
<1> QED BY <1>4, <1>5 DEF new

LEMMA ContextGrows ==
  ASSUME NEW ns \in Seq(NodeRecord), NEW r \in NodeRecord, Len(ns) + 1 \in Node,
         NEW c \in Context, ContextGood(c, ns)
  PROVE  ContextGood(c, Append(ns, r))
<1>1. /\ Len(ns) \in Nat /\ Len(Append(ns, r)) = Len(ns) + 1
      /\ \A i \in Ids(ns) : Append(ns, r)[i] = ns[i]
  BY Appended DEF Ids
<1>2. Ids(ns) \subseteq Ids(Append(ns, r))
  BY <1>1 DEF Ids
<1>3. LastGood(c.last, Append(ns, r))
  <2>1. c.last \in [Node -> {None} \cup Node] /\ LastGood(c.last, ns)
    BY DEF Context, ContextGood
  <2> QED BY <2>1, LastGrows
<1>4. c.active /= None => c.active \in Ids(ns) /\ TailGood(c, Append(ns, r))
  BY <1>1, <1>2 DEF ContextGood, TailGood
<1>5. \A p \in c.pending : p \in Ids(ns)
  BY DEF ContextGood
<1> QED BY <1>1, <1>2, <1>3, <1>4, <1>5 DEF ContextGood

LEMMA TaskGrows ==
  ASSUME NEW ns \in Seq(NodeRecord), NEW r \in NodeRecord, Len(ns) + 1 \in Node,
         NEW k \in TaskRecord, TaskGood(k, ns)
  PROVE  TaskGood(k, Append(ns, r))
<1>1. /\ Len(ns) \in Nat /\ Len(Append(ns, r)) = Len(ns) + 1
      /\ \A i \in Ids(ns) : Append(ns, r)[i] = ns[i]
  BY Appended DEF Ids
<1>2. Ids(ns) \subseteq Ids(Append(ns, r))
  BY <1>1 DEF Ids
<1>3. k.snapshot \in Context
  BY DEF TaskRecord
<1>4. ContextGood(k.snapshot, Append(ns, r))
  BY <1>3, ContextGrows DEF TaskGood
<1>5. k.snapshot.active \in {None} \cup Ids(ns) /\ k.tails \subseteq Ids(ns)
  BY DEF TaskGood, ContextGood
<1> QED BY <1>1, <1>2, <1>4, <1>5 DEF TaskGood

LEMMA EmptyGood == Empty \in Context /\ Empty.active = None /\ \A ns : ContextGood(Empty, ns)
<1>1. Empty \in Context
  BY DEF Empty, Context
<1>2. /\ Empty.active = None /\ Empty.before = {} /\ Empty.pending = {} /\ Empty.lost = FALSE
      /\ Empty.last = [n \in Node |-> None]
  BY DEF Empty
<1>3. ParentsOf(Empty) = {}
  BY <1>2 DEF ParentsOf
<1>4. \A ns : LastGood(Empty.last, ns)
  BY <1>2 DEF LastGood
<1> QED BY <1>1, <1>2, <1>3, <1>4 DEF ContextGood

\* What a good context links its next node from.
LEMMA GoodParents ==
  ASSUME NEW ns, NEW c \in Context, ContextGood(c, ns)
  PROVE  /\ ParentsOf(c) \subseteq Ids(ns)
         /\ ~c.stray => /\ ParentsOf(c) = {} <=> c.active = None
                        /\ \A p \in ParentsOf(c) : ns[p].trace = ns[c.active].trace
BY DEF ParentsOf, ContextGood, TailGood

\* The node startNode adds is linked well, and is of its context's trace.
LEMMA NodeAdded ==
  ASSUME NEW ns \in Seq(NodeRecord), NodesGood(ns), Len(ns) + 1 \in Node,
         NEW c \in Context, ContextGood(c, ns), NEW r,
         r = [trace |-> IF c.active = None THEN Len(ns) + 1 ELSE ns[c.active].trace,
              parents |-> ParentsOf(c), before |-> c.before, lost |-> c.lost, stray |-> c.stray]
  PROVE  r \in NodeRecord /\ NodesGood(Append(ns, r))
<1> DEFINE N == Len(ns) + 1
<1>1. Len(ns) \in Nat /\ N \in Nat /\ N <= MaxNode /\ Ids(ns) \subseteq Node /\ Ids(ns) \subseteq 1 .. N - 1
  BY NodesAreNumbers DEF Ids, Node
<1>2. ParentsOf(c) \subseteq Ids(ns) /\ c.before \subseteq Ids(ns)
  BY GoodParents DEF ContextGood
<1>3. ~c.lost => ParentsOf(c) = c.before
  BY DEF ContextGood
<1>4. c.active /= None =>
        c.active \in Ids(ns) /\ ns[c.active].trace \in 1 .. c.active /\ c.active < N
  BY <1>1 DEF ContextGood, NodesGood, NodeGood, Ids
<1>5. c.lost \in BOOLEAN /\ c.stray \in BOOLEAN
  BY DEF Context
<1>0. /\ r.trace = IF c.active = None THEN N ELSE ns[c.active].trace
      /\ r.parents = ParentsOf(c) /\ r.before = c.before /\ r.lost = c.lost /\ r.stray = c.stray
      /\ r = [trace |-> r.trace, parents |-> r.parents, before |-> r.before, lost |-> r.lost,
              stray |-> r.stray]
  OBVIOUS
<1>6. r.trace \in 1 .. N /\ (r.trace = N <=> c.active = None)
  BY <1>0, <1>1, <1>4 DEF Ids
<1>7. r \in NodeRecord
  BY <1>0, <1>1, <1>2, <1>5, <1>6 DEF NodeRecord
<1> DEFINE new == Append(ns, r)
<1>8. /\ Len(new) = N /\ new[N] = r /\ \A i \in Ids(ns) : new[i] = ns[i]
  BY <1>7, Appended DEF Ids
<1> HIDE DEF new
<1>9. NodesGood(new)
  <2>1. ASSUME NEW n \in Ids(ns) PROVE NodeGood(n, new)
    <3>1. NodeGood(n, ns)
      BY DEF NodesGood
    <3>2. new[n] = ns[n] /\ ns[n].parents \subseteq Ids(ns)
      BY <1>1, <1>8, <3>1 DEF NodeGood, Ids
    <3> QED BY <1>8, <3>1, <3>2 DEF NodeGood
  <2>2. NodeGood(N, new)
    <3>1. /\ r.parents \subseteq 1 .. (N - 1)
          /\ ~r.lost => r.parents = r.before
          /\ ~r.stray => (r.parents = {} <=> r.trace = N)
      BY <1>0, <1>1, <1>2, <1>3, <1>6, GoodParents
    <3>2. ~r.stray => \A p \in r.parents : new[p].trace = r.trace
      BY <1>0, <1>2, <1>8, GoodParents
    <3> QED BY <1>6, <1>8, <3>1, <3>2 DEF NodeGood
  <2>3. Ids(new) = Ids(ns) \cup {N}
    BY <1>1, <1>8 DEF Ids
  <2> QED BY <1>1, <1>8, <2>1, <2>2, <2>3 DEF NodesGood
<1> QED BY <1>7, <1>9 DEF new

\* After startNode the work goes on from the new node, whether it becomes active or not.
LEMMA ContextStarts ==
  ASSUME NEW ns \in Seq(NodeRecord), NEW r \in NodeRecord, Len(ns) + 1 \in Node,
         NEW c \in Context, ContextGood(c, ns),
         r.trace = IF c.active = None THEN Len(ns) + 1 ELSE ns[c.active].trace,
         NEW d \in Context, d.pending = {},
         d.last = IF c.active = None THEN c.last ELSE [c.last EXCEPT ![c.active] = Len(ns) + 1],
         \/ d.active = Len(ns) + 1 /\ d.before = {Len(ns) + 1}
         \/ c.active /= None /\ d.active = c.active /\ d.before = {Len(ns) + 1}
         \/ c.active = None /\ d = Empty
  PROVE  ContextGood(d, Append(ns, r))
<1> DEFINE new == Append(ns, r)
           N == Len(ns) + 1
<1>1. /\ Len(ns) \in Nat /\ Len(new) = N /\ new[N] = r
      /\ \A i \in Ids(ns) : new[i] = ns[i]
  BY Appended DEF Ids
<1> SUFFICES ContextGood(d, new)
  OBVIOUS
<1> HIDE DEF new
<1>2. Ids(new) = Ids(ns) \cup {N} /\ N \in Node /\ N /= None /\ None \notin Ids(ns)
  BY <1>1, NodesAreNumbers DEF Ids
<1>3. c.last \in [Node -> {None} \cup Node] /\ d.last \in [Node -> {None} \cup Node] /\ LastGood(c.last, ns)
  BY DEF Context, ContextGood
<1>4. c.active /= None => c.active \in Ids(ns) /\ c.active /= N /\ c.active \in Node
  BY <1>1, NodesAreNumbers DEF ContextGood, Ids, Node
<1>5. LastGood(d.last, new) /\ d.last[N] = None
  <2>1. CASE c.active = None
    BY <1>3, <2>1, LastGrows DEF new
  <2>2. CASE c.active /= None
    <3>1. LastGood(d.last, new) /\ c.last[N] = None
      BY <1>3, <1>4, <2>2, LastGrows DEF new
    <3> QED BY <1>3, <1>4, <2>2, <3>1
  <2> QED BY <2>1, <2>2
<1>6. ASSUME NEW n \in Node PROVE TailOf(d, n) = IF d.last[n] = None THEN n ELSE TailOf(d, d.last[n])
  BY <1>3, <1>5, TailStep DEF LastGood
<1>7. TailOf(d, N) = N
  BY <1>2, <1>5, <1>6
<1> HIDE DEF N
<1>8. CASE d.active = N /\ d.before = {N}
  <2>1. ParentsOf(d) = {N} /\ TailGood(d, new)
    BY <1>2, <1>7, <1>8 DEF ParentsOf, TailGood
  <2> QED BY <1>2, <1>5, <1>8, <2>1 DEF ContextGood
<1>9. CASE c.active /= None /\ d.active = c.active /\ d.before = {N}
  <2>1. d.last[c.active] = N
    BY <1>3, <1>4, <1>9
  <2>2. TailOf(d, c.active) = N
    BY <1>2, <1>4, <1>6, <1>7, <1>9, <2>1
  <2>3. new[N].trace = new[c.active].trace
    BY <1>1, <1>4, <1>9
  <2>4. ParentsOf(d) = {N} /\ TailGood(d, new)
    BY <1>2, <1>9, <2>2, <2>3 DEF ParentsOf, TailGood
  <2> QED BY <1>2, <1>4, <1>5, <1>9, <2>4 DEF ContextGood
<1>10. CASE c.active = None /\ d = Empty
  BY <1>10, EmptyGood
<1> QED BY <1>8, <1>9, <1>10 DEF N

-----------------------------------------------------------------------------
(* Nesting.                                                                *)

LEMMA FrameFacts ==
  ASSUME NEW s \in Seq(Frame), NEW i \in 1 .. Len(s)
  PROVE  /\ s[i] \in Frame
         /\ s[i].kind = "trace" => s[i].active \in {None} \cup Node
         /\ s[i].kind /= "trace" => s[i].kind = "task" /\ s[i].previous \in Context
<1>1. s[i] \in Frame
  OBVIOUS
<1> QED BY <1>1 DEF Frame

\* A node started in the active span changes no other span's last child.
LEMMA NestedSame ==
  ASSUME NEW s \in Seq(Frame), NEW c \in Context, NEW d \in Context, NEW tasks, NEW tasks2,
         Nested(s, c, tasks), d.active = c.active,
         \A m \in Node : m /= c.active => d.last[m] = c.last[m],
         \A i \in 1 .. Len(s) : s[i].kind = "task" =>
           tasks2[s[i].of].snapshot = tasks[s[i].of].snapshot
  PROVE  Nested(s, d, tasks2)
<1> SUFFICES ASSUME NEW i \in 0 .. Len(s), NEW j \in 1 .. Len(s) + 1, Segment(s, i, j)
             PROVE  Linked(s, d, tasks2, i, j)
  BY DEF Nested
<1>1. Linked(s, c, tasks, i, j)
  BY DEF Nested
<1>2. Len(s) \in Nat /\ i < j
  BY DEF Segment
<1>3. Inner(s, d, j).active = Inner(s, c, j).active
  BY DEF Inner
<1>4. \A k : ActiveAt(s, d, k, j) = ActiveAt(s, c, k, j)
  BY <1>3 DEF ActiveAt
<1>5. ASSUME i > 0, s[i].kind = "trace", s[i].active /= None
      PROVE  Inner(s, d, j).last[s[i].active] = Inner(s, c, j).last[s[i].active]
  <2>1. CASE j <= Len(s)
    BY <1>2, <2>1 DEF Inner
  <2>2. CASE j > Len(s)
    <3>1. i \in 1 .. Len(s)
      BY <1>2, <1>5
    <3>2. s[i].active \in Node
      BY <1>5, <3>1, FrameFacts
    <3>3. s[i].active < ActiveAt(s, c, j, j)
      BY <1>1, <1>2, <1>5 DEF Linked
    <3>4. ActiveAt(s, c, j, j) = c.active
      BY <2>2 DEF ActiveAt, Inner
    <3>5. s[i].active /= c.active
      BY <3>2, <3>3, <3>4, NodesAreNumbers
    <3> QED BY <2>2, <3>2, <3>5 DEF Inner
  <2> QED BY <1>2, <2>1, <2>2
<1>6. i > 0 /\ s[i].kind = "task" => tasks2[s[i].of].snapshot = tasks[s[i].of].snapshot
  BY <1>2
<1> QED BY <1>1, <1>4, <1>5, <1>6 DEF Linked

\* What a push leaves of the nesting below: no segment there runs through or past a task frame.
LEMMA NestedBelow ==
  ASSUME NEW s \in Seq(Frame), NEW c, NEW u \in Seq(Frame), NEW d, NEW tasks, Nested(s, c, tasks),
         NEW n \in 0 .. Len(s), n <= Len(u), \A i \in 1 .. n : u[i] = s[i],
         NEW i \in 0 .. n, NEW j \in 1 .. n, Segment(u, i, j)
  PROVE  Linked(u, d, tasks, i, j)
<1>1. Len(s) \in Nat /\ Len(u) \in Nat /\ i < j /\ i \in 0 .. Len(s) /\ j \in 1 .. Len(s) + 1
  BY DEF Segment
<1>2. Segment(s, i, j)
  BY <1>1 DEF Segment
<1>3. Linked(s, c, tasks, i, j)
  BY <1>1, <1>2 DEF Nested
<1>4. Inner(u, d, j) = Inner(s, c, j)
  BY <1>1 DEF Inner
<1>5. \A k \in i + 1 .. j : ActiveAt(u, d, k, j) = ActiveAt(s, c, k, j)
  BY <1>1, <1>4 DEF ActiveAt
<1>6. i + 1 \in i + 1 .. j /\ (i = 0 => 1 \in i + 1 .. j) /\ (i > 0 => u[i] = s[i])
  BY <1>1
<1> QED BY <1>3, <1>4, <1>5, <1>6 DEF Linked

\* trace() enters a span that is younger than the active one, and its last child.
LEMMA NestedTrace ==
  ASSUME NEW s \in Seq(Frame), NEW c \in Context, NEW d \in Context, NEW tasks, Nested(s, c, tasks),
         c.active < d.active, c.active /= None => d.last[c.active] = d.active,
         \A m \in Node : m /= c.active => d.last[m] = c.last[m]
  PROVE  Nested(Append(s, [kind |-> "trace", active |-> c.active]), d, tasks)
<1> DEFINE f == [kind |-> "trace", active |-> c.active]
           u == Append(s, f)
           L == Len(s)
<1>1. f \in Frame /\ c.active \in {None} \cup Node /\ d.active \in {None} \cup Node
  BY DEF Frame, Context
<1>2. /\ u \in Seq(Frame) /\ L \in Nat /\ Len(u) = L + 1 /\ u[L + 1] = f
      /\ \A i \in 1 .. L : u[i] = s[i]
  BY <1>1, Appended
<1> HIDE DEF u
<1> SUFFICES ASSUME NEW i \in 0 .. Len(u), NEW j \in 1 .. Len(u) + 1, Segment(u, i, j)
             PROVE  Linked(u, d, tasks, i, j)
  BY DEF Nested, u
<1>3. i < j /\ i \in 0 .. L + 1 /\ j \in 1 .. L + 2
  BY <1>2 DEF Segment
<1>4. CASE j <= L
  <2>1. i \in 0 .. L /\ j \in 1 .. L /\ L \in 0 .. Len(s) /\ L <= Len(u)
    BY <1>2, <1>3, <1>4
  <2> HIDE DEF L
  <2> QED BY <1>2, <2>1, NestedBelow
<1>5. j /= L + 1
  BY <1>2 DEF Segment
<1>6. CASE j = L + 2
  <2>0. Inner(u, d, j) = d
    BY <1>2, <1>6 DEF Inner
  <2>1. CASE i = L + 1
    <3>1. i + 1 .. j = {L + 2} /\ ActiveAt(u, d, L + 2, j) = d.active /\ u[i] = f
      BY <1>2, <1>6, <2>0, <2>1 DEF ActiveAt
    <3>2. i + 1 = L + 2 /\ i /= 0 /\ u[i].kind = "trace" /\ u[i].active = c.active
      BY <1>2, <2>1
    <3> HIDE DEF L, f
    <3> QED BY <2>0, <3>1, <3>2 DEF Linked
  <2>2. CASE i <= L
    <3>1. Segment(s, i, L + 1) /\ i \in 0 .. L /\ L + 1 \in 1 .. L + 1
      BY <1>2, <1>3, <1>6, <2>2 DEF Segment
    <3>2. Linked(s, c, tasks, i, L + 1)
      BY <3>1 DEF Nested
    <3>3. Inner(s, c, L + 1) = c /\ ActiveAt(s, c, L + 1, L + 1) = c.active
      BY <1>2 DEF Inner, ActiveAt
    <3>4. ActiveAt(u, d, L + 2, j) = d.active /\ ActiveAt(u, d, L + 1, j) = c.active
      BY <1>2, <1>6, <2>0 DEF ActiveAt
    <3>5. ASSUME NEW k \in i + 1 .. L + 1 PROVE ActiveAt(u, d, k, j) = ActiveAt(s, c, k, L + 1)
      <4>1. CASE k = L + 1
        BY <3>3, <3>4, <4>1
      <4>2. CASE k /= L + 1
        <5>1. k \in 1 .. L
          BY <1>2, <3>1, <4>2
        <5> QED BY <1>2, <1>6, <5>1 DEF ActiveAt
      <4> QED BY <4>1, <4>2
    <3>6. /\ i + 1 \in i + 1 .. L + 1 /\ (i = 0 => 1 \in i + 1 .. L + 1)
          /\ i > 0 => i \in 1 .. L /\ u[i] = s[i]
          /\ \A k \in i + 1 .. j : k \in i + 1 .. L + 1 \/ k = L + 2
      BY <1>2, <1>6, <2>2
    <3>7. ASSUME i > 0, u[i].kind = "trace"
          PROVE  /\ \A k \in i + 1 .. j : u[i].active < ActiveAt(u, d, k, j)
                 /\ u[i].active /= None => d.last[u[i].active] = ActiveAt(u, d, i + 1, j)
      <4>1. s[i].active \in {None} \cup Node /\ u[i] = s[i] /\ s[i].kind = "trace"
        BY <3>6, <3>7, FrameFacts
      <4>2. \A k \in i + 1 .. L + 1 : s[i].active < ActiveAt(s, c, k, L + 1)
        BY <3>2, <3>7, <4>1 DEF Linked
      <4>3. s[i].active < c.active
        <5>1. L + 1 \in i + 1 .. L + 1
          BY <1>2, <3>1
        <5> QED BY <3>3, <4>2, <5>1
      <4>4. s[i].active < d.active /\ s[i].active /= c.active
        <5>1. \A n \in {None} \cup Node : n \in Nat
          BY NodesAreNumbers
        <5>2. s[i].active \in Nat /\ c.active \in Nat /\ d.active \in Nat
          BY <1>1, <4>1, <5>1
        <5> QED BY <4>3, <5>2
      <4>5. \A k \in i + 1 .. j : s[i].active < ActiveAt(u, d, k, j)
        BY <3>4, <3>5, <3>6, <4>2, <4>4
      <4>6. s[i].active /= None => d.last[s[i].active] = ActiveAt(u, d, i + 1, j)
        BY <3>2, <3>3, <3>5, <3>6, <3>7, <4>1, <4>4 DEF Linked
      <4> QED BY <4>1, <4>5, <4>6
    <3>8. /\ i = 0 => ActiveAt(u, d, 1, j) = None
          /\ i > 0 /\ u[i].kind = "task" => ActiveAt(u, d, i + 1, j) = tasks[u[i].of].snapshot.active
      BY <3>2, <3>5, <3>6 DEF Linked
    <3> QED BY <2>0, <3>7, <3>8 DEF Linked
  <2> QED BY <1>3, <2>1, <2>2
<1> QED BY <1>3, <1>4, <1>5, <1>6

\* trace() goes back to the span it found active, whose last child leads to where it ended.
LEMMA NestedEndTrace ==
  ASSUME NEW s \in Seq(Frame), NEW c \in Context, NEW d \in Context, NEW tasks, Nested(s, c, tasks),
         s /= <<>>, s[Len(s)].kind = "trace",
         d.active = s[Len(s)].active, d.active /= None => d.last = c.last
  PROVE  Nested(Front(s), d, tasks)
<1> DEFINE u == Front(s)
           L == Len(s)
<1>1. /\ u \in Seq(Frame) /\ L \in Nat \ {0} /\ Len(u) = L - 1
      /\ \A i \in 1 .. L - 1 : u[i] = s[i]
  BY Popped
<1>2. s[L].kind = "trace" /\ d.active = s[L].active
  OBVIOUS
<1> HIDE DEF u, L
<1> SUFFICES ASSUME NEW i \in 0 .. L - 1, NEW j \in 1 .. L, Segment(u, i, j)
             PROVE  Linked(u, d, tasks, i, j)
  BY <1>1 DEF Nested, u
<1>3. CASE j < L
  <2>1. j \in 1 .. L - 1 /\ L - 1 \in 0 .. Len(s) /\ L - 1 <= Len(u)
    BY <1>1, <1>3 DEF L
  <2> QED BY <1>1, <2>1, NestedBelow
<1>4. CASE j = L
  <2>1. Inner(u, d, j) = d
    BY <1>1, <1>4 DEF Inner
  <2>2. Segment(s, i, L + 1) /\ i \in 0 .. Len(s) /\ L + 1 \in 1 .. Len(s) + 1
    <3>1. ASSUME NEW k \in i + 1 .. L PROVE s[k].kind = "trace"
      <4>1. CASE k = L
        BY <1>2, <4>1
      <4>2. CASE k /= L
        <5>1. k \in i + 1 .. j - 1 /\ k \in 1 .. L - 1
          BY <1>1, <1>4, <4>2
        <5> QED BY <1>1, <5>1 DEF Segment
      <4> QED BY <4>1, <4>2
    <3>2. /\ i < L + 1 /\ ~(L + 1 <= Len(s)) /\ (L + 1) - 1 = L
          /\ i \in 0 .. Len(s) /\ L + 1 \in 1 .. Len(s) + 1
      BY <1>1 DEF L
    <3> QED BY <3>1, <3>2 DEF Segment
  <2>3. Linked(s, c, tasks, i, L + 1) /\ Inner(s, c, L + 1) = c
    BY <1>1, <2>2 DEF Nested, Inner, L
  <2>4. ASSUME NEW k \in i + 1 .. L PROVE ActiveAt(u, d, k, j) = ActiveAt(s, c, k, L + 1)
    <3>1. CASE k = L
      BY <1>1, <1>2, <1>4, <2>1, <3>1 DEF ActiveAt
    <3>2. CASE k /= L
      <4>1. k < j /\ k < L + 1 /\ k \in 1 .. L - 1
        BY <1>1, <1>4, <3>2
      <4> QED BY <1>1, <4>1 DEF ActiveAt
    <3> QED BY <3>1, <3>2
  <2>5. /\ i + 1 \in i + 1 .. L /\ (i = 0 => 1 \in i + 1 .. L) /\ L \in i + 1 .. L
        /\ i > 0 => i \in 1 .. Len(s) /\ u[i] = s[i]
        /\ \A k \in i + 1 .. j : k \in i + 1 .. L
        /\ \A k \in i + 1 .. L : k \in i + 1 .. L + 1
    BY <1>1, <1>4 DEF L
  <2>6. ASSUME i > 0, s[i].kind = "trace"
        PROVE  /\ \A k \in i + 1 .. j : s[i].active < ActiveAt(u, d, k, j)
               /\ s[i].active /= None => d.last[s[i].active] = ActiveAt(u, d, i + 1, j)
    <3>1. \A k \in i + 1 .. L : s[i].active < ActiveAt(s, c, k, L + 1)
      BY <2>3, <2>5, <2>6 DEF Linked
    <3>2. ASSUME s[i].active /= None PROVE d.active /= None
      <4>1. s[i].active < d.active
        <5>1. ActiveAt(s, c, L, L + 1) = d.active
          BY <1>1, <1>2 DEF ActiveAt
        <5> QED BY <2>5, <3>1, <5>1
      <4>2. s[i].active \in Node
        BY <2>5, <2>6, <3>2, FrameFacts
      <4>3. s[i].active \in Nat /\ None = 0
        BY <4>2, NodesAreNumbers
      <4> QED BY <4>1, <4>3
    <3>3. s[i].active /= None => c.last[s[i].active] = ActiveAt(s, c, i + 1, L + 1)
      BY <2>3, <2>6 DEF Linked
    <3> QED BY <2>4, <2>5, <3>1, <3>2, <3>3
  <2> QED BY <2>1, <2>3, <2>4, <2>5, <2>6 DEF Linked
<1> QED BY <1>1, <1>3, <1>4

\* A task runs in a copy of its fork's context.
LEMMA NestedRun ==
  ASSUME NEW s \in Seq(Frame), NEW c \in Context, NEW d \in Context, NEW tasks, Nested(s, c, tasks),
         NEW n \in Nat, d.active = tasks[n].snapshot.active
  PROVE  Nested(Append(s, [kind |-> "task", previous |-> c, of |-> n]), d, tasks)
<1> DEFINE f == [kind |-> "task", previous |-> c, of |-> n]
           u == Append(s, f)
           L == Len(s)
<1>1. f \in Frame /\ f.kind = "task" /\ f.previous = c /\ f.of = n
  BY DEF Frame
<1>2. /\ u \in Seq(Frame) /\ L \in Nat /\ Len(u) = L + 1 /\ u[L + 1] = f
      /\ \A i \in 1 .. L : u[i] = s[i]
  BY <1>1, Appended
<1> HIDE DEF u, f
<1> SUFFICES ASSUME NEW i \in 0 .. L + 1, NEW j \in 1 .. L + 2, Segment(u, i, j)
             PROVE  Linked(u, d, tasks, i, j)
  BY <1>2 DEF Nested, u, f
<1>3. i < j
  BY DEF Segment
<1>4. CASE j <= L
  <2>1. i \in 0 .. L /\ j \in 1 .. L /\ L \in 0 .. Len(s) /\ L <= Len(u)
    BY <1>2, <1>3, <1>4
  <2> HIDE DEF L
  <2> QED BY <1>2, <2>1, NestedBelow
<1>5. CASE j = L + 1
  <2>1. Segment(s, i, j) /\ i \in 0 .. L
    BY <1>2, <1>3, <1>5 DEF Segment
  <2>2. Linked(s, c, tasks, i, j)
    BY <1>5, <2>1 DEF Nested
  <2>3. Inner(u, d, j) = c /\ Inner(s, c, j) = c
    BY <1>1, <1>2, <1>5 DEF Inner
  <2>4. \A k \in i + 1 .. j : ActiveAt(u, d, k, j) = ActiveAt(s, c, k, j)
    BY <1>2, <1>5, <2>1, <2>3 DEF ActiveAt
  <2>5. i + 1 \in i + 1 .. j /\ (i = 0 => 1 \in i + 1 .. j) /\ (i > 0 => u[i] = s[i])
    BY <1>2, <1>5, <2>1
  <2> QED BY <2>2, <2>3, <2>4, <2>5 DEF Linked
<1>6. CASE j = L + 2
  <2>1. i = L + 1
    <3> SUFFICES ASSUME i < L + 1 PROVE FALSE
      OBVIOUS
    <3>1. L + 1 \in i + 1 .. j - 1
      BY <1>2, <1>6
    <3> QED BY <1>1, <1>2, <3>1 DEF Segment
  <2>2. u[i].kind = "task" /\ u[i].of = n /\ i /= 0 /\ i + 1 = j
    BY <1>1, <1>2, <1>6, <2>1
  <2>3. ActiveAt(u, d, i + 1, j) = d.active
    BY <1>2, <1>6, <2>2 DEF ActiveAt, Inner
  <2> QED BY <2>2, <2>3 DEF Linked
<1> QED BY <1>2, <1>4, <1>5, <1>6

\* After a task its thread goes on in the context it had before.
LEMMA NestedEndTask ==
  ASSUME NEW s \in Seq(Frame), NEW c \in Context, NEW d \in Context, NEW tasks, Nested(s, c, tasks),
         s /= <<>>, s[Len(s)].kind = "task",
         d.active = s[Len(s)].previous.active, d.last = s[Len(s)].previous.last
  PROVE  Nested(Front(s), d, tasks)
<1> DEFINE u == Front(s)
           L == Len(s)
<1>1. /\ u \in Seq(Frame) /\ L \in Nat \ {0} /\ Len(u) = L - 1
      /\ \A i \in 1 .. L - 1 : u[i] = s[i]
  BY Popped
<1>2. s[L].kind = "task" /\ d.active = s[L].previous.active /\ d.last = s[L].previous.last
  OBVIOUS
<1> HIDE DEF u, L
<1> SUFFICES ASSUME NEW i \in 0 .. L - 1, NEW j \in 1 .. L, Segment(u, i, j)
             PROVE  Linked(u, d, tasks, i, j)
  BY <1>1 DEF Nested, u
<1>3. CASE j < L
  <2>1. j \in 1 .. L - 1 /\ L - 1 \in 0 .. Len(s) /\ L - 1 <= Len(u)
    BY <1>1, <1>3 DEF L
  <2> QED BY <1>1, <2>1, NestedBelow
<1>4. CASE j = L
  <2>1. /\ Inner(u, d, j).active = Inner(s, c, j).active
        /\ Inner(u, d, j).last = Inner(s, c, j).last
    BY <1>1, <1>2, <1>4 DEF Inner, L
  <2>2. Segment(s, i, j) /\ i \in 0 .. Len(s) /\ j \in 1 .. Len(s) + 1 /\ i < j
    <3>1. i < j /\ i \in 0 .. Len(s) /\ j \in 1 .. Len(s) + 1
      BY <1>1, <1>4 DEF L
    <3>2. ASSUME NEW k \in i + 1 .. j - 1 PROVE s[k].kind = "trace"
      <4>1. k \in 1 .. L - 1
        BY <1>1, <1>4
      <4> QED BY <1>1, <4>1 DEF Segment
    <3> QED BY <1>2, <1>4, <3>1, <3>2 DEF Segment
  <2>3. Linked(s, c, tasks, i, j)
    BY <2>2 DEF Nested
  <2>4. \A k \in i + 1 .. j : ActiveAt(u, d, k, j) = ActiveAt(s, c, k, j)
    <3> SUFFICES ASSUME NEW k \in i + 1 .. j PROVE ActiveAt(u, d, k, j) = ActiveAt(s, c, k, j)
      OBVIOUS
    <3>1. k < j => k \in 1 .. L - 1
      BY <1>1, <1>4
    <3> QED BY <1>1, <2>1, <3>1 DEF ActiveAt
  <2>5. i + 1 \in i + 1 .. j /\ (i = 0 => 1 \in i + 1 .. j) /\ (i > 0 => u[i] = s[i])
    BY <1>1, <1>4
  <2> QED BY <2>1, <2>3, <2>4, <2>5 DEF Linked
<1> QED BY <1>1, <1>3, <1>4

\* The frame on top: the active span is inside that of trace(), or is that of the task's fork.
LEMMA TopFrame ==
  ASSUME NEW s \in Seq(Frame), NEW c \in Context, NEW tasks, Nested(s, c, tasks), s /= <<>>
  PROVE  LET f == s[Len(s)] IN
         /\ f.kind = "trace" =>
              /\ f.active \in {None} \cup Node /\ c.active \in Node
              /\ f.active /= None => c.last[f.active] = c.active
         /\ f.kind /= "trace" =>
              f.kind = "task" /\ f.previous \in Context /\ c.active = tasks[f.of].snapshot.active
<1> DEFINE L == Len(s)
<1>1. L \in Nat \ {0} /\ L \in 1 .. L
  OBVIOUS
<1>2. Segment(s, L, L + 1)
  BY <1>1 DEF Segment
<1>3. Linked(s, c, tasks, L, L + 1)
  BY <1>1, <1>2 DEF Nested
<1>4. Inner(s, c, L + 1) = c /\ ActiveAt(s, c, L + 1, L + 1) = c.active /\ L + 1 \in L + 1 .. L + 1
  BY <1>1 DEF Inner, ActiveAt
<1>5. CASE s[L].kind = "trace"
  <2>1. /\ s[L].active < c.active
        /\ s[L].active /= None => c.last[s[L].active] = c.active
    BY <1>1, <1>3, <1>4, <1>5 DEF Linked
  <2>2. s[L].active \in {None} \cup Node
    BY <1>1, <1>5, FrameFacts
  <2>3. s[L].active \in Nat /\ c.active \in {None} \cup Node
    <3>1. \A n \in {None} \cup Node : n \in Nat
      BY NodesAreNumbers
    <3> QED BY <2>2, <3>1 DEF Context
  <2>4. c.active \in Node
    BY <2>1, <2>3, NodesAreNumbers
  <2> QED BY <1>5, <2>1, <2>2, <2>4
<1>6. CASE s[L].kind /= "trace"
  <2>1. s[L].kind = "task" /\ s[L].previous \in Context
    BY <1>1, <1>6, FrameFacts
  <2>2. c.active = tasks[s[L].of].snapshot.active
    BY <1>1, <1>3, <1>4, <2>1 DEF Linked
  <2> QED BY <1>6, <2>1, <2>2
<1> QED BY <1>5, <1>6

-----------------------------------------------------------------------------
(* Contexts and threads.                                                   *)

\* restore() gives back the span and the children that capture() took, and the pending parents with
\* them if there is a span.
LEMMA RestoresAll ==
  ASSUME NEW c \in Context, NEW ns, ContextGood(c, ns)
  PROVE  /\ Restored(c) \in Context /\ ContextGood(Restored(c), ns)
         /\ Restored(c).active = c.active /\ Restored(c).last = c.last
<1>1. CASE c.active = None
  <2>1. Restored(c) = Empty /\ c.last = Empty.last
    BY <1>1 DEF Restored, SetActive, ContextGood
  <2> QED BY <1>1, <2>1, EmptyGood
<1>2. CASE c.active /= None
  <2>1. c = [c EXCEPT !.active = c.active]
    BY DEF Context
  <2>2. Restored(c) = c
    BY <1>2, <2>1 DEF Restored, SetActive
  <2> QED BY <2>2
<1> QED BY <1>1, <1>2

\* The context trace() leaves.
LEMMA ContextReturns ==
  ASSUME NEW ns, NEW c \in Context, ContextGood(c, ns), NEW a \in Node, NEW d,
         c.active /= None, c.last[a] = c.active, d = [c EXCEPT !.active = a],
         Len(ns) \in Nat
  PROVE  d \in Context /\ ContextGood(d, ns)
<1>1. /\ d \in Context /\ d.active = a /\ d.last = c.last /\ d.pending = c.pending
      /\ d.before = c.before /\ d.lost = c.lost /\ d.stray = c.stray
  BY DEF Context
<1>2. a /= None /\ c.last \in [Node -> {None} \cup Node] /\ LastGood(c.last, ns)
  BY NodesAreNumbers DEF Context, ContextGood
<1>3. a < c.active /\ c.active \in Ids(ns) /\ ns[a].trace = ns[c.active].trace
  BY <1>2 DEF LastGood
<1>4. a \in Ids(ns)
  BY <1>3, NodesAreNumbers DEF Ids, Node
<1>5. TailOf(d, a) = TailOf(c, c.active)
  <2>1. TailOf(c, a) = TailOf(c, c.active)
    BY <1>2, TailStep DEF LastGood
  <2> QED BY <1>1, <2>1, TailSame
<1>6. ParentsOf(d) = ParentsOf(c) /\ TailGood(d, ns)
  BY <1>1, <1>2, <1>3, <1>5 DEF ParentsOf, TailGood, ContextGood
<1> QED BY <1>1, <1>2, <1>3, <1>4, <1>6 DEF ContextGood

\* What startNode makes of a context.
LEMMA StartedContext ==
  ASSUME NEW c \in Context, c.active = None => c.last = Empty.last, Len(node) + 1 \in Node
  PROVE  /\ Started(c) \in Context /\ Started(c).active = c.active /\ Started(c).pending = {}
         /\ c.active = None => Started(c) = Empty
         /\ c.active /= None => Started(c).before = {Len(node) + 1}
         /\ Started(c).last = IF c.active = None THEN c.last
                              ELSE [c.last EXCEPT ![c.active] = Len(node) + 1]
<1> DEFINE N == Len(node) + 1
<1>1. CASE c.active = None
  <2>1. Started(c) = ConsumePending(c)
    BY <1>1 DEF Started
  <2>2. ConsumePending(c) = Empty
    <3> DEFINE d == ConsumePending(c)
    <3>1. d = [c EXCEPT !.pending = {}, !.before = {}, !.lost = FALSE, !.stray = FALSE]
      BY DEF ConsumePending
    <3> HIDE DEF d
    <3>2. /\ d \in Context /\ d.active = None /\ d.last = Empty.last /\ d.pending = {}
          /\ d.before = {} /\ d.lost = FALSE /\ d.stray = FALSE
      BY <1>1, <3>1 DEF Context
    <3>3. d = [active |-> d.active, last |-> d.last, pending |-> d.pending, before |-> d.before,
               lost |-> d.lost, stray |-> d.stray]
      BY <3>2 DEF Context
    <3>4. Empty.last = [n \in Node |-> None]
      BY DEF Empty
    <3>5. d = Empty
      BY <3>2, <3>3, <3>4 DEF Empty
    <3> QED BY <3>5 DEF d
  <2>3. Empty.pending = {}
    BY DEF Empty
  <2> QED BY <1>1, <2>1, <2>2, <2>3, EmptyGood
<1>2. CASE c.active /= None
  <2> DEFINE last2 == [c.last EXCEPT ![c.active] = N]
             d == [c EXCEPT !.pending = {}, !.last = last2, !.before = {N}, !.lost = FALSE,
                            !.stray = FALSE]
  <2>1. Started(c) = d
    BY <1>2 DEF Started, ConsumePending, SetLastChild, NextNode, Context
  <2>2. c.active \in Node /\ c.last \in [Node -> {None} \cup Node] /\ N \in Node
    BY <1>2 DEF Context
  <2>3. last2 \in [Node -> {None} \cup Node] /\ {N} \in SUBSET Node
    BY <2>2
  <2> HIDE DEF N, last2
  <2>4. /\ d \in Context /\ d.active = c.active /\ d.pending = {} /\ d.last = last2
        /\ d.before = {N}
    BY <2>3 DEF Context
  <2> HIDE DEF d
  <2> QED BY <1>2, <2>1, <2>4 DEF N, last2
<1> QED BY <1>1, <1>2

LEMMA ThreadGrows ==
  ASSUME NEW ns \in Seq(NodeRecord), NEW r \in NodeRecord, Len(ns) + 1 \in Node,
         NEW s \in Seq(Frame), NEW c \in Context, NEW tasks, ThreadGood(s, c, tasks, ns)
  PROVE  ThreadGood(s, c, tasks, Append(ns, r))
<1>1. Ids(ns) \subseteq Ids(Append(ns, r))
  BY Appended DEF Ids
<1>2. ASSUME NEW k \in 1 .. Len(s) PROVE FrameGood(s[k], tasks, Append(ns, r))
  <2>1. FrameGood(s[k], tasks, ns) /\ (s[k].kind /= "trace" => s[k].previous \in Context)
    BY FrameFacts DEF ThreadGood
  <2> QED BY <1>1, <2>1, ContextGrows DEF FrameGood
<1> QED BY <1>2, ContextGrows DEF ThreadGood

\* Captures are made and tasks run, but what was captured stays.
LEMMA ThreadKeeps ==
  ASSUME NEW ns, NEW s \in Seq(Frame), NEW c \in Context, NEW tasks, NEW tasks2,
         ThreadGood(s, c, tasks, ns), Len(tasks) \in Nat, Len(tasks2) \in Nat,
         Len(tasks) <= Len(tasks2),
         \A i \in 1 .. Len(tasks) : tasks2[i].snapshot = tasks[i].snapshot
  PROVE  ThreadGood(s, c, tasks2, ns)
<1>1. ASSUME NEW k \in 1 .. Len(s)
      PROVE  /\ FrameGood(s[k], tasks2, ns)
             /\ s[k].kind = "task" => tasks2[s[k].of].snapshot = tasks[s[k].of].snapshot
  <2>1. FrameGood(s[k], tasks, ns)
    BY DEF ThreadGood
  <2>2. \A i \in 1 .. Len(tasks) : i \in 1 .. Len(tasks2)
    OBVIOUS
  <2> QED BY <2>1, <2>2 DEF FrameGood
<1>2. Nested(s, c, tasks2)
  BY <1>1, NestedSame DEF ThreadGood
<1> QED BY <1>1, <1>2 DEF ThreadGood

LEMMA ThreadPushed ==
  ASSUME NEW ns, NEW s \in Seq(Frame), NEW c, NEW d, NEW tasks, NEW f \in Frame,
         ThreadGood(s, c, tasks, ns), FrameGood(f, tasks, ns), ContextGood(d, ns),
         Nested(Append(s, f), d, tasks)
  PROVE  Append(s, f) \in Seq(Frame) /\ ThreadGood(Append(s, f), d, tasks, ns)
<1> DEFINE u == Append(s, f)
<1>1. /\ u \in Seq(Frame) /\ Len(s) \in Nat /\ Len(u) = Len(s) + 1 /\ u[Len(s) + 1] = f
      /\ \A k \in 1 .. Len(s) : u[k] = s[k]
  BY Appended
<1> HIDE DEF u
<1>2. ASSUME NEW k \in 1 .. Len(u) PROVE FrameGood(u[k], tasks, ns)
  <2>1. k \in 1 .. Len(s) \/ k = Len(s) + 1
    BY <1>1
  <2> QED BY <1>1, <2>1 DEF ThreadGood
<1>3. Nested(u, d, tasks)
  BY DEF u
<1>4. u \in Seq(Frame) /\ ThreadGood(u, d, tasks, ns)
  BY <1>1, <1>2, <1>3 DEF ThreadGood
<1> QED BY <1>4 DEF u

LEMMA ThreadPopped ==
  ASSUME NEW ns, NEW s \in Seq(Frame), s /= <<>>, NEW c, NEW d, NEW tasks,
         ThreadGood(s, c, tasks, ns), ContextGood(d, ns), Nested(Front(s), d, tasks)
  PROVE  Front(s) \in Seq(Frame) /\ ThreadGood(Front(s), d, tasks, ns)
<1>1. /\ Front(s) \in Seq(Frame) /\ Len(s) \in Nat \ {0} /\ Len(Front(s)) = Len(s) - 1
      /\ \A k \in 1 .. Len(s) - 1 : Front(s)[k] = s[k]
  BY Popped
<1>2. ASSUME NEW k \in 1 .. Len(Front(s)) PROVE FrameGood(Front(s)[k], tasks, ns)
  <2>1. k \in 1 .. Len(s) - 1 /\ k \in 1 .. Len(s)
    BY <1>1
  <2> QED BY <1>1, <2>1 DEF ThreadGood
<1> QED BY <1>1, <1>2 DEF ThreadGood

-----------------------------------------------------------------------------
(* The invariant is inductive.                                             *)

LEMMA InitContextInv == Init => ContextInv
<1> SUFFICES ASSUME Init PROVE ContextInv
  OBVIOUS
<1>1. Shape
  BY EmptyGood DEF Init, Shape
<1>2. NodesGood(node) /\ Len(task) = 0
  BY BoundAssumption DEF Init, NodesGood, Ids
<1>3. ASSUME NEW t \in Thread PROVE ThreadGood(stack[t], ctx[t], task, node)
  <2>1. stack[t] = <<>> /\ ctx[t] = Empty /\ Len(stack[t]) = 0
    BY DEF Init
  <2>2. ActiveAt(stack[t], ctx[t], 1, 1) = None
    BY <2>1, EmptyGood DEF ActiveAt, Inner
  <2>3. Nested(stack[t], ctx[t], task)
    BY <2>1, <2>2 DEF Nested, Linked
  <2> QED BY <2>1, <2>3, EmptyGood DEF ThreadGood
<1> QED BY <1>1, <1>2, <1>3 DEF ContextInv

LEMMA ThreadFacts ==
  ASSUME ContextInv, NEW t \in Thread
  PROVE  /\ ctx[t] \in Context /\ stack[t] \in Seq(Frame) /\ ThreadGood(stack[t], ctx[t], task, node)
         /\ ContextGood(ctx[t], node) /\ Nested(stack[t], ctx[t], task)
         /\ node \in Seq(NodeRecord) /\ task \in Seq(TaskRecord)
         /\ Len(node) \in Nat /\ Len(task) \in Nat
BY DEF ContextInv, Shape, ThreadGood

\* A step changes one thread's context and stack, the nodes and the tasks.
LEMMA OneThread ==
  ASSUME ContextInv, NEW t \in Thread, NEW c \in Context, NEW s \in Seq(Frame),
         NEW tasks \in Seq(TaskRecord), NEW ns \in Seq(NodeRecord),
         ctx' = [ctx EXCEPT ![t] = c], stack' = [stack EXCEPT ![t] = s], task' = tasks, node' = ns,
         NodesGood(ns), \A i \in 1 .. Len(tasks) : TaskGood(tasks[i], ns),
         \A u \in Thread : u /= t => ThreadGood(stack[u], ctx[u], tasks, ns),
         ThreadGood(s, c, tasks, ns)
  PROVE  ContextInv'
<1>1. Shape'
  BY DEF ContextInv, Shape
<1>2. ASSUME NEW u \in Thread PROVE ThreadGood(stack'[u], ctx'[u], tasks, ns)
  <2>1. ctx \in [Thread -> Context] /\ stack \in [Thread -> Seq(Frame)]
    BY DEF ContextInv, Shape
  <2>2. CASE u = t
    <3>1. stack'[u] = s /\ ctx'[u] = c
      BY <2>1, <2>2
    <3> QED BY <3>1
  <2>3. CASE u /= t
    <3>1. stack'[u] = stack[u] /\ ctx'[u] = ctx[u]
      BY <2>1, <2>3
    <3> QED BY <2>3, <3>1
  <2> QED BY <2>2, <2>3
<1> QED BY <1>1, <1>2 DEF ContextInv

LEMMA SameAt ==
  ASSUME NEW S, NEW f \in [Thread -> S], NEW t \in Thread
  PROVE  f = [f EXCEPT ![t] = f[t]]
OBVIOUS

LEMMA NodeStarted ==
  ASSUME ContextInv, NEW t \in Thread, AddNode(ctx[t])
  PROVE  \E r \in NodeRecord :
           /\ node' = Append(node, r) /\ Append(node, r) \in Seq(NodeRecord)
           /\ Len(node) + 1 \in Node /\ NodesGood(Append(node, r))
           /\ r.trace = IF ctx[t].active = None THEN Len(node) + 1 ELSE node[ctx[t].active].trace
           /\ \A i \in 1 .. Len(task) : TaskGood(task[i], Append(node, r))
           /\ \A u \in Thread : ThreadGood(stack[u], ctx[u], task, Append(node, r))
<1> DEFINE r == [trace |-> IF ctx[t].active = None THEN Len(node) + 1 ELSE node[ctx[t].active].trace,
                 parents |-> ParentsOf(ctx[t]), before |-> ctx[t].before,
                 lost |-> ctx[t].lost, stray |-> ctx[t].stray]
<1>1. node' = Append(node, r) /\ Len(node) + 1 \in Node
  BY DEF AddNode, NextNode
<1>2. r \in NodeRecord /\ NodesGood(Append(node, r))
  <2>1. NodesGood(node)
    BY DEF ContextInv
  <2> HIDE DEF r
  <2>2. r = [trace |-> IF ctx[t].active = None THEN Len(node) + 1 ELSE node[ctx[t].active].trace,
             parents |-> ParentsOf(ctx[t]), before |-> ctx[t].before,
             lost |-> ctx[t].lost, stray |-> ctx[t].stray]
    BY DEF r
  <2> QED BY <1>1, <2>1, <2>2, ThreadFacts, NodeAdded
<1>3. r.trace = IF ctx[t].active = None THEN Len(node) + 1 ELSE node[ctx[t].active].trace
  OBVIOUS
<1> HIDE DEF r
<1>4. Append(node, r) \in Seq(NodeRecord)
  BY <1>2, ThreadFacts, Appended
<1>5. ASSUME NEW i \in 1 .. Len(task) PROVE TaskGood(task[i], Append(node, r))
  <2>1. task[i] \in TaskRecord /\ TaskGood(task[i], node)
    BY ThreadFacts DEF ContextInv
  <2> QED BY <1>1, <1>2, <2>1, ThreadFacts, TaskGrows
<1>6. ASSUME NEW u \in Thread PROVE ThreadGood(stack[u], ctx[u], task, Append(node, r))
  BY <1>1, <1>2, ThreadFacts, ThreadGrows
<1> QED BY <1>1, <1>2, <1>3, <1>4, <1>5, <1>6

LEMMA PointInv ==
  ASSUME ContextInv, NEW t \in Thread, Point(t)
  PROVE  ContextInv'
<1> DEFINE c == ctx[t]
           d == Started(c)
           N == Len(node) + 1
<1>1. PICK r \in NodeRecord :
        /\ node' = Append(node, r) /\ Append(node, r) \in Seq(NodeRecord)
        /\ N \in Node /\ NodesGood(Append(node, r))
        /\ r.trace = IF c.active = None THEN N ELSE node[c.active].trace
        /\ \A i \in 1 .. Len(task) : TaskGood(task[i], Append(node, r))
        /\ \A u \in Thread : ThreadGood(stack[u], ctx[u], task, Append(node, r))
  BY NodeStarted DEF Point
<1>2. /\ c \in Context /\ stack[t] \in Seq(Frame) /\ ContextGood(c, node)
      /\ Nested(stack[t], c, task) /\ node \in Seq(NodeRecord) /\ task \in Seq(TaskRecord)
  BY ThreadFacts
<1>3. c.active = None => c.last = Empty.last
  BY <1>2 DEF ContextGood
<1> HIDE DEF c
<1>4. /\ d \in Context /\ d.active = c.active /\ d.pending = {}
      /\ c.active = None => d = Empty
      /\ c.active /= None => d.before = {N}
      /\ d.last = IF c.active = None THEN c.last ELSE [c.last EXCEPT ![c.active] = N]
  BY <1>1, <1>2, <1>3, StartedContext
<1>5. ctx' = [ctx EXCEPT ![t] = d] /\ stack' = stack /\ task' = task
  BY DEF Point, c
<1> HIDE DEF d, N
<1>6. ContextGood(d, Append(node, r))
  BY <1>1, <1>2, <1>4, ContextStarts DEF N
<1>7. Nested(stack[t], d, task)
  <2>1. \A m \in Node : m /= c.active => d.last[m] = c.last[m]
    <3>1. c.last \in [Node -> {None} \cup Node]
      BY <1>2 DEF Context
    <3> QED BY <1>4, <3>1
  <2> QED BY <1>2, <1>4, <2>1, NestedSame
<1>8. ThreadGood(stack[t], d, task, Append(node, r))
  BY <1>1, <1>6, <1>7 DEF ThreadGood
<1>9. stack' = [stack EXCEPT ![t] = stack[t]]
  BY <1>5, SameAt DEF ContextInv, Shape
<1> QED BY <1>1, <1>2, <1>4, <1>5, <1>8, <1>9, OneThread

LEMMA BeginTraceInv ==
  ASSUME ContextInv, NEW t \in Thread, BeginTrace(t)
  PROVE  ContextInv'
<1> DEFINE c == ctx[t]
           e == Started(c)
           N == Len(node) + 1
           d == [e EXCEPT !.active = N, !.before = {N}]
           f == [kind |-> "trace", active |-> c.active]
<1>1. PICK r \in NodeRecord :
        /\ node' = Append(node, r) /\ Append(node, r) \in Seq(NodeRecord)
        /\ N \in Node /\ NodesGood(Append(node, r))
        /\ r.trace = IF c.active = None THEN N ELSE node[c.active].trace
        /\ \A i \in 1 .. Len(task) : TaskGood(task[i], Append(node, r))
        /\ \A u \in Thread : ThreadGood(stack[u], ctx[u], task, Append(node, r))
  BY NodeStarted DEF BeginTrace
<1>2. /\ c \in Context /\ stack[t] \in Seq(Frame) /\ ContextGood(c, node)
      /\ Nested(stack[t], c, task) /\ node \in Seq(NodeRecord) /\ task \in Seq(TaskRecord)
      /\ Len(node) \in Nat
  BY ThreadFacts
<1>3. c.active = None => c.last = Empty.last
  BY <1>2 DEF ContextGood
<1>4. /\ ctx' = [ctx EXCEPT ![t] = [SetActive(e, N) EXCEPT !.before = {N}]]
      /\ stack' = [stack EXCEPT ![t] = Append(stack[t], f)] /\ task' = task
  BY DEF BeginTrace, Push, NextNode
<1> HIDE DEF c
<1>5. /\ e \in Context /\ e.active = c.active /\ e.pending = {}
      /\ e.last = IF c.active = None THEN c.last ELSE [c.last EXCEPT ![c.active] = N]
  BY <1>1, <1>2, <1>3, StartedContext
<1> HIDE DEF e, N
<1>6. [SetActive(e, N) EXCEPT !.before = {N}] = d /\ {N} \in SUBSET Node
  BY <1>1, <1>5, NodesAreNumbers DEF SetActive, Context
<1>7. /\ d \in Context /\ d.active = N /\ d.before = {N} /\ d.pending = {} /\ d.last = e.last
  BY <1>1, <1>5, <1>6 DEF Context
<1>8. /\ f \in Frame /\ f.kind = "trace" /\ f.active = c.active
  BY <1>2 DEF Frame, Context
<1> HIDE DEF d
<1>9. ContextGood(d, Append(node, r))
  BY <1>1, <1>2, <1>5, <1>7, ContextStarts DEF N
<1>10. /\ c.active < N /\ c.active \in {None} \cup Ids(Append(node, r))
       /\ c.active /= None => c.active \in Node
  <2>1. c.active \in {None} \cup Ids(node) /\ c.active \in {None} \cup Node
    BY <1>2 DEF ContextGood, Context
  <2>2. Len(Append(node, r)) = N
    BY <1>2, Appended DEF N
  <2> QED BY <1>2, <2>1, <2>2, NodesAreNumbers DEF Ids, N
<1>11. Nested(Append(stack[t], f), d, task)
  <2>1. c.last \in [Node -> {None} \cup Node]
    BY <1>2 DEF Context
  <2>2. c.active /= None => d.last[c.active] = d.active
    BY <1>5, <1>7, <1>10, <2>1
  <2>3. \A m \in Node : m /= c.active => d.last[m] = c.last[m]
    BY <1>5, <1>7, <2>1
  <2> QED BY <1>2, <1>7, <1>10, <2>2, <2>3, NestedTrace
<1> HIDE DEF f
<1>12. FrameGood(f, task, Append(node, r))
  BY <1>8, <1>10 DEF FrameGood
<1>13. Append(stack[t], f) \in Seq(Frame) /\ ThreadGood(Append(stack[t], f), d, task, Append(node, r))
  BY <1>1, <1>2, <1>8, <1>9, <1>11, <1>12, ThreadPushed
<1> QED BY <1>1, <1>2, <1>4, <1>6, <1>7, <1>13, OneThread

LEMMA EndTraceInv ==
  ASSUME ContextInv, NEW t \in Thread, EndTrace(t)
  PROVE  ContextInv'
<1> DEFINE c == ctx[t]
           s == stack[t]
           f == s[Len(s)]
           d == SetActive(c, f.active)
<1>1. /\ c \in Context /\ s \in Seq(Frame) /\ ThreadGood(s, c, task, node)
      /\ ContextGood(c, node) /\ Nested(s, c, task)
      /\ node \in Seq(NodeRecord) /\ task \in Seq(TaskRecord) /\ Len(node) \in Nat
  BY ThreadFacts
<1>2. s /= <<>> /\ f.kind = "trace"
  BY DEF EndTrace, InFrame, Top
<1>3. /\ ctx' = [ctx EXCEPT ![t] = d] /\ stack' = [stack EXCEPT ![t] = Front(s)]
      /\ node' = node /\ task' = task
  BY DEF EndTrace, Top, Pop
<1> HIDE DEF c, s
<1>4. /\ f.active \in {None} \cup Node /\ c.active \in Node
      /\ f.active /= None => c.last[f.active] = c.active
  BY <1>1, <1>2, TopFrame
<1> DEFINE a == f.active
<1>5. /\ d \in Context /\ ContextGood(d, node) /\ d.active = a
      /\ a /= None => d.last = c.last
  <2>1. CASE a = None
    <3>1. d = Empty
      BY <2>1 DEF SetActive
    <3> HIDE DEF d
    <3> QED BY <2>1, <3>1, EmptyGood
  <2>2. CASE a /= None
    <3>1. d = [c EXCEPT !.active = a]
      BY <2>2 DEF SetActive
    <3> HIDE DEF d
    <3>2. d.active = a /\ d.last = c.last
      BY <1>1, <3>1 DEF Context
    <3>3. a \in Node /\ c.active /= None /\ c.last[a] = c.active
      BY <1>4, <2>2, NodesAreNumbers
    <3> HIDE DEF a
    <3> QED BY <1>1, <3>1, <3>2, <3>3, ContextReturns
  <2> QED BY <2>1, <2>2
<1> HIDE DEF d
<1>6. Nested(Front(s), d, task)
  BY <1>1, <1>2, <1>5, NestedEndTrace
<1>7. Front(s) \in Seq(Frame) /\ ThreadGood(Front(s), d, task, node)
  BY <1>1, <1>2, <1>5, <1>6, ThreadPopped
<1> QED BY <1>1, <1>3, <1>5, <1>7, OneThread DEF ContextInv

LEMMA CaptureInv ==
  ASSUME ContextInv, NEW t \in Thread, NEW kind \in {"wrap", "scope"}, Capture(t, kind)
  PROVE  ContextInv'
<1> DEFINE c == ctx[t]
           k == [kind |-> kind, snapshot |-> c, running |-> 0, runs |-> 0, tails |-> {},
                 ends |-> {}, lost |-> FALSE]
           tasks == Append(task, k)
<1>1. /\ c \in Context /\ stack[t] \in Seq(Frame) /\ ContextGood(c, node)
      /\ node \in Seq(NodeRecord) /\ task \in Seq(TaskRecord) /\ Len(task) \in Nat
  BY ThreadFacts
<1>2. task' = tasks /\ ctx' = ctx /\ stack' = stack /\ node' = node
  BY DEF Capture
<1> HIDE DEF c
<1>3. k \in TaskRecord /\ k.snapshot = c /\ k.tails = {} /\ k.ends = {}
  BY <1>1 DEF TaskRecord
<1> HIDE DEF k
<1>4. TaskGood(k, node)
  BY <1>1, <1>2, <1>3 DEF TaskGood
<1>5. /\ tasks \in Seq(TaskRecord) /\ Len(tasks) = Len(task) + 1 /\ tasks[Len(task) + 1] = k
      /\ \A i \in 1 .. Len(task) : tasks[i] = task[i]
  BY <1>1, <1>3, Appended
<1> HIDE DEF tasks
<1>6. ASSUME NEW i \in 1 .. Len(tasks) PROVE TaskGood(tasks[i], node)
  <2>1. i \in 1 .. Len(task) \/ i = Len(task) + 1
    BY <1>1, <1>5
  <2> QED BY <1>4, <1>5, <2>1 DEF ContextInv
<1>7. ASSUME NEW u \in Thread PROVE ThreadGood(stack[u], ctx[u], tasks, node)
  <2>1. Len(tasks) \in Nat /\ Len(task) <= Len(tasks)
    BY <1>1, <1>5
  <2> QED BY <1>1, <1>5, <2>1, ThreadFacts, ThreadKeeps
<1>8. ctx' = [ctx EXCEPT ![t] = ctx[t]] /\ stack' = [stack EXCEPT ![t] = stack[t]]
  BY <1>2, SameAt DEF ContextInv, Shape
<1>9. NodesGood(node)
  BY DEF ContextInv
<1>10. ctx[t] \in Context /\ stack[t] \in Seq(Frame) /\ node \in Seq(NodeRecord)
  BY ThreadFacts
<1>11. task' = tasks /\ node' = node
  BY <1>2
<1> QED BY <1>5, <1>6, <1>7, <1>8, <1>9, <1>10, <1>11, OneThread

LEMMA RecordFields ==
  ASSUME NEW k \in TaskRecord
  PROVE  /\ k.snapshot \in Context /\ k.running \in Int /\ k.runs \in Nat
         /\ k.running + 1 \in Int /\ k.running - 1 \in Int /\ k.runs + 1 \in Nat
         /\ k.tails \in SUBSET Node /\ k.ends \in SUBSET Node
         /\ k.lost \in BOOLEAN /\ k.kind \in {"wrap", "scope"}
BY DEF TaskRecord

\* A capture that runs or has ended is what it was.
LEMMA TaskChanges ==
  ASSUME ContextInv, NEW i \in 1 .. Len(task), NEW k \in TaskRecord,
         k.snapshot = task[i].snapshot, TaskGood(k, node)
  PROVE  LET tasks == [task EXCEPT ![i] = k] IN
         /\ tasks \in Seq(TaskRecord) /\ Len(tasks) = Len(task) /\ tasks[i] = k
         /\ \A j \in 1 .. Len(task) : tasks[j].snapshot = task[j].snapshot
         /\ \A j \in 1 .. Len(tasks) : TaskGood(tasks[j], node)
         /\ \A u \in Thread : ThreadGood(stack[u], ctx[u], tasks, node)
<1> DEFINE tasks == [task EXCEPT ![i] = k]
<1>1. task \in Seq(TaskRecord) /\ Len(task) \in Nat
  BY DEF ContextInv, Shape
<1>2. /\ tasks \in Seq(TaskRecord) /\ Len(tasks) = Len(task) /\ tasks[i] = k
      /\ \A j \in 1 .. Len(task) : j /= i => tasks[j] = task[j]
  BY <1>1
<1> HIDE DEF tasks
<1>3. \A j \in 1 .. Len(task) : tasks[j].snapshot = task[j].snapshot
  BY <1>2
<1>4. \A j \in 1 .. Len(tasks) : TaskGood(tasks[j], node)
  BY <1>2 DEF ContextInv
<1>5. \A u \in Thread : ThreadGood(stack[u], ctx[u], tasks, node)
  BY <1>1, <1>2, <1>3, ThreadFacts, ThreadKeeps
<1> QED BY <1>2, <1>3, <1>4, <1>5 DEF tasks

LEMMA RunTaskInv ==
  ASSUME ContextInv, NEW t \in Thread, NEW i \in DOMAIN task, RunTask(t, i)
  PROVE  ContextInv'
<1> DEFINE c == ctx[t]
           s == stack[t]
           k == [task[i] EXCEPT !.running = @ + 1, !.runs = @ + 1]
           d == Restored(task[i].snapshot)
           f == [kind |-> "task", previous |-> c, of |-> i]
           tasks == [task EXCEPT ![i] = k]
<1>1. /\ c \in Context /\ s \in Seq(Frame) /\ ContextGood(c, node)
      /\ node \in Seq(NodeRecord) /\ task \in Seq(TaskRecord) /\ Len(task) \in Nat
  BY ThreadFacts
<1>2. i \in 1 .. Len(task) /\ task[i] \in TaskRecord /\ i \in Nat
  BY <1>1
<1>3. TaskGood(task[i], node) /\ NodesGood(node)
  BY <1>2 DEF ContextInv
<1>4. d \in Context /\ ContextGood(d, node) /\ d.active = task[i].snapshot.active
  BY <1>2, <1>3, RestoresAll DEF TaskRecord, TaskGood
<1>5. /\ ctx' = [ctx EXCEPT ![t] = d] /\ stack' = [stack EXCEPT ![t] = Append(s, f)]
      /\ node' = node
  BY DEF RunTask, Push
<1>6. task' = tasks
  BY DEF RunTask
<1>7. /\ k \in TaskRecord /\ k.snapshot = task[i].snapshot /\ k.tails = task[i].tails
      /\ k.ends = task[i].ends /\ k.lost = task[i].lost
  <2> DEFINE x == task[i]
             m == x.running + 1
             n == x.runs + 1
  <2>1. x \in TaskRecord /\ m \in Int /\ n \in Nat
    BY <1>2, RecordFields
  <2>2. k = [x EXCEPT !.running = m, !.runs = n]
    OBVIOUS
  <2> HIDE DEF k, x, m, n
  <2>3. /\ k \in TaskRecord /\ k.snapshot = x.snapshot /\ k.tails = x.tails /\ k.ends = x.ends
        /\ k.lost = x.lost
    BY <2>1, <2>2 DEF TaskRecord
  <2> QED BY <2>3 DEF x
<1> HIDE DEF k, d
<1>8. TaskGood(k, node)
  BY <1>3, <1>7 DEF TaskGood
<1>9. /\ tasks \in Seq(TaskRecord) /\ Len(tasks) = Len(task) /\ tasks[i] = k
      /\ \A j \in 1 .. Len(tasks) : TaskGood(tasks[j], node)
      /\ \A u \in Thread : ThreadGood(stack[u], ctx[u], tasks, node)
  BY <1>2, <1>7, <1>8, TaskChanges
<1> HIDE DEF tasks
<1>10. ThreadGood(s, c, tasks, node)
  BY <1>9
<1> HIDE DEF c, s
<1>11. Nested(Append(s, f), d, tasks)
  <2>1. d.active = tasks[i].snapshot.active /\ Nested(s, c, tasks)
    BY <1>4, <1>7, <1>9, <1>10 DEF ThreadGood
  <2> QED BY <1>1, <1>2, <1>4, <2>1, NestedRun
<1>12. f \in Frame /\ FrameGood(f, tasks, node)
  BY <1>1, <1>2, <1>9 DEF Frame, FrameGood
<1> HIDE DEF f
<1>13. Append(s, f) \in Seq(Frame) /\ ThreadGood(Append(s, f), d, tasks, node)
  BY <1>1, <1>4, <1>10, <1>11, <1>12, ThreadPushed
<1> QED BY <1>1, <1>3, <1>4, <1>5, <1>6, <1>9, <1>13, OneThread

\* A scope's tails are where its branches ended, unless a branch dropped what a join had left.
LEMMA TaskEnded ==
  ASSUME NEW ns, NEW k \in TaskRecord, TaskGood(k, ns), NEW c \in Context, ContextGood(c, ns),
         c.active = k.snapshot.active, Ids(ns) \subseteq Node
  PROVE  /\ Ended(k, c) \in TaskRecord /\ Ended(k, c).snapshot = k.snapshot
         /\ TaskGood(Ended(k, c), ns)
<1> DEFINE tail == BranchTail(c, k.snapshot)
           m == k.running - 1
           a == k.tails \cup tail
           b == k.ends \cup c.before
           l == k.lost \/ c.lost \/ c.pending /= {}
           d == [k EXCEPT !.running = m, !.tails = a, !.ends = b, !.lost = l]
<1>1. /\ tail \subseteq Ids(ns) /\ c.before \subseteq Ids(ns)
      /\ k.snapshot.active = None => tail = {}
      /\ k.snapshot.active /= None => \A n \in tail : ns[n].trace = ns[k.snapshot.active].trace
  BY DEF BranchTail, ContextGood, TailGood
<1>2. ~c.lost /\ c.pending = {} => c.before = tail
  BY DEF BranchTail, ContextGood, ParentsOf
<1>3. m \in Int /\ a \in SUBSET Node /\ b \in SUBSET Node /\ l \in BOOLEAN
  BY <1>1, RecordFields DEF Context
<1>4. l = FALSE => ~k.lost /\ ~c.lost /\ c.pending = {}
  OBVIOUS
<1>5. CASE k.kind = "wrap"
  <2>1. Ended(k, c) = [k EXCEPT !.running = m]
    BY <1>5 DEF Ended
  <2> HIDE DEF m
  <2>2. [k EXCEPT !.running = m] \in TaskRecord
    BY <1>3 DEF TaskRecord
  <2>3. /\ [k EXCEPT !.running = m].snapshot = k.snapshot /\ [k EXCEPT !.running = m].tails = k.tails
        /\ [k EXCEPT !.running = m].ends = k.ends /\ [k EXCEPT !.running = m].lost = k.lost
    BY DEF TaskRecord
  <2>4. TaskGood([k EXCEPT !.running = m], ns)
    BY <2>3 DEF TaskGood
  <2> QED BY <2>1, <2>2, <2>3, <2>4
<1>6. CASE k.kind /= "wrap"
  <2>1. Ended(k, c) = d
    BY <1>6 DEF Ended
  <2> HIDE DEF l, m, a, b
  <2>2. /\ d \in TaskRecord /\ d.snapshot = k.snapshot /\ d.tails = a /\ d.ends = b /\ d.lost = l
    BY <1>3 DEF TaskRecord
  <2> HIDE DEF d
  <2>3. d.lost \/ d.ends = d.tails
    <3>1. l = FALSE => b = a
      BY <1>2, <1>4 DEF TaskGood, a, b
    <3> QED BY <1>3, <2>2, <3>1
  <2>4. d.tails \cup d.ends \subseteq Ids(ns)
    BY <1>1, <2>2 DEF TaskGood, a, b
  <2>5. /\ d.snapshot.active = None => d.tails = {}
        /\ d.snapshot.active /= None => \A n \in d.tails : ns[n].trace = ns[d.snapshot.active].trace
    BY <1>1, <2>2 DEF TaskGood, a
  <2>6. TaskGood(d, ns)
    BY <2>2, <2>3, <2>4, <2>5 DEF TaskGood
  <2> QED BY <2>1, <2>2, <2>6
<1> QED BY <1>5, <1>6

LEMMA EndTaskInv ==
  ASSUME ContextInv, NEW t \in Thread, EndTask(t)
  PROVE  ContextInv'
<1> DEFINE c == ctx[t]
           s == stack[t]
           f == s[Len(s)]
           i == f.of
           d == Restored(f.previous)
           k == Ended(task[i], c)
           tasks == [task EXCEPT ![i] = k]
<1>1. /\ c \in Context /\ s \in Seq(Frame) /\ ThreadGood(s, c, task, node)
      /\ ContextGood(c, node) /\ Nested(s, c, task)
      /\ node \in Seq(NodeRecord) /\ task \in Seq(TaskRecord) /\ Len(task) \in Nat
  BY ThreadFacts
<1>2. s /= <<>> /\ f.kind = "task"
  BY DEF EndTask, InFrame, Top
<1>3. /\ ctx' = [ctx EXCEPT ![t] = d] /\ stack' = [stack EXCEPT ![t] = Front(s)]
      /\ node' = node
  BY DEF EndTask, Top, Pop
<1>4. task' = tasks
  BY DEF EndTask, Top
<1> HIDE DEF c, s
<1>5. f.previous \in Context /\ c.active = task[i].snapshot.active
  BY <1>1, <1>2, TopFrame
<1>6. ContextGood(f.previous, node) /\ i \in 1 .. Len(task)
  <2>1. Len(s) \in 1 .. Len(s)
    BY <1>1, <1>2
  <2> QED BY <1>1, <1>2, <2>1 DEF ThreadGood, FrameGood
<1>7. /\ d \in Context /\ ContextGood(d, node)
      /\ d.active = f.previous.active /\ d.last = f.previous.last
  BY <1>5, <1>6, RestoresAll
<1>8. task[i] \in TaskRecord /\ TaskGood(task[i], node) /\ NodesGood(node)
  BY <1>1, <1>6 DEF ContextInv
<1>9. Ids(node) \subseteq Node
  BY <1>1, <1>8, NodesAreNumbers DEF NodesGood, Ids, Node
<1>10. k \in TaskRecord /\ k.snapshot = task[i].snapshot /\ TaskGood(k, node)
  BY <1>1, <1>5, <1>8, <1>9, TaskEnded
<1> HIDE DEF d, i, k
<1>11. /\ tasks \in Seq(TaskRecord) /\ Len(tasks) = Len(task)
       /\ \A j \in 1 .. Len(task) : tasks[j].snapshot = task[j].snapshot
       /\ \A j \in 1 .. Len(tasks) : TaskGood(tasks[j], node)
       /\ \A u \in Thread : ThreadGood(stack[u], ctx[u], tasks, node)
  BY <1>6, <1>10, TaskChanges
<1> HIDE DEF tasks
<1>12. ThreadGood(s, c, tasks, node)
  BY <1>11 DEF s, c
<1>13. Nested(Front(s), d, tasks)
  <2>1. Nested(s, c, tasks)
    BY <1>12 DEF ThreadGood
  <2> QED BY <1>1, <1>2, <1>7, <2>1, NestedEndTask
<1>14. Front(s) \in Seq(Frame) /\ ThreadGood(Front(s), d, tasks, node)
  BY <1>1, <1>2, <1>7, <1>12, <1>13, ThreadPopped
<1> QED BY <1>1, <1>3, <1>4, <1>7, <1>8, <1>11, <1>14, OneThread

\* What join() makes of a context: its next node goes on from the tails of the branches.
LEMMA JoinedContext ==
  ASSUME NEW c \in Context, ContextGood(c, node), NEW k \in TaskRecord, TaskGood(k, node),
         NEW d, d = SetPending(Joined(c, k), k.tails)
  PROVE  d \in Context /\ ContextGood(d, node) /\ d.active = c.active /\ d.last = c.last
<1> DEFINE b == IF k.ends = {} THEN c.before ELSE k.ends
           l == c.lost \/ k.lost \/ ~(c.pending \subseteq Carried(k))
           g == k.tails /= {} /\ ~SameTrace(c, k)
<1>1. b \in SUBSET Node /\ l \in BOOLEAN /\ g \in BOOLEAN /\ k.tails \in SUBSET Node
  BY RecordFields DEF Context
<1>2. d = [c EXCEPT !.before = b, !.lost = l, !.stray = g, !.pending = k.tails]
  BY DEF SetPending, Joined, Context
<1> HIDE DEF b, l, g
<1>3. /\ d \in Context /\ d.active = c.active /\ d.last = c.last /\ d.pending = k.tails
      /\ d.before = b /\ d.lost = l /\ d.stray = g
  BY <1>1, <1>2 DEF Context
<1> HIDE <1>2
<1>4. d.pending \cup d.before \subseteq Ids(node)
  BY <1>3 DEF ContextGood, TaskGood, b
<1>5. ASSUME ~d.lost PROVE d.before = ParentsOf(d)
  <2>1. ~c.lost /\ k.ends = k.tails /\ c.pending \subseteq Carried(k)
    BY <1>1, <1>3, <1>5 DEF TaskGood, l
  <2>2. CASE k.tails = {}
    <3>1. c.pending = {} /\ d.pending = c.pending /\ d.before = c.before
      BY <1>3, <2>1, <2>2 DEF Carried, b
    <3>2. ParentsOf(d) = ParentsOf(c)
      BY <1>3, <3>1, ParentsSame
    <3> QED BY <2>1, <3>1, <3>2 DEF ContextGood
  <2>3. CASE k.tails /= {}
    BY <1>3, <2>1, <2>3 DEF ParentsOf, b
  <2> QED BY <2>2, <2>3
<1>6. ASSUME ~d.stray, d.pending /= {}
      PROVE  d.active /= None /\ \A p \in d.pending : node[p].trace = node[d.active].trace
  BY <1>1, <1>3, <1>6 DEF SameTrace, TaskGood, g
<1>7. d.active /= None => TailGood(d, node)
  <2>1. TailOf(d, d.active) = TailOf(c, c.active)
    BY <1>3, TailSame
  <2> QED BY <1>3, <2>1 DEF ContextGood, TailGood
<1>8. /\ d.active \in {None} \cup Ids(node) /\ LastGood(d.last, node)
      /\ d.active = None => d.last = Empty.last
  BY <1>3 DEF ContextGood
<1> QED BY <1>3, <1>4, <1>5, <1>6, <1>7, <1>8 DEF ContextGood

LEMMA JoinInv ==
  ASSUME ContextInv, NEW t \in Thread, NEW i \in DOMAIN task, Join(t, i)
  PROVE  ContextInv'
<1> DEFINE c == ctx[t]
           s == stack[t]
           d == SetPending(Joined(c, task[i]), task[i].tails)
<1>1. /\ c \in Context /\ s \in Seq(Frame) /\ ThreadGood(s, c, task, node)
      /\ ContextGood(c, node) /\ Nested(s, c, task)
      /\ node \in Seq(NodeRecord) /\ task \in Seq(TaskRecord) /\ Len(task) \in Nat
  BY ThreadFacts
<1>2. i \in 1 .. Len(task) /\ task[i] \in TaskRecord
  BY <1>1
<1>3. TaskGood(task[i], node) /\ NodesGood(node)
  BY <1>2 DEF ContextInv
<1>4. ctx' = [ctx EXCEPT ![t] = d] /\ stack' = stack /\ node' = node /\ task' = task
  BY DEF Join
<1> HIDE DEF c
<1>5. d \in Context /\ ContextGood(d, node) /\ d.active = c.active /\ d.last = c.last
  BY <1>1, <1>2, <1>3, JoinedContext
<1> HIDE DEF d, s
<1>6. Nested(s, d, task)
  BY <1>1, <1>5, NestedSame
<1>7. ThreadGood(s, d, task, node)
  BY <1>1, <1>5, <1>6 DEF ThreadGood
<1>8. stack' = [stack EXCEPT ![t] = s]
  BY <1>4, SameAt DEF ContextInv, Shape, s
<1>9. \A u \in Thread : ThreadGood(stack[u], ctx[u], task, node)
  BY DEF ContextInv
<1>10. \A j \in 1 .. Len(task) : TaskGood(task[j], node)
  BY DEF ContextInv
<1> QED BY <1>1, <1>3, <1>4, <1>5, <1>7, <1>8, <1>9, <1>10, OneThread

LEMMA NextContextInv == ContextInv /\ [Next]_vars => ContextInv'
<1> SUFFICES ASSUME ContextInv, [Next]_vars PROVE ContextInv'
  OBVIOUS
<1>1. ASSUME NEW t \in Thread, Point(t) PROVE ContextInv'
  BY <1>1, PointInv
<1>2. ASSUME NEW t \in Thread, BeginTrace(t) PROVE ContextInv'
  BY <1>2, BeginTraceInv
<1>3. ASSUME NEW t \in Thread, EndTrace(t) PROVE ContextInv'
  BY <1>3, EndTraceInv
<1>4. ASSUME NEW t \in Thread, EndTask(t) PROVE ContextInv'
  BY <1>4, EndTaskInv
<1>5. ASSUME NEW t \in Thread, Submit(t) \/ Fork(t) PROVE ContextInv'
  BY <1>5, CaptureInv DEF Submit, Fork
<1>6. ASSUME NEW t \in Thread, NEW i \in DOMAIN task, RunTask(t, i) PROVE ContextInv'
  BY <1>6, RunTaskInv
<1>7. ASSUME NEW t \in Thread, NEW i \in DOMAIN task, Join(t, i) PROVE ContextInv'
  BY <1>7, JoinInv
<1>8. CASE UNCHANGED vars
  BY <1>8 DEF vars, ContextInv, Shape
<1> QED BY <1>1, <1>2, <1>3, <1>4, <1>5, <1>6, <1>7, <1>8 DEF Next

LEMMA ContextInvariant == Spec => []ContextInv
BY InitContextInv, NextContextInv, PTL DEF Spec

-----------------------------------------------------------------------------
(* The theorems.                                                           *)

\* The contexts, frames, nodes and captures have their types; a node's parents are older nodes.
THEOREM ContextTypes == Spec => []TypeOK
<1>1. ContextInv => TypeOK
  <2> SUFFICES ASSUME ContextInv PROVE TypeOK
    OBVIOUS
  <2>1. ctx \in [Thread -> Context] /\ Len(node) <= MaxNode /\ node \in Seq(NodeRecord)
        /\ task \in Seq(TaskRecord)
    BY DEF ContextInv, Shape, NodesGood
  <2>2. ASSUME NEW t \in Thread, NEW f \in Range(stack[t])
        PROVE  IF f.kind = "trace" THEN f.active \in {None} \cup Node
               ELSE f.previous \in Context /\ f.of \in DOMAIN task
    <3>1. stack[t] \in Seq(Frame) /\ ThreadGood(stack[t], ctx[t], task, node)
      BY ThreadFacts
    <3>2. PICK k \in 1 .. Len(stack[t]) : f = stack[t][k]
      BY <3>1 DEF Range
    <3>3. FrameGood(f, task, node)
      BY <3>1, <3>2 DEF ThreadGood
    <3>4. /\ f.kind = "trace" => f.active \in {None} \cup Node
          /\ f.kind /= "trace" => f.previous \in Context
      BY <3>1, <3>2, FrameFacts
    <3>5. DOMAIN task = 1 .. Len(task)
      BY <2>1
    <3> QED BY <3>3, <3>4, <3>5 DEF FrameGood
  <2>3. \A n \in DOMAIN node : node[n].trace \in 1..n /\ node[n].parents \subseteq 1..(n - 1)
    BY <2>1 DEF ContextInv, NodesGood, NodeGood, Ids
  <2>4. \A i \in DOMAIN task : task[i].snapshot \in Context /\ task[i].tails \subseteq Node
    <3> SUFFICES ASSUME NEW i \in DOMAIN task
                 PROVE  task[i].snapshot \in Context /\ task[i].tails \subseteq Node
      OBVIOUS
    <3>1. task[i] \in TaskRecord
      BY <2>1
    <3> QED BY <3>1, RecordFields
  <2> QED BY <2>1, <2>2, <2>3, <2>4 DEF TypeOK
<1> QED BY <1>1, ContextInvariant, PTL

\* startNode links a node from exactly the nodes its thread's work goes on from, and keeps a trace
\* one graph with one root, on any threads and at any depth of trace() calls, tasks, scopes and
\* joins, with two exceptions, each recorded when it happens: parents that one join left and the
\* next overwrote, or a branch ended on (links are missing), and a join() outside the scope's trace.
THEOREM NodesLinkToLast == Spec => []LinksToLast
<1>1. ContextInv => LinksToLast
  <2> SUFFICES ASSUME ContextInv PROVE LinksToLast
    OBVIOUS
  <2>1. node \in Seq(NodeRecord) /\ NodesGood(node)
    BY DEF ContextInv, Shape
  <2>2. DOMAIN node = Ids(node)
    BY <2>1 DEF Ids
  <2> QED BY <2>1, <2>2 DEF NodesGood, NodeGood, LinksToLast
<1> QED BY <1>1, ContextInvariant, PTL

\* A thread that has left its trace() calls and tasks has an empty context: the spans of one
\* request are not active in the next one a pool thread serves.  Only a join() called outside any
\* span leaves its parents there.
THEOREM NothingLeaks == Spec => []NoLeak
<1>1. ContextInv => NoLeak
  <2> SUFFICES ASSUME ContextInv, NEW t \in Thread, stack[t] = <<>>
               PROVE  /\ ctx[t].active = None /\ ctx[t].last = Empty.last
                      /\ ~ctx[t].stray => ctx[t].pending = {}
    BY DEF NoLeak
  <2>1. Nested(<<>>, ctx[t], task) /\ ContextGood(ctx[t], node)
    BY ThreadFacts
  <2>2. Segment(<<>>, 0, 1) /\ 0 \in 0 .. Len(<<>>) /\ 1 \in 1 .. Len(<<>>) + 1
    BY DEF Segment
  <2>3. ActiveAt(<<>>, ctx[t], 1, 1) = None
    BY <2>1, <2>2 DEF Nested, Linked
  <2>4. ctx[t].active = None
    BY <2>3 DEF ActiveAt, Inner
  <2> QED BY <2>1, <2>4 DEF ContextGood
<1> QED BY <1>1, ContextInvariant, PTL
=============================================================================
