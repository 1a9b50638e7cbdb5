----------------------------- MODULE JavaContext -----------------------------
(***************************************************************************)
(* How the Java SDK links the nodes of a trace.  Each thread has a         *)
(* context: the active span, for each span the child started last under    *)
(* it, and the parents a join left for the next node.  startNode() links a *)
(* node from those parents, or from the end of the chain of last children. *)
(* Work handed to another thread takes a copy of the context along; a      *)
(* ParallelScope collects where its branches ended.                        *)
(*                                                                         *)
(* Spans get explicit ids only from a caller's headers; here every node    *)
(* takes its trace and parents from the context.  The context of the       *)
(* Spring adapters' decorator, which carries the active span alone, and a  *)
(* span.end() that throws are left out.                                    *)
(***************************************************************************)
EXTENDS Integers, SequencesExt, Functions

CONSTANTS
  Thread,
  MaxNode,     \* bound: nodes started
  MaxSize,     \* bound: nodes and traces, counted together
  MaxTask,     \* bound: captures of the context, by wrap() or parallel()
  MaxRun,      \* bound: runs of captured work, over all captures
  MaxDepth     \* bound: trace() calls and tasks the threads are in at once

ASSUME BoundAssumption ==
  MaxNode \in Nat /\ MaxSize \in Nat /\ MaxTask \in Nat /\ MaxRun \in Nat /\ MaxDepth \in Nat

Node == 1..MaxNode
None == 0

VARIABLES
  ctx,         \* thread -> its context
  stack,       \* thread -> what the trace() calls and wrapped tasks it is in will restore
  node,        \* the nodes, in the order they were started
  task         \* the captures: wrapped tasks and parallel scopes

vars == <<ctx, stack, node, task>>

\* Three fields are a history the code does not keep.  before: the nodes that ended where this
\* thread's work goes on.  lost: a join overwrote, or a branch ended with, parents a join had left,
\* and what they stood for is linked from nowhere.  stray: a join was called where no span of the
\* scope's trace is active.
Empty == [active |-> None, last |-> [n \in Node |-> None], pending |-> {}, before |-> {},
          lost |-> FALSE, stray |-> FALSE]

Init ==
  /\ ctx = [t \in Thread |-> Empty]
  /\ stack = [t \in Thread |-> <<>>]
  /\ node = <<>>
  /\ task = <<>>

-----------------------------------------------------------------------------
(* TraceContext *)

\* Mutant: only the last child, not the last of its descendants.
TailOf_Child(c, n) == IF c.last[n] = None THEN n ELSE c.last[n]

\* The end of the chain of last children that starts at n.  A last child is younger than its parent.
TailOf(c, n) ==
  LET tail[m \in Node] == IF c.last[m] = None THEN m ELSE tail[c.last[m]] IN tail[n]

\* Mutant: clear() forgets the pending parents.
SetActive_Pending(c, n) ==
  IF n = None THEN [Empty EXCEPT !.pending = c.pending] ELSE [c EXCEPT !.active = n]

\* Mutant: clear() forgets the children.
SetActive_Last(c, n) ==
  IF n = None THEN [Empty EXCEPT !.last = c.last] ELSE [c EXCEPT !.active = n]

\* setActive(null) clears the whole context.
SetActive(c, n) == IF n = None THEN Empty ELSE [c EXCEPT !.active = n]

SetLastChild(c, parent, child) == [c EXCEPT !.last[parent] = child, !.before = {child}]

SetPending(c, parents) == [c EXCEPT !.pending = parents]

\* The node that consumes them goes on from what the history says: it starts anew.
ConsumePending(c) ==
  [c EXCEPT !.pending = {}, !.before = {}, !.lost = FALSE, !.stray = FALSE]

\* restore() copies a snapshot and sets its active span last: without one it clears the rest.
Restored(c) == SetActive(c, c.active)

Depth == MapThenSumSet(LAMBDA t : Len(stack[t]), Thread)

Push(t, frame) ==
  /\ Depth < MaxDepth
  /\ stack' = [stack EXCEPT ![t] = Append(@, frame)]
Pop(t) == stack' = [stack EXCEPT ![t] = Front(@)]
Top(t) == stack[t][Len(stack[t])]
InFrame(t, kind) == stack[t] /= <<>> /\ Top(t).kind = kind

-----------------------------------------------------------------------------
(* Nodes *)

NextNode == Len(node) + 1

\* Mutant: the node is made its parent's last child before its own parents are looked up.
ParentsOf_Late(c) ==
  IF c.pending /= {} THEN c.pending
  ELSE IF c.active /= None THEN {NextNode} ELSE {}

\* What startNode links the next node of context c from.
ParentsOf(c) ==
  IF c.pending /= {} THEN c.pending
  ELSE IF c.active /= None THEN {TailOf(c, c.active)} ELSE {}

\* startNode on a thread with context c, as the context it leaves.
Started(c) ==
  IF c.active = None THEN ConsumePending(c)
  ELSE SetLastChild(ConsumePending(c), c.active, NextNode)

Traces == Cardinality({n \in DOMAIN node : node[n].trace = n})

AddNode(c) ==
  /\ NextNode \in Node
  /\ NextNode + Traces + (IF c.active = None THEN 1 ELSE 0) <= MaxSize
  /\ node' = Append(node, [trace |-> IF c.active = None THEN NextNode ELSE node[c.active].trace,
                           parents |-> ParentsOf(c), before |-> c.before,
                           lost |-> c.lost, stray |-> c.stray])

\* log(), createSpan(): a node that does not become active.
Point(t) ==
  /\ AddNode(ctx[t])
  /\ ctx' = [ctx EXCEPT ![t] = Started(@)]
  /\ UNCHANGED <<stack, task>>

\* trace(): the node is active while the task runs.
BeginTrace(t) ==
  /\ AddNode(ctx[t])
  /\ ctx' = [ctx EXCEPT ![t] = [SetActive(Started(@), NextNode) EXCEPT !.before = {NextNode}]]
  /\ Push(t, [kind |-> "trace", active |-> ctx[t].active])
  /\ UNCHANGED task

\* The end of trace().  Its span.end() is taken not to throw: setActive comes after it.
EndTrace(t) ==
  /\ InFrame(t, "trace")
  /\ ctx' = [ctx EXCEPT ![t] = SetActive(@, Top(t).active)]
  /\ Pop(t)
  /\ UNCHANGED <<node, task>>

-----------------------------------------------------------------------------
(* Work on other threads *)

\* Capture the context as it is, with the parents a join left in it, if any.
Capture(t, kind) ==
  /\ Len(task) < MaxTask
  /\ task' = Append(task, [kind |-> kind, snapshot |-> ctx[t], running |-> 0, runs |-> 0,
                           tails |-> {}, ends |-> {}, lost |-> FALSE])
  /\ UNCHANGED <<ctx, stack, node>>

\* wrap(), wrapSupplier(), and the executor that wraps whatever is submitted to it.
Submit(t) == Capture(t, "wrap")

\* parallel()
Fork(t) == Capture(t, "scope")

Runs == MapThenSumSet(LAMBDA i : task[i].runs, DOMAIN task)

\* A pool thread, a busy one or the one that forked runs a task; a scope may have many branches.
RunTask(t, i) ==
  /\ task[i].kind = "wrap" => task[i].runs = 0
  /\ Runs < MaxRun
  /\ task' = [task EXCEPT ![i].running = @ + 1, ![i].runs = @ + 1]
  /\ Push(t, [kind |-> "task", previous |-> ctx[t], of |-> i])
  /\ ctx' = [ctx EXCEPT ![t] = Restored(task[i].snapshot)]
  /\ UNCHANGED node

\* Where a branch ended, as the scope sees it: the tail of the span it was forked in, if any.
BranchTail(c, fork) == IF fork.active = None THEN {} ELSE {TailOf(c, fork.active)}

\* Task k ends in context c.
Ended(k, c) ==
  IF k.kind = "wrap" THEN [k EXCEPT !.running = @ - 1]
  ELSE [k EXCEPT !.running = @ - 1, !.tails = @ \cup BranchTail(c, k.snapshot),
                 !.ends = @ \cup c.before, !.lost = @ \/ c.lost \/ c.pending /= {}]

\* The task ends: a scope keeps the tail of its branch, the thread gets back its own context.
EndTask(t) ==
  /\ InFrame(t, "task")
  /\ LET i == Top(t).of
     IN task' = [task EXCEPT ![i] = Ended(@, ctx[t])]
  /\ ctx' = [ctx EXCEPT ![t] = Restored(Top(t).previous)]
  /\ Pop(t)
  /\ UNCHANGED node

\* The parents an earlier join left that stand behind scope k's tails: they may be overwritten.
Carried(k) == IF k.tails = {} THEN {} ELSE k.tails \cup k.snapshot.pending

\* Scope k was forked in the trace of c's active span.
SameTrace(c, k) ==
  /\ c.active /= None /\ k.snapshot.active /= None
  /\ node[c.active].trace = node[k.snapshot.active].trace

\* The history of a join: the work goes on where the branches ended, if there were any.
Joined(c, k) ==
  [c EXCEPT !.before = IF k.ends = {} THEN @ ELSE k.ends,
            !.lost = @ \/ k.lost \/ ~(c.pending \subseteq Carried(k)),
            !.stray = k.tails /= {} /\ ~SameTrace(c, k)]

\* join(), as its comment asks "after all parallel tasks complete": by any thread, in any span, and
\* also when the parents of an earlier join still wait for their node.
Join(t, i) ==
  /\ task[i].kind = "scope" /\ task[i].running = 0
  /\ ctx' = [ctx EXCEPT ![t] = SetPending(Joined(@, task[i]), task[i].tails)]
  /\ UNCHANGED <<stack, node, task>>

Next ==
  \/ \E t \in Thread : Point(t) \/ BeginTrace(t) \/ EndTrace(t) \/ EndTask(t)
  \/ \E t \in Thread : Submit(t) \/ Fork(t)
  \/ \E t \in Thread, i \in DOMAIN task : RunTask(t, i) \/ Join(t, i)

Spec == Init /\ [][Next]_vars

-----------------------------------------------------------------------------
(* Properties *)

Context == [active : {None} \cup Node, last : [Node -> {None} \cup Node],
            pending : SUBSET Node, before : SUBSET Node, lost : BOOLEAN, stray : BOOLEAN]

TypeOK ==
  /\ ctx \in [Thread -> Context]
  /\ \A t \in Thread : \A f \in Range(stack[t]) :
       IF f.kind = "trace" THEN f.active \in {None} \cup Node
       ELSE f.previous \in Context /\ f.of \in DOMAIN task
  /\ Len(node) <= MaxNode
  /\ \A n \in DOMAIN node : node[n].trace \in 1..n /\ node[n].parents \subseteq 1..(n - 1)
  /\ \A i \in DOMAIN task : task[i].snapshot \in Context /\ task[i].tails \subseteq Node

\* A node is linked from exactly the nodes its thread's work goes on from: the one started last on
\* this thread, the last before the fork, or the last of every branch that was joined; and branches
\* that run at once are not linked to each other.  That is so unless parents that one join left
\* were overwritten by the next, or dropped with a branch that ended on them: then links are
\* missing.  Also then a trace is one graph: its first node is the only one without a parent, and
\* no edge leaves it, but for the node after a join() called outside the scope's trace.
LinksToLast ==
  \A n \in DOMAIN node :
    /\ ~node[n].lost => node[n].parents = node[n].before
    /\ ~node[n].stray =>
         /\ node[n].parents = {} <=> node[n].trace = n
         /\ \A p \in node[n].parents : node[p].trace = node[n].trace

\* A thread that is in no span and no task has no context: nothing leaks into the next request it
\* serves, except the parents left by a join() that was called there, outside any span.
NoLeak ==
  \A t \in Thread : stack[t] = <<>> =>
    /\ ctx[t].active = None /\ ctx[t].last = Empty.last
    /\ ~ctx[t].stray => ctx[t].pending = {}

=============================================================================
