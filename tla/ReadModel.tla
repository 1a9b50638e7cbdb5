----------------------------- MODULE ReadModel ------------------------------
(***************************************************************************)
(* What a rebuild writes and what a reader pages through, for one trace:   *)
(* materializeTrace orders the nodes (FlowOrder), corrects their clocks    *)
(* along that order and saves the rows one after the other, while a client *)
(* walks the trace page by page with projectTraceFlow, whose three         *)
(* queries (summary, nodes, edges) are not one snapshot.                   *)
(*                                                                         *)
(* read_nodes keeps every version of a row.  A rebuild gives a new version *)
(* only to the nodes whose events it loaded and saves the others under the *)
(* version they had, so rows[n] is the sequence of the values at the       *)
(* latest version: a query returns any of them (argMax of equal versions)  *)
(* until a background merge keeps the one inserted last.                   *)
(*                                                                         *)
(* How rebuilds load, race and resume is the matter of Materialization:    *)
(* here one worker loads in one step.  A node's start and end come in one  *)
(* batch.  Inserts are of one row, where the code's are of 100.            *)
(***************************************************************************)
EXTENDS FlowOrder, FiniteSetsExt, SequencesExt, Functions

CONSTANTS
  Traces,       \* [batches, start, end, made]: the batches a trace arrives in and the
                \* clients' times of its nodes and edges
  Lookback,     \* lookbackMs
  Limits,       \* the page sizes a client may ask for
  MaxFaults     \* bound: failed rebuilds and redelivered triggers

ASSUME ReadModelAssumption ==
  /\ Lookback \in Nat /\ MaxFaults \in Nat /\ Limits \subseteq Nat \ {0}
  /\ \A t \in Traces :
       /\ t.batches \in Seq(SUBSET (Node \cup Edge))
       /\ \A i \in DOMAIN t.batches : IsFiniteSet(t.batches[i])
       /\ t.start \in [Node -> Nat] /\ t.end \in [Node -> Nat] /\ t.made \in [Edge -> Nat]
       /\ \A n \in Node : t.start[n] <= t.end[n]

VARIABLES
  trace,      \* the trace
  arrived,    \* how many of its batches are in the raw tables
  requests,   \* triggers not yet answered
  rows,       \* read_nodes
  saved,      \* read_edges
  progress,   \* the checkpoint's times of the last node and edge event
  torn,       \* history: a save has begun and its last edge is not saved
  faults,
  job,        \* the rebuild
  walk        \* the client's walk through the trace

env  == <<trace, arrived, requests, faults>>
db   == <<rows, saved, progress, torn>>
vars == <<orderVars, env, db, job, walk>>

raw == UNION {trace.batches[i] : i \in 1 .. arrived}
Present == {n \in Node : rows[n] /= <<>>}

\* The time of the latest event of the trace, which loadTraceSummary returns as
\* materializedAt.
Stamp == Max({trace.end[n] : n \in raw \cap Node} \cup {trace.made[e] : e \in raw \cap Edge})

\* A rebuild's local state: the nodes and edges it saves with their times, those whose events it
\* loaded, the nodes left to correct or to save, and its checkpoint.
IdleJob == [step |-> "idle", values |-> <<>>, touched |-> {}, edges |-> {}, aligned |-> <<>>,
            left |-> <<>>, next |-> [node |-> 0, edge |-> 0]]

\* Between its last query and its first insert a rebuild only computes: nobody sees its steps.
Computing == job.step \in {"order", "correct"}

\* The client's request, the page being loaded for it and what the walk has been given: the
\* nodes, the edges between nodes of one page and the times an edge was omitted.  settled, moved
\* and steady are history: nothing was half saved when the walk began; what it reads has changed
\* since; and it had not when the first page was returned.
NoWalk == [step |-> "none", limit |-> 1, offset |-> 0, stamp |-> 0, page |-> <<>>,
           more |-> FALSE, nodes |-> <<>>, shown |-> {},
           omitted |-> [e \in Edge |-> 0], settled |-> FALSE, moved |-> FALSE, steady |-> FALSE]

Init ==
  /\ InitIdle
  /\ trace \in Traces
  /\ arrived = 0 /\ requests = 0 /\ faults = 0
  /\ rows = [n \in Node |-> <<>>]
  /\ saved = {}
  /\ progress = [node |-> 0, edge |-> 0]
  /\ torn = FALSE
  /\ job = IdleJob
  /\ walk = NoWalk

-----------------------------------------------------------------------------
(* Arrival and triggers.                                                   *)

Ingest ==
  /\ ~Computing /\ arrived < Len(trace.batches)
  /\ arrived' = arrived + 1
  /\ requests' = requests + 1
  /\ UNCHANGED <<orderVars, trace, faults, db, job, walk>>

Fault == ~Computing /\ faults < MaxFaults /\ faults' = faults + 1

\* The event bus delivers a trigger again.
Redeliver ==
  /\ Fault
  /\ arrived > 0
  /\ requests' = requests + 1
  /\ UNCHANGED <<orderVars, trace, arrived, db, job, walk>>

-----------------------------------------------------------------------------
(* The rebuild.                                                            *)

Since(time) == IF time < Lookback THEN 0 ELSE time - Lookback

\* The raw events after the checkpoint, less the lookback.
StartsLoaded == {n \in raw \cap Node : trace.start[n] >= Since(progress.node)}
EndsLoaded   == {n \in raw \cap Node : trace.end[n] >= Since(progress.node)}
EdgesLoaded  == {e \in raw \cap Edge : trace.made[e] >= Since(progress.edge)}

\* buildNextCheckpoint: the times of the last events loaded.
Reached ==
  [node |-> Max({progress.node} \cup {trace.start[n] : n \in StartsLoaded}
                               \cup {trace.end[n] : n \in EndsLoaded}),
   edge |-> Max({progress.edge} \cup {trace.made[e] : e \in EdgesLoaded})]

\* handleNodeStart and handleNodeEnd on the row read: a loaded event resets the time
\* it gives, the other keeps that of the row, corrected as it may be.
FoldNode(n, old) ==
  [start |-> IF n \in StartsLoaded THEN trace.start[n] ELSE old.start,
   end   |-> IF n \in EndsLoaded THEN trace.end[n] ELSE old.end,
   order |-> 0]

\* materializeTrace up to its call of computeFlowOrder.  An end whose node is neither in
\* the read model nor loaded is dropped.
Begin ==
  /\ job.step = "idle" /\ requests > 0
  /\ LET ns == Present \cup StartsLoaded
         es == saved \cup EdgesLoaded
     IN  \E old \in [Present -> UNION {Range(rows[n]) : n \in Present}] :
           /\ \A n \in Present : old[n] \in Range(rows[n])
           /\ LET values == [n \in ns |-> FoldNode(n, IF n \in Present THEN old[n]
                                                      ELSE [start |-> 0, end |-> 0])]
              IN  /\ job' = [IdleJob EXCEPT !.step = "order", !.values = values,
                                            !.touched = ns \cap EndsLoaded,
                                            !.edges = Known(ns, es), !.next = Reached]
                  /\ Call(ns, es, [n \in Node |-> IF n \in ns THEN values[n].start ELSE 0])
  /\ UNCHANGED <<env, db, walk>>

FlowStep ==
  /\ Turn
  /\ UNCHANGED <<env, db, job, walk>>

Parents(n) == {From[e] : e \in {f \in job.edges : To[f] = n}}

\* Mutant: a node keeps the start an earlier rebuild gave it.
Correct_NoReset(values, n) ==
  LET earliest == Min({values[p].start : p \in Parents(n)})
      delta == earliest + 1 - values[n].start
  IN  IF Parents(n) = {} \/ values[n].start >= earliest THEN values
      ELSE [values EXCEPT ![n].start = @ + delta, ![n].end = @ + delta]

\* Mutant: the end is shifted the other way.
Correct_EndBack(values, n) ==
  LET reset == [values EXCEPT ![n].start = trace.start[n]]
      earliest == Min({reset[p].start : p \in Parents(n)})
      delta == earliest + 1 - trace.start[n]
  IN  IF Parents(n) = {} \/ trace.start[n] >= earliest THEN reset
      ELSE [reset EXCEPT ![n].start = @ + delta, ![n].end = @ - delta]

\* One turn of correctClockSkew: the start is reset to the original; a node that starts
\* before its earliest parent is shifted behind it.  Parents that come later have the
\* start they had before the rebuild.
Correct(values, n) ==
  LET reset == [values EXCEPT ![n].start = trace.start[n]]
      earliest == Min({reset[p].start : p \in Parents(n)})
      delta == earliest + 1 - trace.start[n]
  IN  IF Parents(n) = {} \/ trace.start[n] >= earliest THEN reset
      ELSE [reset EXCEPT ![n].start = @ + delta, ![n].end = @ + delta]

\* applyFlowOrder, and the sort by flow order of correctClockSkew.
ApplyFlowOrder ==
  /\ job.step = "order" /\ ~busy
  /\ LET numbered == [n \in nodes |->
                        [job.values[n] EXCEPT !.order = (CHOOSE i \in DOMAIN order : order[i] = n) - 1]]
     IN  job' = [job EXCEPT !.step = "correct", !.values = numbered, !.left = order]
  /\ UNCHANGED <<orderVars, env, db, walk>>

CorrectNode ==
  /\ job.step = "correct" /\ job.left /= <<>>
  /\ job' = [job EXCEPT !.values = Correct(@, Head(job.left)), !.left = Tail(@)]
  /\ UNCHANGED <<orderVars, env, db, walk>>

\* The start of an edge is reset as well, then moved up to that of the node it leaves.
Aligned(e) == Max({trace.made[e], job.values[From[e]].start})

\* The rest of correctClockSkew; the save begins.
AlignEdges ==
  /\ job.step = "correct" /\ job.left = <<>>
  /\ job' = [job EXCEPT !.step = "rows", !.left = order,
                         !.aligned = [e \in job.edges |-> Aligned(e)]]
  /\ UNCHANGED <<orderVars, env, db, walk>>

\* A save that changes what readers see moves the trace under a walk.
Moves(changed) == walk' = [walk EXCEPT !.moved = @ \/ (changed /\ walk.step /= "none")]

\* The versions a reader may see of a row once it is saved: the new one alone if its
\* events were loaded, else another one of the same version.
SavedRow(n) ==
  IF n \in job.touched THEN <<job.values[n]>>
  ELSE IF Last(rows[n]) = job.values[n] THEN rows[n]
  ELSE Append(rows[n], job.values[n])

SaveRow ==
  /\ job.step = "rows" /\ job.left /= <<>>
  /\ LET n == Head(job.left)
     IN  /\ rows' = [rows EXCEPT ![n] = SavedRow(n)]
         /\ Moves(rows'[n] /= rows[n])
  /\ torn' = TRUE
  /\ job' = [job EXCEPT !.left = Tail(@)]
  /\ UNCHANGED <<orderVars, env, saved, progress>>

\* buildReadEdgeRows: the rows of all edges, of which readers page through the ends.
SavedEdges == saved \cup job.edges

SaveEdges ==
  /\ job.step = "rows" /\ job.left = <<>>
  /\ saved' = SavedEdges
  /\ Moves(saved' /= saved)
  /\ torn' = FALSE
  /\ job' = [job EXCEPT !.step = "checkpoint"]
  /\ UNCHANGED <<orderVars, env, rows, progress>>

SaveCheckpoint ==
  /\ job.step = "checkpoint"
  /\ progress' = job.next
  /\ requests' = requests - 1
  /\ job' = IdleJob
  /\ UNCHANGED <<orderVars, trace, arrived, faults, rows, saved, torn, walk>>

\* An insert fails or the process dies: the trigger is delivered again.
Fail ==
  /\ job.step \in {"rows", "checkpoint"}
  /\ Fault
  /\ job' = IdleJob
  /\ UNCHANGED <<orderVars, trace, arrived, requests, db, walk>>

\* A background merge of read_nodes.
Merge(n) ==
  /\ ~Computing /\ Len(rows[n]) > 1
  /\ rows' = [rows EXCEPT ![n] = <<Last(@)>>]
  /\ UNCHANGED <<orderVars, env, saved, progress, torn, job, walk>>

-----------------------------------------------------------------------------
(* The client's walk: projectTraceFlow, page after page.                   *)

Settled == job.step = "idle" /\ ~torn /\ \A n \in Node : Len(rows[n]) <= 1

\* A request without a cursor.  Its first query, loadTraceSummary, gives the stamp.
OpenFlow(limit) ==
  /\ ~Computing /\ walk.step = "none" /\ raw /= {}
  /\ walk' = [NoWalk EXCEPT !.step = "nodes", !.limit = limit, !.stamp = Stamp,
                            !.settled = Settled]
  /\ UNCHANGED <<orderVars, env, db, job>>

\* The rows at or after the offset, by flow order and id, for one choice of the versions.
Window(seen, offset) ==
  LET ids == {n \in Present : seen[n].order >= offset}
      Sooner(n, m) == \/ seen[n].order < seen[m].order
                      \/ seen[n].order = seen[m].order /\ n < m
      sorted == CHOOSE s \in SetToSeqs(ids) :
                  \A i, j \in DOMAIN s : i < j => Sooner(s[i], s[j])
  IN  [i \in DOMAIN sorted |-> [id |-> sorted[i], order |-> seen[sorted[i]].order]]

Page(window) == SubSeq(window, 1, Min({Len(window), walk.limit}))

\* loadBoundedProjectionNodes
ReadNodes ==
  /\ ~Computing /\ walk.step = "nodes"
  /\ \E seen \in [Present -> UNION {Range(rows[n]) : n \in Present}] :
       /\ \A n \in Present : seen[n] \in Range(rows[n])
       /\ LET window == Window(seen, walk.offset)
          IN  walk' = [walk EXCEPT !.step = "edges", !.page = Page(window),
                                   !.more = Len(window) > walk.limit]
  /\ UNCHANGED <<orderVars, env, db, job>>

PageNodes(page) == {page[i].id : i \in DOMAIN page}
Touching(on) == {e \in saved : From[e] \in on \/ To[e] \in on}

\* loadBoundedVisibleEdges, and the page is returned.
ReadEdges ==
  /\ ~Computing /\ walk.step = "edges"
  /\ LET on == PageNodes(walk.page)
         both == {e \in Touching(on) : {From[e], To[e]} \subseteq on}
     IN  walk' = [walk EXCEPT
                    !.step = IF walk.more THEN "page" ELSE "done",
                    !.page = <<>>,
                    !.nodes = @ \o [i \in DOMAIN walk.page |-> walk.page[i].id],
                    !.shown = @ \cup both,
                    !.omitted = [e \in Edge |-> IF e \in Touching(on) \ both THEN @[e] + 1
                                                                             ELSE @[e]],
                    !.steady = IF walk.offset = 0 THEN walk.settled /\ ~walk.moved ELSE @]
  /\ UNCHANGED <<orderVars, env, db, job>>

\* Mutant: the next page begins one row late.
NextOffset_Late == walk.offset + walk.limit + 1

NextOffset == walk.offset + walk.limit

\* The next request, with nextCursor: accepted if the summary has the cursor's stamp.
NextPage ==
  /\ ~Computing /\ walk.step = "page" /\ Stamp = walk.stamp
  /\ walk' = [walk EXCEPT !.step = "nodes", !.offset = NextOffset]
  /\ UNCHANGED <<orderVars, env, db, job>>

\* ConflictError: the client is asked to refresh.
RejectCursor ==
  /\ ~Computing /\ walk.step = "page" /\ Stamp /= walk.stamp
  /\ walk' = [NoWalk EXCEPT !.step = "conflict"]
  /\ UNCHANGED <<orderVars, env, db, job>>

Walk == (\E limit \in Limits : OpenFlow(limit)) \/ ReadNodes \/ ReadEdges \/ NextPage \/ RejectCursor

Next ==
  \/ Ingest \/ Redeliver \/ Begin \/ FlowStep
  \/ ApplyFlowOrder \/ CorrectNode \/ AlignEdges
  \/ SaveRow \/ SaveEdges \/ SaveCheckpoint \/ Fail
  \/ \E n \in Node : Merge(n)
  \/ Walk

Spec == Init /\ [][Next]_vars

-----------------------------------------------------------------------------
(* Properties.                                                             *)

Value == [start : Nat, end : Nat, order : Nat]

TypeOK ==
  /\ OrderTypeOK
  /\ trace \in Traces /\ arrived \in 0 .. Len(trace.batches)
  /\ requests \in 0 .. arrived + faults /\ faults \in 0 .. MaxFaults
  /\ \A n \in Node : \A i \in DOMAIN rows[n] : rows[n][i] \in Value
  /\ saved \subseteq raw \cap Edge
  /\ torn \in BOOLEAN
  /\ job.step \in {"idle", "order", "correct", "rows", "checkpoint"}
  /\ DOMAIN job.values \subseteq raw \cap Node /\ job.edges \subseteq raw \cap Edge
  /\ \A n \in DOMAIN job.values : job.values[n] \in Value
  /\ walk.step \in {"none", "nodes", "edges", "page", "done", "conflict"}

\* When a rebuild begins to save a trace without cycles, the starts are those its raw times
\* define, whatever earlier rebuilds made of them: a node starts when it did, or right behind
\* its earliest parent if that started later, and an edge not before the node it leaves
\* (correctClockSkew, TraceReadModelMaterializer.ts:233-299).  It takes the flow order to be
\* sound, the reset, and parents corrected before children.
StartOf(n) ==
  LET earliest == Min({job.values[p].start : p \in Parents(n)})
  IN  IF Parents(n) = {} \/ trace.start[n] >= earliest THEN trace.start[n] ELSE earliest + 1

CorrectionIsCausal ==
  job.step = "rows" =>
    /\ cycles = 0 => \A n \in DOMAIN job.values : job.values[n].start = StartOf(n)
    /\ \A e \in job.edges : job.aligned[e] >= job.values[From[e]].start

\* The rows hold and a rebuild saves nodes that last at least as long as they did, so that none
\* ends before it starts: a correction moves a node later only, and the end it finds is never
\* before the original one (correctClockSkew, TraceReadModelMaterializer.ts:266-271).  It takes
\* the reset of the start and the shift of the end to be in one turn, and the fold of an old row.
LastsAsLong(value, n) == value.end - value.start >= trace.end[n] - trace.start[n]

NothingShrinks ==
  /\ job.step = "rows" => \A n \in DOMAIN job.values : LastsAsLong(job.values[n], n)
  /\ \A n \in Node : \A i \in DOMAIN rows[n] : LastsAsLong(rows[n][i], n)

\* The times that are saved: causal starts, and no node shorter than it was.
CorrectionIsSound == CorrectionIsCausal /\ NothingShrinks

\* A walk that begins when nothing is half saved and ends with no row changed under it
\* returns every node exactly once, in flow order; and every edge either with both its nodes
\* on one page, or as omitted on the page of each (projectTraceFlow and its queries).
SteadyWalkTiles ==
  walk.step = "done" /\ walk.settled /\ ~walk.moved =>
    /\ walk.nodes = [i \in DOMAIN walk.nodes |-> CHOOSE n \in Present : rows[n][1].order = i - 1]
    /\ Range(walk.nodes) = Present
    /\ \A e \in saved : \/ e \in walk.shown /\ walk.omitted[e] = 0
                        \/ e \notin walk.shown /\ walk.omitted[e] = 2

\* A cursor is accepted only if the trace was not re-materialized since the page it came with
\* (docs/2.trace_pipeline/2.3.graph_projection.md:111): when the first page was of rows that nobody
\* was saving and nothing is half saved now, the window it opens holds no node that the client
\* was given before, as it does when a rebuild has rewritten the flow order in between.
StaleCursorRejected ==
  [][NextPage /\ walk.steady /\ ~torn =>
       \A n \in Range(walk.nodes) : \E i \in DOMAIN rows[n] : rows[n][i].order < NextOffset]_vars

\* The correction preserves durations (TraceReadModelMaterializer.ts:267).
DurationKept ==
  job.step = "rows" =>
    \A n \in DOMAIN job.values :
      job.values[n].end - job.values[n].start = trace.end[n] - trace.start[n]
=============================================================================
