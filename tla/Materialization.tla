-------------------------- MODULE Materialization --------------------------
(***************************************************************************)
(* The read model of one trace: LogIngestConsumer appends raw node and     *)
(* edge events and announces them on log.trace.ingested; a worker's        *)
(* ReadOptimisedAggregator answers by running materializeTrace, which      *)
(* loads the checkpoint, the read model and the raw events after the       *)
(* checkpoint (less a lookback), folds them, and saves the read model and  *)
(* then the next checkpoint, insert by insert.                             *)
(*                                                                         *)
(* A raw event is <<x, t>>: entity x (a node or an edge) starts (t = 0) or *)
(* ends (t = 1), at the client's time at[<<x, t>>].  A row of the read     *)
(* model is abstracted to the raw events folded into it and its            *)
(* materialized_at_ms.  The tables keep every version and readers take     *)
(* argMax by version, so a table is a function to its latest row.  Raw     *)
(* duplicates (a redelivered batch) fold to the same row: raw is a set.    *)
(***************************************************************************)
EXTENDS Integers, FiniteSetsExt

CONSTANTS
  Nodes, Edges,
  From, To,        \* edge -> the node it names
  Schedules,       \* what may happen: the events of the trace and their times
  Workers,         \* backend instances: each serialises its own rebuilds
  Lookback,        \* lookbackMs
  Lateness,        \* how far behind the newest event an event may arrive
  Drift,           \* how far the newest event may advance between two queries
                   \* that one rebuild issues together
  MaxRequests,     \* bound: triggers not yet answered
  MaxFaults        \* bound: failed rebuilds and redelivered triggers

Entities == Nodes \cup Edges
RawEvents == Entities \X {0, 1}
Start(x) == <<x, 0>>
End(x)   == <<x, 1>>

\* What the lookback has to cover, and what the clients' identifiers and clocks
\* give: an end is not earlier than its start.
ASSUME MaterializationAssumption ==
  /\ Nodes \cap Edges = {}
  /\ IsFiniteSet(Nodes) /\ IsFiniteSet(Edges) /\ IsFiniteSet(Workers)
  /\ From \in [Edges -> Nodes] /\ To \in [Edges -> Nodes]
  /\ Lookback \in Nat /\ Lateness \in Nat /\ Drift \in Nat
  /\ Lateness + Drift <= Lookback
  /\ MaxRequests \in Nat /\ MaxFaults \in Nat
  /\ \A s \in Schedules :
       /\ s \in [DOMAIN s -> Nat] /\ DOMAIN s \subseteq RawEvents
       /\ \A x \in Entities :
            {Start(x), End(x)} \subseteq DOMAIN s => s[Start(x)] <= s[End(x)]

Tables == {"node", "edge"}
Of(k) == IF k = "node" THEN Nodes ELSE Edges

\* The events without which an event cannot be folded into a row: its entity's
\* start and, for an edge, the starts of both its nodes.
Needs == [e \in RawEvents |->
            {Start(e[1])} \cup
            (IF e[1] \in Edges THEN {Start(From[e[1]]), Start(To[e[1]])} ELSE {})]

VARIABLES
  at,           \* the events of this trace and the client's time of each
  raw,          \* node_events and edge_events
  newest,       \* the largest time in raw
  unannounced,  \* written events whose log.trace.ingested is not published yet
  requests,     \* triggers delivered whose handler has not succeeded yet
  rows,         \* read_nodes and read_edges: the latest row of each entity
  summary,      \* trace_summaries: the latest row's counts
  checkpoint,   \* materialization_checkpoints: the latest row's times
  clock,        \* the versions handed out: this.now() of a fold
  faults,
  job           \* the rebuild each worker is running

env  == <<at, raw, newest, unannounced>>
db   == <<rows, summary, checkpoint>>
vars == <<env, requests, db, clock, faults, job>>

NoRow == [ver |-> 0, folded |-> {}]
Empty == [x \in Entities |-> NoRow]
Present(m, S) == {x \in S : m[x].folded # {}}

\* A worker's local state: the step it is at and what is left of it, the
\* checkpoint, read model and raw events it loaded, what it folded them to and the
\* version it stamped.  mark is history: newest when the node query of the raw
\* events ran.
Idle == [step |-> "idle", todo |-> {}, cp |-> [node |-> 0, edge |-> 0],
         base |-> Empty, batch |-> {}, model |-> Empty, ver |-> 0, mark |-> 0]

-----------------------------------------------------------------------------
Init ==
  /\ at \in Schedules
  /\ raw = {}
  /\ newest = 0
  /\ unannounced = {}
  /\ requests = 0
  /\ rows = Empty
  /\ summary = [ver |-> 0, nodes |-> 0, edges |-> 0]
  /\ checkpoint = [ver |-> 0, node |-> 0, edge |-> 0]
  /\ clock = 0
  /\ faults = 0
  /\ job = [w \in Workers |-> Idle]

-----------------------------------------------------------------------------
(* Ingestion.                                                              *)

\* The arrival order the lookback is made for.  An event arrives at most Lateness
\* behind the newest; a node's start arrives while the edges that name it are no
\* further behind than that; and the newest does not advance by more than Drift
\* while a rebuild has run its node query and not its edge query.
Awaiting(e) == {f \in raw : f[1] \in Edges /\ e \in Needs[f]}
InTime(e) ==
  LET newestAfter == Max({newest, at[e]})
  IN  /\ \A f \in {e} \cup Awaiting(e) : at[f] >= newestAfter - Lateness
      /\ \A w \in Workers :
           job[w].step = "raw" /\ job[w].todo = {"edge"} => newestAfter <= job[w].mark + Drift

\* One event of a batch reaches its table (writeRepo.ingestNodesNEdges).
Write(e) ==
  /\ e \in DOMAIN at \ raw
  /\ InTime(e)
  /\ raw' = raw \cup {e}
  /\ newest' = Max({newest, at[e]})
  /\ unannounced' = unannounced \cup {e}
  /\ UNCHANGED <<at, requests, db, clock, faults, job>>

Trigger == /\ requests < MaxRequests
           /\ requests' = requests + 1

\* The consumer publishes log.trace.ingested after the writes of its batch.
Announce ==
  /\ unannounced # {}
  /\ \E S \in (SUBSET unannounced) \ {{}} : unannounced' = unannounced \ S
  /\ Trigger
  /\ UNCHANGED <<at, raw, newest, db, clock, faults, job>>

Fault == /\ faults < MaxFaults
         /\ faults' = faults + 1

\* At-least-once delivery: a trigger comes again, to whichever worker.  It may be
\* that of a batch with only the trace's own start, before any node or edge event.
Redeliver ==
  /\ Fault
  /\ Trigger
  /\ UNCHANGED <<env, db, clock, job>>

-----------------------------------------------------------------------------
(* A rebuild.                                                              *)

\* Worker w goes on to a step with work left to do in it, updating its local state.
Proceed(w, state, step, left) ==
  job' = [job EXCEPT ![w] = [state EXCEPT !.step = step, !.todo = left]]

\* The queries of one Promise.all: when the one on table k is the last, w goes on.
Queried(w, state, k, next, left) ==
  IF state.todo = {k} THEN Proceed(w, state, next, left)
  ELSE Proceed(w, state, state.step, state.todo \ {k})

\* The times of the latest checkpoint; 0 if there is none yet.
LoadCheckpoint == [node |-> checkpoint.node, edge |-> checkpoint.edge]

\* enqueueTrace runs a request as soon as the worker's previous rebuild is over;
\* materializeTrace begins with loadCheckpoint.
Begin(w) ==
  /\ job[w].step = "idle"
  /\ requests > Cardinality({v \in Workers : job[v].step # "idle"})
  /\ Proceed(w, [job[w] EXCEPT !.cp = LoadCheckpoint], "model", Tables)
  /\ UNCHANGED <<env, requests, db, clock, faults>>

\* loadLatestReadModel: one query per table, issued together.
LoadModel(w, k) ==
  /\ job[w].step = "model" /\ k \in job[w].todo
  /\ LET base == [x \in Entities |-> IF x \in Of(k) THEN rows[x] ELSE job[w].base[x]]
     IN  Queried(w, [job[w] EXCEPT !.base = base], k, "raw", Tables)
  /\ UNCHANGED <<env, requests, db, clock, faults>>

\* Mutant: the query resumes at the checkpoint itself.
After_NoLookback(k, cp) == {e \in raw : e[1] \in Of(k) /\ at[e] >= cp[k]}

\* The rows the query of one table selects.  tuple(time, id, type) >
\* tuple(last - lookback, "", 0) is time >= last - lookback: ids are not empty.
After(k, cp) == {e \in raw : e[1] \in Of(k) /\ at[e] >= Max({0, cp[k] - Lookback})}

\* loadRawEventsAfterCheckpoint: again one query per table, issued together.
LoadRaw(w, k) ==
  /\ job[w].step = "raw" /\ k \in job[w].todo
  /\ LET batch == job[w].batch \cup After(k, job[w].cp)
         mark  == IF k = "node" THEN newest ELSE job[w].mark
     IN  Queried(w, [job[w] EXCEPT !.batch = batch, !.mark = mark], k, "fold", {})
  /\ UNCHANGED <<env, requests, db, clock, faults>>

\* The rebuild succeeds: its trigger is answered.
Answered(w) == /\ requests' = requests - 1
               /\ job' = [job EXCEPT ![w] = Idle]

\* No raw events: materializeTrace returns.  (Those of nodes and edges: of the trace itself the model
\* has none.  With nothing but such an event the code goes on and saves the summary and the checkpoint,
\* which change no row that is shown.)
NothingNew(w) ==
  /\ job[w].step = "fold" /\ job[w].batch = {}
  /\ Answered(w)
  /\ UNCHANGED <<env, db, clock, faults>>

\* The events of the batch that change entity x's row.  The query returns them by
\* time, then id, then type, so x's start is handled before x's end; an end is
\* dropped (diagMissingStarts) unless its start was.
Applied(x, old, loaded) ==
  (loaded \cap {Start(x)}) \cup
  (IF Start(x) \in old \cup loaded THEN loaded \cap {End(x)} ELSE {})

\* The node and edge maps after the fold: a touched row gets the version of this
\* fold, an untouched one keeps its own.
FoldedMap(base, loaded, ver) ==
  [x \in Entities |->
     LET applied == Applied(x, base[x].folded, loaded)
     IN  IF applied = {} THEN base[x]
         ELSE [ver |-> ver, folded |-> base[x].folded \cup applied]]

\* Mutant: orphan edges are kept.
WithoutOrphans_Kept(m) == m

\* applyFlowOrder saves an edge only if both its nodes are in the node map.
WithoutOrphans(m) ==
  [x \in Entities |->
     IF x \in Edges /\ ~({From[x], To[x]} \subseteq Present(m, Nodes)) THEN NoRow ELSE m[x]]

\* The fold, up to the first insert: there is no await in between.
Fold(w) ==
  /\ job[w].step = "fold" /\ job[w].batch # {}
  /\ clock' = clock + 1
  /\ LET model == WithoutOrphans(FoldedMap(job[w].base, job[w].batch, clock'))
     IN  Proceed(w, [job[w] EXCEPT !.model = model, !.ver = clock'],
                 "rows", Present(model, Entities))
  /\ UNCHANGED <<env, requests, db, faults>>

\* Of two rows with one key the reader sees the one of the larger version.
Newer(old, new) == IF new.ver > old.ver THEN new ELSE old

\* saveReadModel inserts nodes, then edges, in batches: between any two rows the
\* process may stop.
SaveRow(w, x) ==
  /\ job[w].step = "rows" /\ x \in job[w].todo
  /\ x \in Edges => job[w].todo \cap Nodes = {}
  /\ rows' = [rows EXCEPT ![x] = Newer(@, job[w].model[x])]
  /\ Proceed(w, job[w], "rows", job[w].todo \ {x})
  /\ UNCHANGED <<env, requests, summary, checkpoint, clock, faults>>

\* Mutant: counts are added to those of the previous summary.
Counts_Added(m) == [nodes |-> summary.nodes + Cardinality(Present(m, Nodes)),
                    edges |-> summary.edges + Cardinality(Present(m, Edges))]

\* buildSummary counts the maps as folded.
Counts(m) == [nodes |-> Cardinality(Present(m, Nodes)),
              edges |-> Cardinality(Present(m, Edges))]

\* buildTraceSummaryRow: the row replaces the previous one, whatever that counted.
SummaryRow(counts, ver) == [ver |-> ver, nodes |-> counts.nodes, edges |-> counts.edges]

SaveSummary(w) ==
  /\ job[w].step = "rows" /\ job[w].todo = {}
  /\ summary' = Newer(summary, SummaryRow(Counts(job[w].model), job[w].ver))
  /\ Proceed(w, job[w], "checkpoint", {})
  /\ UNCHANGED <<env, requests, rows, checkpoint, clock, faults>>

\* Mutant: the checkpoint is the latest raw event, loaded or not.
NextTime_Newest(w, k) == Max({0} \cup {at[e] : e \in {f \in raw : f[1] \in Of(k)}})

\* buildNextCheckpoint: the time of the last event loaded of the table, if any.
NextTime(w, k) ==
  LET times == {at[e] : e \in {f \in job[w].batch : f[1] \in Of(k)}}
  IN  IF times = {} THEN job[w].cp[k] ELSE Max(times)

\* buildCheckpointRow.  Like the rows and the summary it is stamped with the time of the fold.
CheckpointRow(w) ==
  [ver |-> job[w].ver, node |-> NextTime(w, "node"), edge |-> NextTime(w, "edge")]

SaveCheckpoint(w) ==
  /\ job[w].step = "checkpoint"
  /\ checkpoint' = Newer(checkpoint, CheckpointRow(w))
  /\ Answered(w)
  /\ UNCHANGED <<env, rows, summary, clock, faults>>

\* A query or an insert fails, or the process dies, before the checkpoint is saved:
\* the events stay unmarked, so the trigger is delivered again.
Fail(w) ==
  /\ job[w].step # "idle"
  /\ Fault
  /\ job' = [job EXCEPT ![w] = Idle]
  /\ UNCHANGED <<env, requests, db, clock>>

Step(w) ==
  \/ Begin(w)
  \/ \E k \in Tables : LoadModel(w, k) \/ LoadRaw(w, k)
  \/ NothingNew(w)
  \/ Fold(w)
  \/ \E x \in Entities : SaveRow(w, x)
  \/ SaveSummary(w)
  \/ SaveCheckpoint(w)

Next ==
  \/ \E e \in RawEvents : Write(e)
  \/ Announce
  \/ Redeliver
  \/ \E w \in Workers : Step(w) \/ Fail(w)

Spec == Init /\ [][Next]_vars

\* The consumer goes on to publish what it wrote (or its batch is redelivered), and
\* a rebuild whose calls do not fail goes on to its end.
Fairness == WF_vars(Announce) /\ \A w \in Workers : WF_vars(Step(w))
FairSpec == Spec /\ Fairness

-----------------------------------------------------------------------------
(* Properties.                                                             *)

Row == [ver : 0 .. clock, folded : SUBSET raw]
Times == {at[e] : e \in raw} \cup {0}

TypeOK ==
  /\ at \in Schedules
  /\ raw \subseteq DOMAIN at /\ unannounced \subseteq raw
  /\ newest \in Times
  /\ requests \in 0 .. MaxRequests /\ faults \in 0 .. MaxFaults
  /\ clock \in Nat
  /\ rows \in [Entities -> Row]
  /\ summary \in [ver : 0 .. clock, nodes : 0 .. Cardinality(Nodes),
                                    edges : 0 .. Cardinality(Edges)]
  /\ checkpoint \in [ver : 0 .. clock, node : Times, edge : Times]
  /\ job \in [Workers ->
       [step  : {"idle", "model", "raw", "fold", "rows", "checkpoint"},
        todo  : SUBSET (Tables \cup Entities),
        cp    : [node : Times, edge : Times],
        base  : [Entities -> Row], batch : SUBSET raw,
        model : [Entities -> Row], ver : 0 .. clock, mark : Times]]

Shown == UNION {rows[x].folded : x \in Entities}
Due == {e \in raw : Needs[e] \subseteq raw}

\* Nothing is skipped: a raw event that can be folded and is in no row is still
\* ahead of the point from which the next rebuild reads its table.  The overlap of
\* loadRawEventsAfterCheckpoint and the order "read model, then checkpoint" are
\* there for this; it also has to survive failed saves and the two raw queries
\* seeing different moments.
NothingSkipped ==
  \A k \in Tables : \A e \in Due \ Shown :
    e[1] \in Of(k) => at[e] >= checkpoint[k] - Lookback

\* When every write has been announced and every trigger answered, the read model shows every
\* event that can be folded, and the trace list's counts are those of the rows, although summary
\* and rows are separate inserts and an edge may have waited for its nodes.
AtRest == /\ unannounced = {} /\ requests = 0
          /\ \A w \in Workers : job[w].step = "idle"
CaughtUp ==
  AtRest => /\ Due \subseteq Shown
            /\ summary.nodes = Cardinality(Present(rows, Nodes))
            /\ summary.edges = Cardinality(Present(rows, Edges))

View == INSTANCE ReadView WITH Event <- RawEvents, log <- raw, view <- Shown

\* The read model implements the view its readers are promised: it shows only what can be folded,
\* never takes back what it has shown, and, as rebuilds keep being triggered until one succeeds,
\* shows every event that can be folded in the end.
ImplementsReadView == View!LiveSpec
=============================================================================
