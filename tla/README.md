# Topo-Tracer in TLA+

Topo-Tracer records traces: SDKs send the start and end events of nodes and edges, a backend
(`hono-server`) stores them and folds them into a read model, a frontend shows it. This directory
models the parts of the SDKs and of the backend whose correctness depends on the order in which
independent things happen, checks them with TLC and proves many of the results with TLAPS.

1. The system - 2. Modules - 3. Runs - 4. Findings and known limits - 5. Proofs - 6. Not modelled - 7. Plan

## 1. The system

| Part (under `src/`) | State it keeps | Operations | Hard behaviour |
| --- | --- | --- | --- |
| Outbox: `infra/event-bus/outbox` (`PgOutboxStore`, `OutboxRelay`) | `outbox_events(status, created_at)`; per relay the batch it claimed | `save`, `recoverStuck`, `claimPending`, `publish`, `markSent`, `markFailed` | several relays, row locks, crashes and failed calls between any two statements |
| Relay lifecycle: `OutboxRelay`, `index.ts` | `isActive`, `isPolling`, `failureCount`, the timer, `shutdownResolve` | `start`, `pollNext`, `scheduleNext`, `stop`, signal handlers | a signal during a poll, before the bootstrap, twice |
| Event bus: `DevEventBus`, `KafkaEventBus`, idempotency store | marks of processed events, in memory, 24 h | `publish`, `subscribe`'s wrapped handler | check-then-act, redelivery, restart, partly processed batches |
| Ingestion: `LogServiceImpl.ingestNodesNEdges`, `LogIngestConsumer`, `LogWriteRepoClickHouse` | raw event tables | validate, publish, insert, announce | partial failure, duplicates, SDK retries |
| Materialization: `ReadOptimisedAggregator`, `TraceReadModelMaterializer`, `LogReadRepoClickHouse` | per trace: rows of nodes and edges, summary, checkpoint | trigger, load, fold, save | late events, queries of different moments, crashes between inserts |
| Flow order, clock skew: `flowOrder.ts`, `correctClockSkew` | none: pure, but applied again to their own output | order nodes, shift times | cycles, ties, repeated application |
| Reads: `LogServiceImpl.projectTraceFlow`, `LogFlowProjector`, `CursorCodec` | the cursor the client holds | page, project | three queries that are no snapshot, cursors over changing data |
| Auth: `AuthServiceImpl`, `AuthRepoPg`, user cache | users, pending users, one-time tokens, API keys, cache | sign-up, reset, session and key checks | check-then-act over a cache, operations that fail half way |
| Node SDK: `sdks/node-js/src/Tracer.ts` | event buffers, the batch in flight, `isFlushing`, `flushAgain`, the timer | record, flush, retry, shutdown, process end | flush during flush, joined promises, rejections nobody handles |
| Java SDK: `Tracer.java` | event buffers, executor and its queue, scheduler | record, flush, send, shutdown | threads between lock and submit, timeouts of the shutdown |
| Java SDK: `TraceContext.java`, `ParallelScope` | a context per thread, snapshots, tails | `trace`, `wrap`, `parallel`, `join` | pooled threads, nested and concurrent branches |
| Deletion: `deleteTrace` | eight tables | asynchronous mutations | a rebuild at the same time |
| Frontend, notification, Spring adapters and skeleton | - | - | none of their own: rendering, printing, callbacks, scaffolding |

How they interact: an SDK buffers events and posts them in batches, with retries. The HTTP request
publishes `log.telemetry.received`, whose consumer inserts raw rows into ClickHouse and publishes
`log.trace.ingested`, whose consumer rebuilds the read model of the trace. On the in-process bus this
whole chain runs inside the request; on Kafka each step is its own consumer group. Readers see only
the read-model tables, in which every save appends a version and the query takes the latest. The auth
service saves events in its own Postgres transaction through the outbox; the relay publishes them later.

What makes the parts correct: an outbox hands over what was committed at least once and not twice
without a reason; a stopped relay is quiet and a signalled process exits; what the bus will not deliver
again has had its effect; the read model only grows towards the log and gets there; its order, clocks,
pages and projections are those of the trace, however often and in whatever pieces it was rebuilt; an
account has an owner and a reset stands; an SDK keeps an event until it is answered or reported, links
nodes as the program ran, and a shutdown waits for what it is there to save.

## 2. Modules

| Module | Models | Kind |
| --- | --- | --- |
| `AtLeastOnce` | what an outbox promises its callers | abstract specification |
| `ReadView` | what the read model promises its readers | abstract specification |
| `EventSink` | what an SDK promises the application | abstract specification |
| `Outbox` | `outbox_events` and the polls of any number of relays | component; implements `AtLeastOnce` |
| `RelayLifecycle` | one relay from process start to `process.exit` | component |
| `Ingestion` | requests, the two event buses, the wrapped handlers of both consumers, the queues of rebuilds | composition of the components a batch passes through; uses the contract of `ReadView` |
| `Materialization` | raw events, triggers and rebuilds of one trace, insert by insert | component; implements `ReadView` |
| `FlowOrder` | `computeFlowOrder`, a turn of its loop per action | algorithm |
| `FlowProjection` | `LogFlowProjector.project` of one page | algorithm, as operators; on top of `ReadModel`, whose pages it is given |
| `ReadModel` | flow order, clock correction, row versions and saves of one trace, and a client that pages through it | composition with `FlowOrder` |
| `Auth` | accounts, resets, sessions, API keys, the user cache | component |
| `NodeTracer` | buffer, drain, retries and shutdown of the Node SDK | component; implements `EventSink` |
| `JavaTracer` | buffer, flushes, executor and shutdown of the Java SDK | component; implements `EventSink` |
| `JavaContext` | contexts, wrapped tasks and parallel scopes of the Java SDK | component |
| `*Proofs` | theorems about the component of the same name; `OutboxProofs` about `RelayLifecycle` too, `ReadModelProofs` about `FlowOrder` and `FlowProjection` too | proofs |
| `MC*` | instances for TLC | model checking |

An operator whose comment begins "Mutant:" is a plausible wrong version of the definition of the same
name; putting it in that definition's place makes some property fail, which shows that the property
depends on the code it is about.

### Outbox

A row is an element of `Events`; `status` and `created` are its columns, `"absent"` before its insert.
Each relay has a program counter `pc[r]` over the awaits of `poll` and the local `claimed[r]`.
A call is one action because it is one SQL statement; `claimPending` is a transaction of two statements
and is two actions: `SelectPending` locks rows (`FOR UPDATE`), other claims pass over them
(`SKIP LOCKED`, `Available`), other updates wait for them (`Unlocked`), and `CommitClaim` sets the
status and releases the locks. A failed call may or may not have taken effect. `Crash` forgets the
relay's local state and nothing else. `copies` and `claimedAt` are history variables.

`Promise` maps the outbox to `AtLeastOnce`: accepted are the rows in the table, delivered those handed
to the bus, written off those `'sent'`.

### RelayLifecycle

The event loop runs one callback at a time, so an action is the code between two awaits: the bootstrap's
`then` (`Start`), the timer (`PollBegins`), the settled poll with the `finally` of `pollNext`
(`PollSettles`), and per signal the steps of `handleGracefulShutdown`. Delays are computed as in
`scheduleNext`, with jitter 0% or 30% (the delay is monotone in the jitter).

### Ingestion

A batch (an SDK request's payload, which is also its idempotency id) goes from the SDK to the read model.
`Durable` chooses the bus. With `KafkaEventBus`, `log` holds the messages of the two topics, `committed`
the offsets, and one consumer loop per group delivers runs of at most `MaxPoll` messages; the broker is
external, with one partition per topic, and it redelivers from the committed offset. With `DevEventBus`,
`publish` calls the handler: a lane is one HTTP request being handled, `job[l]["ingest"]` the delivery
inside it and `job[l]["rebuild"]` the delivery nested in that one.

| In the model | In the code |
| --- | --- |
| `PostInProcess`, `PostToBroker`, `LoseRequest` | the request's publish and the SDK's retry loop (`ingestWithRetry`); a reply may be lost |
| `Connected`, `Refused`, `producer` | `KafkaEventBus.publish`, which keeps its producer before `connect()` has resolved |
| `Deliver`, `Check`, `Mark`, `End` | `subscribe`'s wrapped handler, an action per awaited `isProcessed` and `markProcessed` |
| `Insert`, `PublishTriggers` | `LogIngestConsumer`: the inserts table by table, then one publish for the traces of the batch |
| `LastPerTrace`, `Enqueue` | `ReadOptimisedAggregator.run`: one event per trace id, `Promise.all` over the rebuilds |
| `StartRebuild`, `EndRebuild`, `Dequeued` | `enqueueTrace`: the queue of a user's trace |
| `Fail*`, `RefusePublish`, `Throw`, `Crash`, `Expire` | a call that fails with or without effect, the death of the process, an expired mark |

A rebuild here is what `ReadView` promises of it: it shows what was stored when it began. That contract is
what `Materialization` is checked against, so the two models meet at the abstract specification and not
in one product of their states. `stored` counts inserts, because the raw tables keep duplicates. The limit
of concurrent rebuilds (`p-limit`), which orders rebuilds of different traces only, is left out.

### Materialization

The time of an event is the client's; the order of arrival is the order of `Write`. A rebuild
(`job[w]`) is a sequence of awaits: load the checkpoint (`Begin`), two queries for the rows
(`LoadModel`), two for the raw events (`LoadRaw`), the synchronous fold (`Fold`), an insert per row
(`SaveRow`, nodes before edges), the summary (`SaveSummary`), the checkpoint (`SaveCheckpoint`). `Fail`
ends a rebuild at any await and leaves its trigger unanswered.

A row is the set of raw events folded into it and its version; a table is its latest rows. The payload of
a row is `ReadModel`'s matter. Two folds of one trace get different versions here: the code takes them
from the millisecond clock, with several awaited queries between one fold and the next. Rows are saved one
by one where the code's inserts take 100 at a time: every state in which a save of the code can die is
among those in which one of the model can.

`InTime` is the assumption about the world under which the ten-second lookback is enough: an event
arrives at most `Lateness` behind the newest, the start of a node arrives before the edges that name it
are further behind than that, and the newest does not advance by more than `Drift` between the two raw
queries; `Lateness + Drift <= Lookback`. Nothing in the code enforces it. An event that breaks it is
lost to the read model, which is a limit of the design that the model takes as given.

### FlowOrder, ReadModel, FlowProjection

`FlowOrder` keeps the variables of `computeFlowOrder`: the in-degree of a node as the set of edges it still
counts (`blocking`), the priority queue as the set `candidates` of which `First` comes out, the numbers
given as `order`. `Call` is the preparation, `Take`, `Skip`, `Break` the turns of the loop (a node, one
that a broken cycle had queued early, an empty queue), `Return` the end. Ids are numbers because the code
breaks ties by comparing them.

`ReadModel` calls it from a rebuild (`Begin`) with the nodes and edges it folds. `ApplyFlowOrder` gives the
nodes their numbers, `CorrectNode` is a turn of the loop of `correctClockSkew`, `AlignEdges` its end, where
edges are moved with the nodes they leave; `SaveRow`, `SaveEdges`, `SaveCheckpoint` are the inserts. `rows[n]` is the sequence of the values that share the latest version of a row: a rebuild stamps
only the nodes whose events it loaded (`job.touched`) and saves the others, with a new flow order, under
the version they had, so that a query may return either until a background merge (`Merge`) keeps the last.
`Begin` loads in one step; how loads and saves interleave is `Materialization`'s matter. A node's start and
end come in one batch.

A client's walk (`walk`) is `projectTraceFlow` page after page: `OpenFlow` or `NextPage` with the query for
the summary's stamp, `ReadNodes`, `ReadEdges`, `RejectCursor`. The stamp is the time of the newest raw
event, as in the code. `torn`, `walk.settled`, `walk.moved` and `walk.steady` (nothing
was half saved when the first page was asked for, and no save changed anything until it was returned) are
history variables.

`FlowProjection` is `project` as operators: `Scan` is the loop over the rows of the page, a recursive
function of which `Place` is one turn, `Target` what a node becomes, `Put` and `FinalizeHiddenRun` the
placeholders, `Aggregated` the edges after snapping, `Metadata` the counts that go with the page.
`ProjectionConserves` is about the page the walk holds and the edges of the query that follows it, torn
ones included, for every view of a set (`Views`); `MCReadModel` gives the set and the attributes of the nodes.

### Auth

A request is a program counter and what it has read (`request[r]`); each action ends at an await of
`AuthServiceImpl`. Sessions are signed with the user's `auth_version`, so the sessions that exist are the
versions a user has had (`Sessions`). The cache holds a user per id for an hour (`ExpireEntry`); entries
remember, as history, when the request that stored them began. `StartSignUp` is one action because it is
one transaction (pending user, OTP, outbox event); `finishResetPassword` is not a transaction and is three.
An OTP is right or wrong and only who got the mail has the right one. The delivery of sign-up events is
`Outbox`'s matter: `SendOtp` takes an announced sign-up at any later time. There is one server process: the
cache is its own, and a reset deletes the entry of that cache only (section 4). API keys are looked up in
Postgres every time, so what can be said of them is little: each is of an account, also when it is revoked.

### NodeTracer, JavaTracer, EventSink

`tracer` holds the fields of the Node SDK's `Tracer`: the five arrays of the buffer are one sequence, since
each of them keeps its order. JavaScript runs to the next await, so the synchronous part of a drain belongs
to whoever calls it: `Flush` and `Turn` are functions of the tracer's fields, used by `AddToBuffer` (twice,
as in the code: before adding, for the hard cap, and after), `TimerFlush`, `Shutdown` and `BeforeExit`, and
by `Loop` after a request is settled. `unhandled` tells whether a promise of the running drain is one nobody
awaits: with `ignoreFailures = false` its rejection ends the process.

In the Java SDK threads really interleave. `Record` is `addToBuffer` under the lock; `Take` empties the
buffer under the lock; `Check`, `Submit` and `Rejected` are outside of it, so another thread or the shutdown
may come in between. `worker` is the single thread of the executor. `Shutdown(c)` is an action per step of
`shutdown()`; `ShutdownNow` is its five-second timeout.

Both map to `EventSink`: recorded, settled (answered, or dropped with the report of `onDrop`), lost without
a word - which an open sink never does. Node's sink is closed by the crash of the process, Java's by the
shutdown of the executor.

### JavaContext

`ctx[t]` is a thread's context: the active span, the last child of each span (`last`), the parents a join
left (`pending`). `Point` and `BeginTrace` are `startNode` without and with activation, `Submit` and
`Fork` the captures of `wrap()` and `parallel()`, `RunTask` and `EndTask` a wrapped task or a branch of a
scope, `Join` the join of a scope. Nothing but the scope's own branches restricts them, as in the code: a
context may be captured, and a branch may end, while the parents of a join still wait for their node, and
any thread may join, in any span, as often as it likes, once the branches have completed ("Call after all
parallel tasks complete", `Tracer.java:627`).

Three fields are history, kept by what the program does and not by the SDK. `before`: the nodes the thread's
work goes on from. `lost`: a branch ended with, or a join overwrote, parents that an inner join had left, and
they stand behind no other link. `stray`: a join was called where no span of the scope's trace is active. A node
takes the history of its context along, and the context starts anew; so an exception of `LinksToLast` is
good for one node of each context that has it. Left out are a `span.end()` that throws in the `finally` block of `trace()`, so that
`setActive(parent)` is skipped (`Tracer.java:279-280`), and the adapters for Spring (section 6).

## 3. Runs

| Run | Question | Bounds | Result |
| --- | --- | --- | --- |
| `outbox` | exclusive claims, one copy without failures; refines `AtLeastOnce` with its liveness | 2 rows, 2 relays, batch 1, expiry 1, clock to 3, 2 failures | pass |
| `relay_lifecycle` | stop leaves nothing running, the backoff keeps to its cap, a signalled process exits | 2 signals, failures counted to 7 (the cap is reached at 6), default interval and cap | pass |
| `ingestion_broker` | on Kafka: what will not be delivered again is written, announced and shown; every published batch is shown in the end | 2 batches of one user, one of them with two traces and two tables, deliveries of up to 2, 1 request per batch, 1 failure and a producer that may fail to connect | pass |
| `ingestion_process` | in process: an answered request can be read, every request ends | 2 batches of two users sharing a trace id, one with a second trace, 2 requests at once, 2 tries, 1 failure | pass |
| `materialization` | nothing is skipped, at rest everything is shown and counted; refines `ReadView` with its liveness | 2 nodes, 1 edge, 3 traces, lookback 2, lateness 1, drift 1, 2 triggers waiting, 1 failure or redelivery | pass |
| `read_model` | is every flow order sound, do corrected starts depend on the trace alone and does no node get shorter, does a walk over an unchanged trace return everything once, does a projection account for its page | 3 traces of 3 nodes and up to 3 edges, lookback 2, pages of 2 and 3, 1 failure or redelivery; 16 views per page (any groups collapsed, or one layer with or without a group) | pass |
| `auth` | do accounts have owners, do resets stand, what can an old session pass, and for how long | 1 email, 2 requests at once, 3 tokens, versions to 3, 1 API key, 1 failure | pass |
| `node_tracer` | nothing lost, doubled or overtaken; shutdown waits; a full buffer drains; refines `EventSink` with its liveness | 2 spans of up to 4 events, batch 2, cap 3, 2 tries, 2 calls of shutdown, both settings of `ignoreFailures` | pass |
| `java_tracer` | every event in one place; shutdown waits and ends; refines `EventSink` with its liveness | 2 threads of 2 events, batch 2, cap 3, 2 attempts, 1 call of shutdown | pass |
| `java_context` | is every node linked from where its work went on from, does a pooled thread keep anything | 2 threads, 5 nodes and traces counted together, 2 captures, 2 runs of captured work, 3 calls and tasks deep | pass |
| `flow_cursor` | is a cursor rejected once the trace was re-materialized? | as `read_model`, pages of 1, no failure | violated |
| `skew_duration` | does the clock correction preserve durations? | the same | violated |

Why the bounds are enough for the question.

- `outbox`: two relays and a batch smaller than the number of rows give every overlap of claims; an expiry
  smaller than the bound of the clock lets a row outlive it while held; two failures reach a `markFailed`
  that fails as well.
- `ingestion_broker`: a delivery of two can hold two batches of which the second fails after the first is
  written, or come again after a crash between its effect and its mark. `ingestion_process`: two
  requests for one batch run side by side, one of them given up by the SDK, while a rebuild of one of its
  two traces fails under the other.
- `materialization`: the last event of a trace is further from the first than the lookback, so a rebuild does
  leave events behind; two nodes and an edge are what an orphan needs.
- `read_model`: in `LateCauses` two causes arrive after their effect, which the lookback no longer reaches,
  and shift it twice; in `LateNode` a node that starts first arrives last, so all flow orders move under a
  walk; `Cycle` is ordered first without and then with the edge that closes it. Three nodes are the
  smallest trace in which a page can end between two, a ghost can be interrupted by a placeholder, and a
  cycle leaves a choice. Pages of 2 split the trace, pages of 3 show it whole.
- `auth`: two requests are what a race over the cache needs; with three tokens and versions to 3 two
  resets of one user, or a sign-up and a reset, meet.
- `node_tracer`: with a batch of two and a cap of three the events of a start pass both tests of
  `addToBuffer` at once when a drain in flight has left some waiting; two callers of shutdown join one drain.
- `java_tracer`: two threads, the scheduler and the shutdown may all be between lock and submit at once.
- `java_context`: two captures nest, or run side by side, and four nodes of one trace suffice for a fork, one
  node in each branch and the node after the join. Two scopes with a branch each are enough for a branch that
  ends right after an inner join, for two joins back to back, and for a join in another trace: each of
  them leads the run to a node that `LinksToLast` excepts.

The theorems of section 5 hold without these bounds.

Fairness. `Outbox`: the relay's timer chain schedules the next poll after each one, and an awaited call
settles, so each relay's `Poll` is weakly fair, and time passes; nothing is assumed of callers or
failures. `RelayLifecycle`: timers fire and awaited calls settle. `Materialization`: the consumer
publishes after its writes (or its batch comes again) and a rebuild whose calls succeed ends; a trigger
whose handler failed is delivered again, which is what leaving it unmarked is for
(`KafkaEventBus.ts:157-159`). On the in-process bus the redelivery is the SDK's retry of the request,
which gives up after a few attempts: then the event is shown by the next rebuild of the trace, not
before. `Ingestion`: a delivery and a rebuild in progress continue while the process is up, and the broker
goes on delivering; the SDK need not send, and nothing has to fail or to recover except by these steps.
`Auth`: a request in progress goes on, and an hour passes; nobody has to sign up, reset or log in.
`NodeTracer`: the interval fires while it is set, the event loop reaches its end, a request is answered or
fails. `JavaTracer`: threads run, the interval fires, requests end; no thread has to record or to shut
down, and no timeout of the shutdown has to strike. `ReadModel` and `JavaContext` state no liveness: that a
rebuild ends is `Materialization`'s matter, and a program need not end its spans.

`CHECK_DEADLOCK FALSE` stands where the system comes to rest: an exited process, a trace all of whose
events have arrived and which nobody reads on, a pipeline all of whose batches are acknowledged or given up
and handled, an application that has recorded all it will.

## 4. Findings and known limits

Two runs show the code to disagree with its documentation:

1. `flow_cursor`: `projectTraceFlow` compares a cursor's `materializedAt` with the time of the newest raw
   event (`LogServiceImpl.ts:173`, `LogReadRepoClickHouse.ts:666`), not with that of a rebuild. A
   batch has been ingested, a client reads the first page of the older, settled rows, the rebuild then saves a
   flow order in which the new node comes first, and the next page is accepted at the old offset, where the
   node given before now stands: it is given again, and the new one never. The docs promise a rejection
   (`2.3.graph_projection.md:111`). The run demands that nobody was saving while the first page was read
   (`walk.steady`) nor is when the cursor comes (`~torn`): the rewrite is between the two pages.
2. `skew_duration`: `correctClockSkew` resets the start to the original but shifts the end it finds
   (`TraceReadModelMaterializer.ts:270`), which an earlier rebuild may have shifted before. A node whose events
   are older than the lookback grows by the skew with every rebuild; the comment at `:267` says that the
   duration is preserved. The starts are right all the same, and a node only ever gets longer
   (`CorrectionIsSound`).

Limits that the models show or take as given. The first four are at odds with a sentence of the repository,
which is quoted; no run is spent on them, because they need nothing but the step named here.

- `OutboxRelay.ts:46` says of `stop()` that its promise "resolves once any in-flight poll finishes". A second
  `stop()` returns while the first still waits: the process may exit inside the poll. What it leaves claimed
  is recovered later.
- `src/sdks/java/README.md:68` says of `shutdown()` "Ensure all buffered spans are exported before application
  exit", the comment at `Tracer.java:823` "flush any remaining events". A flush that meets the stopped executor
  drops its batch without `onDrop` (`Tracer.java:745`), which a second call of `shutdown()`, as by the hook
  that the constructor registers (`Tracer.java:255`), can cause as well; and a wait that times out gives up
  what is queued. With one call, whose waits do not time out, all that was buffered or queued is settled.
- `docs/7.node_js_sdk/7.3` says that spans are dropped, and `onDrop` called, "due to full buffers". The Node SDK
  drops nothing that waits: at the cap it starts a drain and adds the event all the same, so the buffer grows
  while requests hang. `FullBufferDrains` says that a buffer that reached the batch size is being drained, and bounds no size.
- The comment of `join()` says "Joins completed branch tails into the next node created on this thread"
  (`Tracer.java:626`). A branch that ends right after an inner join gives its scope the tail of the span it was
  forked in (`:616`), not what the inner join left, and two joins back to back leave the parents of the
  second only (`:630`): the nodes so dropped are linked from nowhere. `LinksToLast` excepts exactly these
  (`lost`), and says that no other link is missing and none is wrong. A join outside the scope's trace links
  the next node across traces, and outside any span it leaves parents on the thread for the next request
  (`stray`).
- `recoverStuck` measures the age of the row, not of the claim. After a backlog longer than
  `OUTBOX_LOCK_EXPIRY_MS` every claim can be undone by the next poll of another relay and the row is
  published twice; `SharedClaimIsOld` and `OneCopyWhileYoung` say "young" for that reason. Delivery is
  still at least once.
- A row whose publish always fails is claimed again ahead of every newer one (`PgOutboxStore.ts:41`) and is
  never given up: enough of them fill every batch. The model's failures are finite.
- Rebuilds of one trace are serialised per process only. `Materialization` is checked with one worker, as the
  partitioning by trace id intends; with two, a slower one may write older rows over newer ones.
- `ReadOptimisedAggregator.run` keeps one trigger per trace id, not per user and trace id
  (`ReadOptimisedAggregator.ts:70`). Two users with one trace id in one Kafka delivery: both triggers are marked
  and one trace is rebuilt. On the in-process bus a delivery is of one user and this does not occur
  (`ingestion_process`).
- A producer whose first `connect()` failed is kept (`KafkaEventBus.ts:50`): later publishes fail until the
  process restarts. `PublishedIsShown` excepts it.
- A cached user survives a reset for up to an hour if a request that had read the old row stores it after the
  reset's delete (`OldSessionNeedsRace`: this is the only way; `OldSessionsDie`: it ends).
- The cache of users is per process, and a reset deletes the entry of its own. `Auth` is one process; with a
  second one an entry of the other outlives every reset for up to an hour, without any race.
- On a page that mixes the rows of two saves two ghosts can get one id, because an id is made of flow orders
  (`LogFlowProjector.ts:73`); `NodesAccounted` asks for distinct names only where the orders are distinct.

## 5. Proofs

Eight modules hold theorems; they hold for every value of the constants under the named assumptions of the
component modules (bounds are naturals, batches are positive and finite, sets of threads and edges are
finite). Every
invariant was checked with TLC before it was proved. None of the properties is inductive by itself; what
each proof adds is the argument. The extra hypotheses are named where they stand: one worker
(`MaterializationProofs`), one owner of a trace id (`IngestionProofs`), somebody who may call `shutdown()`,
or one caller of it (`JavaTracerProofs`).

`OutboxProofs` (types, `SentRowsWerePublished`, `SharedClaimIsOld`, `OneCopyWhileYoung`, the safety part of
`AtLeastOnce`). `IInv` adds that a relay holds rows only during a poll and they are rows of the table
(`HoldInv`); that while a row is young, a claim that is not committed holds it `'pending'` under its lock and
a committed one holds it `'processing'` or `'sent'` (`ClaimInv`), which is why no other claim can select it;
and that while nothing has failed, a young row that is pending or about to be published has no copy yet
(`CopyInv`). The refinement maps saving to `Accept`, a publish to `Deliver`, every change of status to
`Settle`, and the rest to stuttering.

About `RelayLifecycle` the same module proves its types and `StopQuiesces`. Only an active relay has a
timer, and a poll that outlives its relay has somebody waiting for it: the first `stop()` of a poll registers
itself, and only the end of the poll takes it out. (A later `stop()` finds an inactive relay and registers
nothing, which is the limit of section 4.) The delay stays between the smaller and the larger of the
configured interval and cap (`AllowedDelays`): with a cap below the interval the first failure makes the
relay poll faster, which is what `scheduleNext` does.

`IngestionProofs` (types, `HandledIsStored`, `HandledIsShown`, `AckedIsShown`). It assumes that the broker's consumer of a
group is one loop (`LaneAssumption`) and that a batch is not empty (`BatchAssumption`,
`LogServiceImpl.ts:97-99`). The types need more than themselves, because the actions take the first element
of lists: `Shape` adds that a delivery has what its next step takes (`JobsInv`), that in process the rebuild
delivery of a request exists only while its ingest handler awaits it (`Nested`), and that whoever stands in
a queue of rebuilds waits for that rebuild, once (`Queued`). `StoredInv` then says how far a delivery is: the
tables of the batch at hand are written up to `written`, the batches before it are done, all are done when
the first is marked (`Progress`), and every message between the committed offset and the end of the delivery
is still to be checked, was found fresh, or is done (`Covered`) - so that committing the whole run is sound
although some of its messages were dropped as already marked.

`ShownInv` does the same for the rebuilds. The rows of a trigger are stored before it is delivered; while its
delivery waits, its rebuild is pending or it is shown, and all are shown when the first is marked (`Awaits`).
That a delivery queues a rebuild after it has the trigger, and a rebuild reads after it was queued, gives
`ReadInv`: a running rebuild that somebody waits for has read all the rows it is awaited for. A rebuild whose
delivery has failed goes on with nobody waiting, so its end can mark nothing; that is why a failure has to take
the lane out of every queue. In process the delivery is nested (`Inside`), so the batch is shown when its
handler goes on, and a request waits for a delivery that still holds its batch, or the batch is shown
(`RequestInv`) - it may have been dropped as marked by another request for it. `Enqueue` queues one rebuild per
trace id of a delivery and waits by trace id and user; that these are the same is `OneOwner`: on the broker it
is assumed that no two users share a trace id, for else the property is false (section 4), in process the
triggers of a delivery are of one batch and it need not be.

`MaterializationProofs`. For any number of workers: the types (`BaseInv`: every running rebuild has a trigger
of its own) and that no row is without its start and no edge without its nodes (`RowsInv`: neither in what a
rebuild folded, and `SaveRow` saves nodes before edges). For one worker: `NothingSkipped`,
`CaughtUp` and the safety part of `ReadView`. `OneInv` follows an event that can be folded and is not shown
through a rebuild: once the query of its table is behind it, it is in the batch with all it waits for, or it
came in after the query and then, by `Lateness` and `Drift`, within reach of the next rebuild (`BatchInv`) -
the queries of nodes and edges are of different moments, so an edge may have been loaded whose node was
missed, and the node query's `mark` bounds how late that node was; when rows are saved one by one, it is in
one still to be saved or within that reach, and then somebody has a trigger or an announcement left
(`SaveInv`); the rows were not changed since they were loaded (`LoadedInv`), which is where a second worker
would break in, its older rows replacing newer ones. A rebuild that found nothing new may return early only
if the counts are right (`CountInv`): a rebuild that died between rows and checkpoint leaves raw events
behind the old checkpoint.

`ReadModelProofs`. About `FlowOrder`: `OrdersAreSound`, for any finite graph and any start times - every node
is numbered once, causes come first and else the earliest start, except across cycles, and a cycle is counted
only if the graph has one. `FlowInv` adds that an edge blocks its target as long as its source has no number
(`BlockingCounts`); that without a cycle the nodes nothing blocks are exactly those that have a number or are
queued (`QueueIsFree`; with the types these two are the theorem `QueueHoldsTheFree`), so an empty queue leaves
a set of nodes each of which has a cause in the set - a cycle; and that whatever is queued starts after the node last taken or is its effect (`QueueFollows`). About `ReadModel`:
the types; that rebuilds call it only with what it may be called with (`CallInv`), so that every order they
save is sound (`RebuildsOrderSoundly`); and `CorrectionIsCausal`: the loop corrects a prefix of a sound order,
so a node's parents are in `Corrected` before it and are not touched after it, and each corrected node has the
start its raw times define (`CorrectInv`), whatever value an earlier rebuild saved - the reset to the raw
start is what the invariant needs. `CorrectionsAreSound` adds what remains of the promise that durations are
preserved, which `skew_duration` refutes: for any trace (cycles included), skew, lookback and number of
rebuilds no node is saved, and no version of a row is read, shorter than it was, so none ends before it starts
(`NothingShrinks`, `RowsGoForward`). `DurationInv` says why: a fold takes the raw end or that of a row, and a
correction moves an end later only, so no end is before the raw one (a node new to the read model comes with
its end, `StartsWithEnds`); and the start is reset to the raw one in the turn that shifts both. It takes a
client not to report an end before the start (`ReadModelAssumption`).

`SteadyWalksTile` (the same module) is about rebuilds and readers together: `SteadyWalkTiles` for any number
of nodes, edges, pages and rebuilds. `RowsInv`: unless a save is half done, the last versions of the rows are
numbered without gap or repetition (`Numbered`); a save that runs has given its prefix of the order the new
numbers, and it leaves no row out, because a rebuild folds every row there is, and a node it sees for the
first time comes with its end and so with a version of its own - which needs the checkpoint to be a time
(`CheckpointInv`: what it reaches is the greatest of finitely many). `WalkInv`: while nothing moved under the
walk each row has one version, so a query sees that numbering; what the walk was given is its beginning, the
page it holds is what comes next, and an edge was shown, or omitted 0, 1 or 2 times, as none, one or both
of its ends were given. A window sorted by flow order is the end of the numbering (`WindowIsEnd`): an
increasing numbering by all of an interval is the identity, by its first exception (`IncreasingIsIdentity`).

`ProjectionsConserve` (the same module) is `ProjectionConserves` for any view, any graph and any attributes of
its nodes, of which it uses only that a node's `Target` is a layer, a group or the node itself. `PageInv`: a
page gives each node once, also when the rows are half saved and two share a flow order, because a query
sorts by flow order and id, and any finite set can be sorted so (`CanBeSorted`, by the least set that cannot).
`ScanStep` proves that the recursive function of the loop is defined. `ScanInv` is the loop's invariant: the
rows before the open run are placed (`PlacedInv`), those in it are hidden, and the row before it is not, or
there is none - so a run that is closed is as long as it can be, which is what a row that joins a collapsed
placeholder without closing the run would break. In `PlacedInv`: every row is in one placeholder
(`EachOnce`), a visible node is alone in its own and only ghosts may share a name (`Named`), a ghost is named
by its first row (`GhostsNamed`), and two hidden rows are together exactly if no visible row is between them
(`Runs`). What the edges and counts must add up to follows from it by counting four disjoint sets each
(`FourParts`).

`AuthProofs` (types, `AccountsAreVerified`, `ReturnedResetStands`, `OldSessionNeedsRace`). `VerifiedInv`: a
request that will insert an account has seen a mailed OTP, and reset tokens exist only for accounts; accounts
stay, and so does what an API key was made for (`KeysInv`).
`ResetInv`: a reset that has written its version leaves no older token once it has deleted the tokens, also
when other resets of the user are between their steps - a token made after the first write carries that
version. `CacheInv`: an entry was stored after the last reset that returned, for that reset deleted what was
there before.

`NodeTracerProofs` (types, `Conserved`, `FullBufferDrains`, `ShutdownSettles`, the safety part of
`EventSink`). `DrainInv`: a batch is in flight exactly while `isFlushing` is set, and settled, batch and
buffer in this order are what was recorded; each function of the tracer's fields has a lemma that it keeps
that line. `Owed`: what a waiting `shutdown()` has not seen settled is in the batch, or in the buffer with
`flushAgain` set - the joined drain has to make one more turn. `SinkInv` turns the line into the sets of
`EventSink`.

`JavaTracerProofs` (types, `HeldOnce`, `ShutdownSettles`, the safety part of `EventSink`). `Apart`: buffer, the batches taken by
threads, the batches queued - pairwise - the worker's batch, settled and lost share no event and together are
what was recorded. Every step moves a whole batch from one place to another. The refinement needs that a
caller past the stop of the executor finds it stopped (`StopInv`), and that somebody may call `shutdown()`
(`Caller /= {}`): a JVM without the hook could halt with an open sink. `DueInv` follows what a `shutdown()` is
there to save from its batch to the executor and on to settled; with one caller nobody else can have stopped
the executor, so the batch is not refused, and with a second one it may be (section 4).

`JavaContextProofs` (types, `LinksToLast`, `NoLeak`, for any threads and nesting, and any order of joins and
branch ends). `ContextGood`: a context in force, kept by a frame or captured goes on from the parents a join
left, else from the tail of its active span, unless parents were lost; all of them are of its trace, unless a
join was stray; last children are younger than their parents, and a context without an active span holds at
most the parents of a stray join. `TaskGood`: the tails of a scope are where its branches ended, unless one of
them dropped parents - a branch ends at the tail of the span it was forked in, which by then
is active again (`Nested`). That makes each link right when it is made; but a `trace()` call goes back to a context
it changed on the way, so the stack is needed too. `Nested`: between two tasks the spans of the calls a thread
is in get younger inwards, each one's last child is the next, and the first finds no active span or is in a
task whose fork had one. Hence on the way out of a call the tail of the outer span is the tail of the inner
one, and a stack that is empty leaves a context without a span. The operators are functions of contexts, stacks and
tasks, because all three hold contexts of the same kind. `getTail`'s loop is a recursive function in the model
(`TailOf`); `TailStep` proves that it is well-founded - its equation has a solution, by induction over how
many of the youngest nodes it is right for.

Only model-checked: all liveness (fairness and `ENABLED` are beyond the prover), and with it the liveness parts
of the three refinements. Every safety property a passing run checks is proved, under the hypotheses named above.

## 6. Not modelled

- Trace deletion: eight asynchronous mutations handed to ClickHouse. What a concurrent rebuild or query sees
  is decided inside the database; a model would be of ClickHouse, not of the code.
- `listTraces` and `getTraceSummary` only read; validation rejects a request before anything changes; the
  previous cursor and the caps of 1000 nodes and 5000 edges of a page are left out of `ReadModel`.
- Trace names, labels and diagnostics: they reach no other state.
- Self-tracing: a request's spans are pushed to arrays of that request and published once, as an ordinary
  batch of `Ingestion`. Which node an event of the Node SDK is linked from is decided by `AsyncLocalStorage`.
- Spring adapters: the filter, the aspect and the interceptor of outgoing calls start a span with
  `startNode`, with explicit ids where headers carry some, and set the active span themselves, before and
  after the call; the task decorator (`TracingTaskDecorator.java:13-24`) carries only the active span to the
  other thread, not its children and pending parents. `JavaContext` has `trace()` and `wrap()`, explicit
  ids in neither, and says nothing of the links the adapters make.
- Notification service (prints), database bootstrap (schema statements), the web frontend (rendering) and the
  Spring Boot backend (a skeleton without logic).

## 7. Plan

Done, in this order: outbox and relay; materialization; the composition of the ingestion pipeline; flow
order, clocks, paging and projection of the read model; the auth service; both SDKs; proofs along the way.

Left, in order of worth:

1. `Materialization` for two workers, should the code come to guard against them; a permanently failing
   payload at the head of the outbox.
2. A node's start and end in different batches in `ReadModel`, and traces of four nodes, when the state
   space allows.
