------------------------------ MODULE Ingestion ------------------------------
(***************************************************************************)
(* The way of a telemetry batch from the SDK's request to the read model:  *)
(* the request publishes it on the topic "received"; LogIngestConsumer     *)
(* writes its raw rows, table by table, and publishes one trigger per      *)
(* trace on the topic "ingested"; ReadOptimisedAggregator rebuilds the     *)
(* trace of each trigger.  Both buses wrap a consumer's handler the same   *)
(* way: drop what the consumer has a mark for, run the handler, mark.      *)
(*                                                                         *)
(* Durable tells the buses apart.  KafkaEventBus (TRUE) appends an event   *)
(* to a log, answers, and delivers the log in runs from the consumer's     *)
(* committed offset.  DevEventBus (FALSE) calls the handlers inside        *)
(* publish: the request waits for the writes, and they for the rebuilds.   *)
(*                                                                         *)
(* A rebuild is what ReadView promises of it: when it ends, the rows that  *)
(* were stored when it began are shown.  The marks live in the memory of   *)
(* the one server process.                                                 *)
(***************************************************************************)
EXTENDS Integers, Sequences, Functions

CONSTANTS
  Batch,        \* batches an SDK sends; a batch is its own idempotency id
  Owner,        \* the user of each batch
  TraceId,
  Traces,       \* the trace ids of each batch, in the order of getTraceIds
  Tables,       \* the raw tables each batch has rows for, in the order of the inserts
  Durable,      \* TRUE: KafkaEventBus, FALSE: DevEventBus
  Lane,         \* requests handled at once (DevEventBus), or the one consumer loop
  Nobody,       \* no lane
  MaxPoll,      \* bound: messages of one delivery
  ConnectMayFail, \* whether the producer's connect() may fail
  MaxTries,     \* requests an SDK makes for a batch (maxRetries)
  MaxFaults     \* bound: failures, crashes and expired marks

Table == {"trace", "node", "edge"}

ASSUME LaneAssumption == Nobody \notin Lane /\ (Durable => \E l \in Lane : Lane = {l})
\* A request without events is not published, so a batch has a trace.
ASSUME BatchAssumption ==
  Traces \in [Batch -> Seq(TraceId) \ {<<>>}] /\ Tables \in [Batch -> Seq(Table)]
ASSUME BoundAssumption == MaxPoll \in Nat \ {0} /\ MaxTries \in Nat \ {0} /\ MaxFaults \in Nat
ASSUME SwitchAssumption == Durable \in BOOLEAN /\ ConnectMayFail \in BOOLEAN

\* The two consumers, each the only one of its topic; they give the topics their names.
Consumer == {"ingest", "rebuild"}

Trigger == {e \in Batch \X TraceId : e[2] \in Range(Traces[e[1]])}
EventOf(c) == IF c = "ingest" THEN Batch ELSE Trigger

\* What a rebuild is of: a trace of a user.
KeyOf(e) == <<Owner[e[1]], e[2]>>
TraceKey == {KeyOf(e) : e \in Trigger}

\* What a batch has in the raw tables for a trace of its.
RowsOf(e) == {<<e[1], e[2], t>> : t \in Range(Tables[e[1]])}
Row == UNION {RowsOf(e) : e \in Trigger}

VARIABLES
  sdk,          \* of each batch: state of its request, the lane it waits on, requests made
  log,          \* topic -> the messages of the broker
  committed,    \* consumer -> its offset
  job,          \* lane, consumer -> the delivery being handled
  marks,        \* <<consumer, event>> marked as processed
  stored,       \* batch, table -> times its rows were inserted
  rebuilds,     \* trace -> rebuilds queued for it, and what the running one has read
  shown,        \* rows the read model shows
  producer,     \* the producer of KafkaEventBus: "none", "ready", or "broken" (connect() failed)
  faults

vars == <<sdk, log, committed, job, marks, stored, rebuilds, shown, producer, faults>>

\* pc of a delivery: "check" (of marks), "handle", "await" (rebuilds, or the nested delivery),
\* "mark", "end".
Idle == [pc |-> "idle", events |-> <<>>, fresh |-> <<>>, todo |-> <<>>, written |-> 0,
         pending |-> {}, size |-> 0]
Delivery(events) == [Idle EXCEPT !.pc = "check", !.events = events, !.size = Len(events)]

\* The delivery of l to c becomes j; both of l's deliveries become what is given.
Put(l, c, j) == job' = [job EXCEPT ![l][c] = j]
PutBoth(l, i, r) == job' = [job EXCEPT ![l] = [c \in Consumer |-> IF c = "ingest" THEN i ELSE r]]

NoRebuild == [queue |-> <<>>, running |-> FALSE, read |-> {}]

Init ==
  /\ sdk = [b \in Batch |-> [state |-> "new", via |-> Nobody, tries |-> 0]]
  /\ log = [c \in Consumer |-> <<>>]
  /\ committed = [c \in Consumer |-> 0]
  /\ job = [l \in Lane |-> [c \in Consumer |-> Idle]]
  /\ marks = {}
  /\ stored = [b \in Batch |-> [t \in Table |-> 0]]
  /\ rebuilds = [k \in TraceKey |-> NoRebuild]
  /\ shown = {}
  /\ producer = "none"
  /\ faults = 0

CopyCap == MaxFaults + 2   \* bound: one copy more than the faults explain, and no more

Fault == faults < MaxFaults /\ faults' = faults + 1

-----------------------------------------------------------------------------
(* Requests *)

\* Mutant: one request more than maxRetries.
CanPost_OneMore(b) == sdk[b].state \in {"new", "failed"} /\ sdk[b].tries <= MaxTries

\* ingestWithRetry: the batch is sent again until a request succeeds or the tries are spent.
CanPost(b) == sdk[b].state \in {"new", "failed"} /\ sdk[b].tries < MaxTries

\* DevEventBus.publish calls the handler of the topic before it returns.
PostInProcess(b, l) ==
  /\ ~Durable
  /\ CanPost(b)
  /\ job[l]["ingest"].pc = "idle"
  /\ Put(l, "ingest", Delivery(<<b>>))
  /\ sdk' = [sdk EXCEPT ![b] = [state |-> "waiting", via |-> l, tries |-> @.tries + 1]]
  /\ UNCHANGED <<log, committed, marks, stored, rebuilds, shown, producer, faults>>

\* The first publish creates the producer and connects it.  The field is set before connect()
\* has succeeded: if it fails, every later send finds a producer that is not connected.
Connected == producer /= "broken" /\ producer' = "ready"
Refused == (producer = "broken" \/ (producer = "none" /\ ConnectMayFail)) /\ producer' = "broken"

\* KafkaEventBus.publish returns when the broker has the message; the send or the reply to the
\* SDK may be lost.
PostToBroker(b) ==
  /\ Durable
  /\ CanPost(b)
  /\ \E appended, replied \in BOOLEAN :
       /\ replied => appended
       /\ Connected \/ (~appended /\ Refused)
       /\ log' = IF appended THEN [log EXCEPT !["ingest"] = Append(@, b)] ELSE log
       /\ sdk' = [sdk EXCEPT ![b] = [state |-> IF replied THEN "acked" ELSE "failed",
                                     via |-> Nobody, tries |-> @.tries + 1]]
  /\ UNCHANGED <<committed, job, marks, stored, rebuilds, shown, faults>>

\* The connection breaks: the SDK's fetch fails while the server goes on.
LoseRequest(b) ==
  /\ sdk[b].state = "waiting"
  /\ sdk' = [sdk EXCEPT ![b].state = "failed", ![b].via = Nobody]
  /\ UNCHANGED <<log, committed, job, marks, stored, rebuilds, shown, producer, faults>>

\* What the SDK learns when the delivery its request waits for ends.
Reply(l, state) ==
  [b \in Batch |-> IF sdk[b].via = l THEN [sdk[b] EXCEPT !.state = state, !.via = Nobody]
                   ELSE sdk[b]]

-----------------------------------------------------------------------------
(* The wrapped handler *)

\* The broker delivers a run of messages from the committed offset.
Deliver(l, c) ==
  /\ Durable
  /\ job[l][c].pc = "idle"
  /\ \E n \in 1 .. MaxPoll :
       /\ committed[c] + n <= Len(log[c])
       /\ Put(l, c, Delivery(SubSeq(log[c], committed[c] + 1, committed[c] + n)))
  /\ UNCHANGED <<sdk, log, committed, marks, stored, rebuilds, shown, producer, faults>>

\* What the delivery repeats is dropped, and what the consumer has a mark for (isProcessed).
Filtered(c, fresh, e) ==
  IF e \in Range(fresh) \/ <<c, e>> \in marks THEN fresh ELSE Append(fresh, e)

\* The check awaits isProcessed event by event.
Check(l, c) ==
  LET j == job[l][c]
      fresh == Filtered(c, j.fresh, Head(j.events))
  IN /\ j.pc = "check"
     /\ Put(l, c, [j EXCEPT !.events = Tail(j.events), !.fresh = fresh, !.todo = fresh,
                            !.pc = IF Len(j.events) > 1 THEN "check"
                                   ELSE IF fresh = <<>> THEN "end" ELSE "handle"])
     /\ UNCHANGED <<sdk, log, committed, marks, stored, rebuilds, shown, producer, faults>>

\* markProcessed, event by event, after the handler has returned.
Mark(l, c) ==
  LET j == job[l][c]
  IN /\ j.pc = "mark"
     /\ marks' = marks \union {<<c, Head(j.fresh)>>}
     /\ Put(l, c, [j EXCEPT !.fresh = Tail(j.fresh),
                            !.pc = IF Len(j.fresh) > 1 THEN "mark" ELSE "end"])
     /\ UNCHANGED <<sdk, log, committed, stored, rebuilds, shown, producer, faults>>

\* The ingest handler after it has published the triggers of a batch: on to the next one.
Published(j) ==
  [j EXCEPT !.todo = Tail(@), !.written = 0,
            !.pc = IF Len(j.todo) > 1 THEN "handle" ELSE "mark"]

\* A delivery is done.  The broker's consumer commits the offset; in the process the caller of
\* publish goes on, and that is the request or the ingest handler.
End(l, c) ==
  /\ job[l][c].pc = "end"
  /\ IF Durable
     THEN /\ committed' = [committed EXCEPT ![c] = @ + job[l][c].size]
          /\ Put(l, c, Idle)
          /\ UNCHANGED sdk
     ELSE /\ UNCHANGED committed
          /\ IF c = "ingest"
             THEN /\ Put(l, c, Idle)
                  /\ sdk' = Reply(l, "acked")
             ELSE /\ PutBoth(l, Published(job[l]["ingest"]), Idle)
                  /\ UNCHANGED sdk
  /\ UNCHANGED <<log, marks, stored, rebuilds, shown, producer, faults>>

\* Mutant: the handler logs the error and returns.
Throw_Caught(l, c) ==
  /\ Put(l, c, [job[l][c] EXCEPT !.pc = "mark"])
  /\ UNCHANGED <<sdk, committed>>

\* The handler of c throws: nothing is marked.  The broker delivers the same messages again; in
\* the process the error travels up to the request.
Throw(l, c) ==
  IF Durable
  THEN /\ Put(l, c, Idle)
       /\ UNCHANGED <<sdk, committed>>
  ELSE /\ PutBoth(l, Idle, Idle)
       /\ sdk' = Reply(l, "failed")
       /\ UNCHANGED committed

-----------------------------------------------------------------------------
(* LogIngestConsumer *)

Writing(l, b) ==
  /\ job[l]["ingest"].pc = "handle"
  /\ b = Head(job[l]["ingest"].todo)

NextTable(l, b) == Tables[b][job[l]["ingest"].written + 1]

\* The insert of the next table: one more copy of its rows.
Copied(l, b) == [stored EXCEPT ![b][NextTable(l, b)] = IF @ < CopyCap THEN @ + 1 ELSE @]

Insert(l, b) ==
  /\ Writing(l, b)
  /\ job[l]["ingest"].written < Len(Tables[b])
  /\ stored' = Copied(l, b)
  /\ Put(l, "ingest", [job[l]["ingest"] EXCEPT !.written = @ + 1])
  /\ UNCHANGED <<sdk, log, committed, marks, rebuilds, shown, producer, faults>>

\* An insert fails, with or without its rows.
FailInsert(l, b) ==
  /\ Fault
  /\ Writing(l, b)
  /\ job[l]["ingest"].written < Len(Tables[b])
  /\ \/ stored' = Copied(l, b)
     \/ UNCHANGED stored
  /\ Throw(l, "ingest")
  /\ UNCHANGED <<log, marks, rebuilds, shown, producer>>

Triggers(b) == [i \in DOMAIN Traces[b] |-> <<b, Traces[b][i]>>]

\* One publish for all the traces of the batch, after all of its writes.
PublishTriggers(l, b) ==
  /\ Writing(l, b)
  /\ job[l]["ingest"].written = Len(Tables[b])
  /\ IF Durable
     THEN /\ Connected
          /\ log' = [log EXCEPT !["rebuild"] = @ \o Triggers(b)]
          /\ Put(l, "ingest", Published(job[l]["ingest"]))
     ELSE /\ UNCHANGED <<log, producer>>
          /\ PutBoth(l, [job[l]["ingest"] EXCEPT !.pc = "await"], Delivery(Triggers(b)))
  /\ UNCHANGED <<sdk, committed, marks, stored, rebuilds, shown, faults>>

\* The send to the broker fails, with or without the messages.
FailPublish(l, b) ==
  /\ Fault
  /\ Durable
  /\ Writing(l, b)
  /\ job[l]["ingest"].written = Len(Tables[b])
  /\ Connected
  /\ \/ log' = [log EXCEPT !["rebuild"] = @ \o Triggers(b)]
     \/ UNCHANGED log
  /\ Throw(l, "ingest")
  /\ UNCHANGED <<marks, stored, rebuilds, shown>>

\* There is no connected producer.
RefusePublish(l, b) ==
  /\ Durable
  /\ Writing(l, b)
  /\ job[l]["ingest"].written = Len(Tables[b])
  /\ Refused
  /\ Throw(l, "ingest")
  /\ UNCHANGED <<log, marks, stored, rebuilds, shown, faults>>

-----------------------------------------------------------------------------
(* ReadOptimisedAggregator *)

\* run: of the triggers of a delivery the last one of each trace id is kept.
LastPerTrace(events) ==
  {events[i] : i \in {i \in DOMAIN events :
                        \A j \in DOMAIN events : j > i => events[j][2] /= events[i][2]}}

\* Mutant: the rebuilds are started and not awaited.
Enqueue_NotAwaited(l) ==
  LET j == job[l]["rebuild"]
      keys == {KeyOf(e) : e \in LastPerTrace(j.fresh)}
  IN /\ j.pc = "handle"
     /\ rebuilds' = [k \in TraceKey |->
                       IF k \in keys THEN [rebuilds[k] EXCEPT !.queue = Append(@, Nobody)]
                       ELSE rebuilds[k]]
     /\ Put(l, "rebuild", [j EXCEPT !.pc = "mark"])
     /\ UNCHANGED <<sdk, log, committed, marks, stored, shown, producer, faults>>

\* Each of them queues a rebuild, and the delivery waits for all of its rebuilds.
Enqueue(l) ==
  LET j == job[l]["rebuild"]
      keys == {KeyOf(e) : e \in LastPerTrace(j.fresh)}
  IN /\ j.pc = "handle"
     /\ rebuilds' = [k \in TraceKey |->
                       IF k \in keys THEN [rebuilds[k] EXCEPT !.queue = Append(@, l)]
                       ELSE rebuilds[k]]
     /\ Put(l, "rebuild", [j EXCEPT !.pending = keys, !.pc = "await"])
     /\ UNCHANGED <<sdk, log, committed, marks, stored, shown, producer, faults>>

\* enqueueTrace: one rebuild at a time for a trace of a user.
StartRebuild(k) ==
  /\ rebuilds[k].queue /= <<>>
  /\ ~rebuilds[k].running
  /\ rebuilds' = [rebuilds EXCEPT ![k].running = TRUE,
                                  ![k].read = {r \in Row : /\ KeyOf(r) = k
                                                           /\ stored[r[1]][r[3]] > 0}]
  /\ UNCHANGED <<sdk, log, committed, job, marks, stored, shown, producer, faults>>

\* Mutant: the entry of the trace is deleted with the rebuilds that queue behind this one.
Dequeued_All(k) == NoRebuild

\* The rebuild of k is over and the next one may start.
Dequeued(k) == [queue |-> Tail(rebuilds[k].queue), running |-> FALSE, read |-> {}]

\* The lane that waits for the rebuild, unless its delivery has already failed.
Waiter(k) == Head(rebuilds[k].queue)

EndRebuild(k) ==
  /\ rebuilds[k].running
  /\ shown' = shown \union rebuilds[k].read
  /\ rebuilds' = [rebuilds EXCEPT ![k] = Dequeued(k)]
  /\ IF Waiter(k) = Nobody THEN UNCHANGED job
     ELSE LET j == job[Waiter(k)]["rebuild"]
              left == j.pending \ {k}
          IN Put(Waiter(k), "rebuild",
                 [j EXCEPT !.pending = left, !.pc = IF left = {} THEN "mark" ELSE "await"])
  /\ UNCHANGED <<sdk, log, committed, marks, stored, producer, faults>>

\* Promise.all rejects at the first failure: the delivery fails, its other rebuilds go on with
\* nobody waiting for them.
FailRebuild(k) ==
  /\ Fault
  /\ rebuilds[k].running
  /\ LET l == Waiter(k)
         Forget(q) == [i \in DOMAIN q |-> IF q[i] = l THEN Nobody ELSE q[i]]
     IN /\ rebuilds' = [m \in TraceKey |->
                          LET r == IF m = k THEN Dequeued(k) ELSE rebuilds[m]
                          IN [r EXCEPT !.queue = Forget(@)]]
        /\ IF l = Nobody THEN UNCHANGED <<sdk, committed, job>>
           ELSE Throw(l, "rebuild")
  /\ UNCHANGED <<log, marks, stored, shown, producer>>

-----------------------------------------------------------------------------
(* Faults of the process *)

\* The process dies and starts again: its deliveries, its rebuilds and the marks are gone.
Crash ==
  /\ Fault
  /\ job' = [l \in Lane |-> [c \in Consumer |-> Idle]]
  /\ rebuilds' = [k \in TraceKey |-> NoRebuild]
  /\ marks' = {}
  /\ producer' = "none"
  /\ sdk' = [b \in Batch |-> IF sdk[b].state = "waiting"
                             THEN [sdk[b] EXCEPT !.state = "failed", !.via = Nobody]
                             ELSE sdk[b]]
  /\ UNCHANGED <<log, committed, stored, shown>>

\* A mark expires, 24 hours after it was set.
Expire ==
  /\ Fault
  /\ \E m \in marks : marks' = marks \ {m}
  /\ UNCHANGED <<sdk, log, committed, job, stored, rebuilds, shown, producer>>

Request ==
  \E b \in Batch : \/ \E l \in Lane : PostInProcess(b, l)
                   \/ PostToBroker(b)
                   \/ LoseRequest(b)

Step(l) ==
  \/ \E c \in Consumer : Deliver(l, c) \/ Check(l, c) \/ Mark(l, c) \/ End(l, c)
  \/ \E b \in Batch : Insert(l, b) \/ PublishTriggers(l, b) \/ RefusePublish(l, b)
  \/ Enqueue(l)

Break ==
  \/ \E l \in Lane, b \in Batch : FailInsert(l, b) \/ FailPublish(l, b)
  \/ \E k \in TraceKey : FailRebuild(k)
  \/ Crash
  \/ Expire

Next ==
  \/ Request
  \/ \E l \in Lane : Step(l)
  \/ \E k \in TraceKey : StartRebuild(k) \/ EndRebuild(k)
  \/ Break

Spec == Init /\ [][Next]_vars

\* A delivery and a rebuild make progress while the process is up, and the broker goes on
\* delivering.  Nothing is assumed of the SDK or of the faults.
Fairness ==
  /\ \A l \in Lane, c \in Consumer :
       /\ WF_vars(Deliver(l, c))
       /\ WF_vars(Check(l, c))
       /\ WF_vars(Mark(l, c))
       /\ WF_vars(End(l, c))
  /\ \A l \in Lane, b \in Batch :
       /\ WF_vars(Insert(l, b))
       /\ WF_vars(PublishTriggers(l, b))
       /\ WF_vars(RefusePublish(l, b))
  /\ \A l \in Lane : WF_vars(Enqueue(l))
  /\ \A k \in TraceKey : WF_vars(StartRebuild(k)) /\ WF_vars(EndRebuild(k))

FairSpec == Spec /\ Fairness

-----------------------------------------------------------------------------
(* Properties *)

Job(c) ==
  [pc : {"idle", "check", "handle", "await", "mark", "end"},
   events : Seq(EventOf(c)), fresh : Seq(EventOf(c)), todo : Seq(EventOf(c)),
   written : Nat, pending : SUBSET TraceKey, size : Nat]

TypeOK ==
  /\ sdk \in [Batch -> [state : {"new", "waiting", "acked", "failed"}, via : Lane \union {Nobody},
                        tries : 0 .. MaxTries]]
  /\ log \in [Consumer -> Seq(Batch \union Trigger)]
  /\ committed \in [Consumer -> Nat]
  /\ \A c \in Consumer : log[c] \in Seq(EventOf(c))
  /\ job \in [Lane -> [Consumer -> Job("ingest") \union Job("rebuild")]]
  /\ \A l \in Lane, c \in Consumer : job[l][c] \in Job(c)
  /\ marks \subseteq Consumer \X (Batch \union Trigger)
  /\ stored \in [Batch -> [Table -> Nat]]
  /\ rebuilds \in [TraceKey -> [queue : Seq(Lane \union {Nobody}), running : BOOLEAN,
                                read : SUBSET Row]]
  /\ shown \subseteq Row
  /\ producer \in {"none", "ready", "broken"}
  /\ faults \in 0 .. MaxFaults

\* The bus will not deliver e to consumer c again for the copies it has had so far.
Handled(c, e) ==
  \/ <<c, e>> \in marks
  \/ \E i \in 1 .. committed[c] : log[c][i] = e

\* A batch that the bus will not deliver again has all of its rows in the raw tables, and on the
\* broker its triggers are published: no crash, failed insert or failed send between the tables,
\* the triggers and the marks leaves a batch half written and marked (LogIngestConsumer, the
\* marks after the handler).
HandledIsStored ==
  \A b \in Batch : Handled("ingest", b) =>
    /\ \A t \in Range(Tables[b]) : stored[b][t] > 0
    /\ Durable => Range(Triggers(b)) \subseteq Range(log["rebuild"])

\* A trigger that the bus will not deliver again has done its work: the rows of its batch are in
\* the read model of their trace (ReadOptimisedAggregator.run, coalescing and the queue of
\* rebuilds included).
HandledIsShown ==
  \A e \in Trigger : Handled("rebuild", e) => RowsOf(e) \subseteq shown

\* On the in-process bus the request answers after the rebuild: a batch whose request was
\* answered with success can be read, also when another request for it was given up and is still
\* being handled.
AckedIsShown ==
  \A b \in Batch : sdk[b].state = "acked" => \A e \in Range(Triggers(b)) : RowsOf(e) \subseteq shown

\* On the broker every batch that reached the log is shown in the end, whatever crashes - unless
\* the first connect of a process failed: its producer is then never connected again
\* (KafkaEventBus.ts:50), and the triggers wait for a restart.
PublishedIsShown ==
  \A e \in Trigger :
    (e[1] \in Range(log["ingest"])) ~> (RowsOf(e) \subseteq shown \/ producer = "broken")

\* In the process every request is answered or lost: neither the nested deliveries nor the queue
\* of rebuilds keeps one waiting for ever, after failed rebuilds too.
RequestsEnd ==
  \A b \in Batch : (sdk[b].state = "waiting") ~> (sdk[b].state /= "waiting")
=============================================================================
