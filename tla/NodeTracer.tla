----------------------------- MODULE NodeTracer -----------------------------
(***************************************************************************)
(* The Tracer of the Node SDK: spans record events in a buffer, and one    *)
(* drain at a time takes the buffer as a batch and sends it with retries.  *)
(*                                                                         *)
(* JavaScript runs one piece of code at a time, to its next await: an      *)
(* action here is the code between two awaits.  The only awaits a drain    *)
(* reaches are the request and the delay before the next one; while it     *)
(* waits the application records, timers fire and signals arrive.          *)
(* The five arrays of a batch are one sequence: each array keeps the order *)
(* of the sequence.                                                        *)
(***************************************************************************)
EXTENDS Integers, Sequences, Functions

CONSTANTS
  Span,        \* spans the application may start
  Caller,      \* who may call shutdown(): the application, SIGTERM, SIGINT
  BatchSize,   \* config.batchSize
  Cap,         \* HARD_BATCH_CAP
  MaxRetries   \* config.maxRetries: requests made for a batch

ASSUME BoundAssumption == BatchSize \in Nat \ {0} /\ Cap \in Nat /\ MaxRetries \in Nat \ {0}

Kind == {"trace", "start", "edge", "end"}
Event == Kind \X Span

VARIABLES
  ignoreFailures, \* config.ignoreFailures
  span,           \* span -> "new", "open" or "ended"
  tracer,         \* the buffer, the batch in flight and the flags of flush()
  timer,          \* whether the flush interval is set
  caller,         \* state of each call of shutdown()
  process,        \* "up", "idle" (the application has no more work), "exited" or "crashed"
  recorded,       \* history: events in the order they were recorded
  settled,        \* history: events of the batches that were answered, or dropped with a report
  due             \* history: what was held when each shutdown() was called

history == <<recorded, settled, due>>
vars == <<ignoreFailures, span, tracer, timer, caller, process,
          recorded, settled, due>>

\* attempt: the request being made.  unhandled: the drain was started or joined by a flush whose
\* promise nobody looks at.
NewTracer == [buffer |-> <<>>, batch |-> <<>>, attempt |-> 0, isFlushing |-> FALSE,
              flushAgain |-> FALSE, unhandled |-> FALSE]

Init ==
  /\ ignoreFailures \in BOOLEAN
  /\ span = [s \in Span |-> "new"]
  /\ tracer = NewTracer
  /\ timer = TRUE
  /\ caller = [c \in Caller |-> "no"]
  /\ process = "up"
  /\ recorded = <<>> /\ settled = <<>>
  /\ due = [c \in Caller |-> {}]

Held(t) == Range(t.batch) \cup Range(t.buffer)

-----------------------------------------------------------------------------
(* Buffer and drain, as what they make of the tracer's fields *)

DrainEnd(t) == [t EXCEPT !.batch = <<>>, !.attempt = 0, !.isFlushing = FALSE, !.unhandled = FALSE]

\* Mutant: the buffer is copied, not replaced by an empty one.
Turn_Copy(t) ==
  IF t.buffer = <<>> THEN DrainEnd([t EXCEPT !.flushAgain = FALSE])
  ELSE [t EXCEPT !.flushAgain = FALSE, !.batch = t.buffer, !.attempt = 1, !.isFlushing = TRUE]

\* One turn of the loop of drainBuffer, to the request or, with nothing to send, to its end.
Turn(t) ==
  IF t.buffer = <<>> THEN DrainEnd([t EXCEPT !.flushAgain = FALSE])
  ELSE [t EXCEPT !.flushAgain = FALSE, !.batch = t.buffer, !.buffer = <<>>, !.attempt = 1,
                 !.isFlushing = TRUE]

\* Mutant: a flush does not look whether one is running.
Flush_Always(t, looked) == Turn([t EXCEPT !.unhandled = @ \/ ~looked])

\* Mutant: a flush that finds one running relies on it as it is.
Flush_NoAgain(t, looked) ==
  LET u == [t EXCEPT !.unhandled = @ \/ ~looked]
  IN IF t.isFlushing THEN u ELSE Turn(u)

\* flush(): join the running drain and make it take one more turn, or start one.
\* looked: whether the caller handles the promise.
Flush(t, looked) ==
  LET u == [t EXCEPT !.unhandled = @ \/ ~looked]
  IN IF t.isFlushing THEN [u EXCEPT !.flushAgain = TRUE] ELSE Turn(u)

\* addToBuffer.  The second test uses the count from before the first flush.
AddToBuffer(t, events) ==
  LET total == Len(t.buffer) + Len(events)
      room == IF total > Cap THEN Flush(t, FALSE) ELSE t
      added == [room EXCEPT !.buffer = @ \o events]
  IN IF total >= BatchSize THEN Flush(added, FALSE) ELSE added

\* Mutant: one turn is all.
Again_Never(t) == FALSE

Again(t) == t.flushAgain \/ Len(t.buffer) >= BatchSize

\* The drain is done with its batch and goes on.
Loop(t) == IF Again(t) THEN Turn(t) ELSE DrainEnd(t)

-----------------------------------------------------------------------------
(* Spans *)

\* What a span's start records: a span without context begins a trace; one with a parent, in this
\* process or a remote one, has an edge; one with only a trace id has neither.
Shape == {<<"trace", "start">>, <<"trace", "start", "edge">>, <<"start", "edge">>, <<"start">>}

Of(s, kinds) == [i \in DOMAIN kinds |-> <<kinds[i], s>>]

Alive == process = "up"

StartNode(s, shape) ==
  /\ Alive
  /\ span[s] = "new"
  /\ span' = [span EXCEPT ![s] = "open"]
  /\ tracer' = AddToBuffer(tracer, Of(s, shape))
  /\ recorded' = recorded \o Of(s, shape)
  /\ UNCHANGED <<ignoreFailures, timer, caller, process, settled, due>>

\* Span.end(): only the first has an effect.
EndSpan(s) ==
  /\ Alive
  /\ span[s] = "open"
  /\ span' = [span EXCEPT ![s] = "ended"]
  /\ tracer' = AddToBuffer(tracer, Of(s, <<"end">>))
  /\ recorded' = recorded \o Of(s, <<"end">>)
  /\ UNCHANGED <<ignoreFailures, timer, caller, process, settled, due>>

\* log(): a span that is started and ended at once.
Log(s, shape) ==
  /\ Alive
  /\ span[s] = "new"
  /\ span' = [span EXCEPT ![s] = "ended"]
  /\ tracer' = AddToBuffer(AddToBuffer(tracer, Of(s, shape)), Of(s, <<"end">>))
  /\ recorded' = (recorded \o Of(s, shape)) \o Of(s, <<"end">>)
  /\ UNCHANGED <<ignoreFailures, timer, caller, process, settled, due>>

-----------------------------------------------------------------------------
(* Flushes *)

\* The interval's callback drops the promise of flush().
TimerFlush ==
  /\ process \in {"up", "idle"}
  /\ timer
  /\ tracer' = Flush(tracer, FALSE)
  /\ UNCHANGED <<ignoreFailures, span, timer, caller, process, recorded, settled, due>>

\* shutdown() awaits the drain it joins or starts; with nothing to send it returns at once.
Shutdown(c) ==
  /\ process \in {"up", "idle"}
  /\ caller[c] = "no"
  /\ timer' = FALSE
  /\ tracer' = Flush(tracer, TRUE)
  /\ caller' = [caller EXCEPT ![c] = IF tracer'.isFlushing THEN "waiting" ELSE "done"]
  /\ due' = [due EXCEPT ![c] = Held(tracer)]
  /\ UNCHANGED <<ignoreFailures, span, process, recorded, settled>>

\* The promise of a drain that ends settles for all that joined it.
Resume == caller' = IF tracer'.isFlushing THEN caller
                    ELSE [c \in Caller |-> IF caller[c] = "waiting" THEN "done" ELSE caller[c]]

\* The application has nothing left to do.
Finish ==
  /\ Alive
  /\ process' = "idle"
  /\ UNCHANGED <<ignoreFailures, span, tracer, timer, caller, history>>

\* The event loop is empty: Node emits beforeExit, whose handler calls shutdown(), and exits
\* unless that gave the loop something to wait for.
BeforeExit ==
  /\ process = "idle"
  /\ ~timer /\ ~tracer.isFlushing
  /\ tracer' = Flush(tracer, TRUE)
  /\ process' = IF tracer'.isFlushing THEN "idle" ELSE "exited"
  /\ UNCHANGED <<ignoreFailures, span, timer, caller, history>>

-----------------------------------------------------------------------------
(* Requests *)

Requesting == process \in {"up", "idle"} /\ tracer.batch /= <<>>

Settle == settled' = settled \o tracer.batch

\* fetch answers ok.
RequestOk ==
  /\ Requesting
  /\ Settle
  /\ tracer' = Loop(tracer)
  /\ Resume
  /\ UNCHANGED <<ignoreFailures, span, timer, process, recorded, due>>

\* Mutant: the tries are not counted.
Retry_NoLimit ==
  /\ Requesting
  /\ tracer' = [tracer EXCEPT !.attempt = @ + 1]
  /\ UNCHANGED <<ignoreFailures, span, timer, caller, process, recorded, settled, due>>

\* ingestWithRetry waits and tries again.  Whether the backend took the batch of a failed request
\* is Ingestion's matter.
Retry ==
  /\ Requesting
  /\ tracer.attempt < MaxRetries
  /\ tracer' = [tracer EXCEPT !.attempt = @ + 1]
  /\ UNCHANGED <<ignoreFailures, span, timer, caller, process, recorded, settled, due>>

\* The last try fails: the batch is dropped with a report.  With ignoreFailures = false the drain
\* ends by throwing, whatever was buffered meanwhile, and a rejection that nobody handles ends the
\* process.
GiveUp ==
  /\ Requesting
  /\ tracer.attempt = MaxRetries
  /\ Settle
  /\ tracer' = IF ignoreFailures THEN Loop(tracer) ELSE DrainEnd(tracer)
  /\ process' = IF ~ignoreFailures /\ tracer.unhandled THEN "crashed" ELSE process
  /\ Resume
  /\ UNCHANGED <<ignoreFailures, span, timer, recorded, due>>

Next ==
  \/ \E s \in Span, shape \in Shape : StartNode(s, shape) \/ Log(s, shape)
  \/ \E s \in Span : EndSpan(s)
  \/ TimerFlush
  \/ \E c \in Caller : Shutdown(c)
  \/ Finish
  \/ BeforeExit
  \/ RequestOk
  \/ Retry
  \/ GiveUp

\* The interval fires, the event loop reaches its end, requests are answered or fail.
Fairness == WF_vars(TimerFlush) /\ WF_vars(BeforeExit) /\ WF_vars(RequestOk \/ Retry \/ GiveUp)

Spec == Init /\ [][Next]_vars /\ Fairness

-----------------------------------------------------------------------------
(* Properties *)

TypeOK ==
  /\ ignoreFailures \in BOOLEAN
  /\ span \in [Span -> {"new", "open", "ended"}]
  /\ tracer \in [buffer : Seq(Event), batch : Seq(Event), attempt : 0..MaxRetries,
                 isFlushing : BOOLEAN, flushAgain : BOOLEAN, unhandled : BOOLEAN]
  /\ timer \in BOOLEAN
  /\ caller \in [Caller -> {"no", "waiting", "done"}]
  /\ process \in {"up", "idle", "exited", "crashed"}
  /\ recorded \in Seq(Event) /\ settled \in Seq(Event)
  /\ due \in [Caller -> SUBSET Event]

\* Through flushes that overlap, join and fail, every recorded event is in exactly one place, and
\* batches leave in the order of recording: the end of a span never before its start.
Conserved == recorded = settled \o (tracer.batch \o tracer.buffer)

\* shutdown() returns when what was held at its call is settled, also when it only joined a drain
\* that had taken its batch before - unless failures throw (ignoreFailures = false).
ShutdownSettles ==
  ignoreFailures => \A c \in Caller : caller[c] = "done" => due[c] \subseteq Range(settled)

\* A buffer that reached the batch size is being drained - unless failures throw.
FullBufferDrains == ignoreFailures => (Len(tracer.buffer) >= BatchSize => tracer.isFlushing)

\* As a sink, the tracer is closed by the end of the process; an event it no longer holds is lost.
Sink == INSTANCE EventSink WITH
  recorded <- Range(recorded),
  settled <- Range(settled),
  lost <- Range(recorded) \ (Range(settled) \cup IF process = "crashed" THEN {} ELSE Held(tracer)),
  closed <- process = "crashed",
  driven <- timer \/ process /= "up"

\* The tracer implements EventSink: only a rejection that nobody handles loses events, those that
\* were buffered while the failing batch was in flight; and it empties itself, at the latest before
\* the process exits, unless the application outlives the shutdown() that stopped the interval.
ImplementsSink == Sink!LiveSpec
=============================================================================
