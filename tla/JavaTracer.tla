----------------------------- MODULE JavaTracer -----------------------------
(***************************************************************************)
(* The Tracer of the Java SDK: threads record events in a buffer under a   *)
(* lock, a flush takes the buffer as a batch and submits it to an executor *)
(* of one thread, which sends batch after batch with retries.  A scheduler *)
(* flushes at an interval; shutdown() stops the scheduler, flushes, and    *)
(* stops the executor.                                                     *)
(*                                                                         *)
(* flush() is called outside the lock that addToBuffer holds, and submits  *)
(* outside the one it takes itself: an action is what a thread does        *)
(* between two points where another thread may come in between.  A call    *)
(* of addToBuffer records one event here; all events of a call are added   *)
(* under one lock.                                                         *)
(***************************************************************************)
EXTENDS Integers, Sequences, Functions, FiniteSets

CONSTANTS
  Thread,      \* threads of the application
  Caller,      \* threads that call shutdown(): the JVM's hook, a bean's destroy method
  Scheduler,   \* the thread of flushScheduler
  MaxEvents,   \* bound: events a thread records
  BatchSize,
  Cap,         \* HARD_BATCH_CAP
  MaxRetries

ASSUME BoundAssumption ==
  MaxEvents \in Nat /\ BatchSize \in Nat \ {0} /\ Cap \in Nat /\ MaxRetries \in Nat \ {0}
ASSUME ThreadAssumption ==
  /\ Thread \cap Caller = {} /\ Scheduler \notin Thread \cup Caller
  /\ IsFiniteSet(Thread) /\ IsFiniteSet(Caller)

Event == Thread \X (1..MaxEvents)
Proc == Thread \cup Caller \cup {Scheduler}

VARIABLES
  count,       \* thread -> events it has recorded
  buffer,      \* the five lists, as one
  pc,          \* where each thread is in flush() and shutdown()
  batch,       \* the batch a thread has taken and not yet submitted
  queue,       \* batches submitted
  worker,      \* the executor's thread: the batch it sends, the attempt, and whether it sleeps
  executor,    \* "running", "shutdown" (runs what is queued) or "stopped" (shutdownNow)
  interrupted, \* the interrupt of shutdownNow has not been noticed yet
  scheduler,   \* whether the scheduler will fire again
  halted,      \* the JVM is gone
  settled,     \* history: events answered, or dropped with a report
  lost,        \* history: events nobody holds any more
  due,         \* history: what each shutdown() is there to save
  timedOut     \* history: an awaitTermination gave up

vars == <<count, buffer, pc, batch, queue, worker, executor, interrupted, scheduler, halted,
          settled, lost, due, timedOut>>
history == <<due, timedOut>>

NoWork == [batch |-> <<>>, attempt |-> 0, asleep |-> FALSE]

Init ==
  /\ count = [t \in Thread |-> 0]
  /\ buffer = <<>>
  /\ pc = [p \in Proc |-> IF p \in Caller THEN "start" ELSE "idle"]
  /\ batch = [p \in Proc |-> <<>>]
  /\ queue = <<>>
  /\ worker = NoWork
  /\ executor = "running" /\ interrupted = FALSE
  /\ scheduler = TRUE
  /\ halted = FALSE
  /\ settled = {} /\ lost = {}
  /\ due = [c \in Caller |-> {}]
  /\ timedOut = FALSE

Queued == UNION {Range(queue[i]) : i \in DOMAIN queue}
WithExecutor == Queued \cup Range(worker.batch)
Recorded == {e \in Event : e[2] <= count[e[1]]}

Goto(p, where) == pc' = [pc EXCEPT ![p] = where]

-----------------------------------------------------------------------------
(* addToBuffer and flush *)

Record(t) ==
  /\ ~halted
  /\ pc[t] = "idle"
  /\ count[t] < MaxEvents
  /\ count' = [count EXCEPT ![t] = @ + 1]
  /\ buffer' = Append(buffer, <<t, count'[t]>>)
  /\ Goto(t, IF Len(buffer') > Cap \/ Len(buffer') >= BatchSize THEN "flush" ELSE "idle")
  /\ UNCHANGED <<batch, queue, worker, executor, interrupted, scheduler, halted, settled, lost,
                 history>>

\* The interval fires; a periodic task does not run again once the scheduler is shut down.
Tick ==
  /\ ~halted
  /\ scheduler
  /\ pc[Scheduler] = "idle"
  /\ Goto(Scheduler, "flush")
  /\ UNCHANGED <<count, buffer, batch, queue, worker, executor, interrupted, scheduler, halted,
                 settled, lost, history>>

\* Where a thread goes when flush() returns.
Back(p) == IF p \in Caller THEN "stop" ELSE "idle"

\* Mutant: the buffer is copied and not cleared.
Take_Copy(p) ==
  /\ ~halted
  /\ pc[p] = "flush"
  /\ batch' = [batch EXCEPT ![p] = buffer]
  /\ buffer' = buffer
  /\ Goto(p, IF buffer = <<>> THEN Back(p) ELSE "check")
  /\ due' = IF p \in Caller THEN [due EXCEPT ![p] = Range(buffer)] ELSE due
  /\ UNCHANGED <<count, queue, worker, executor, interrupted, scheduler, halted, settled, lost,
                 timedOut>>

\* Under the lock: take what is buffered, or return.
Take(p) ==
  /\ ~halted
  /\ pc[p] = "flush"
  /\ batch' = [batch EXCEPT ![p] = buffer]
  /\ buffer' = <<>>
  /\ Goto(p, IF buffer = <<>> THEN Back(p) ELSE "check")
  /\ due' = IF p \in Caller THEN [due EXCEPT ![p] = Range(buffer)] ELSE due
  /\ UNCHANGED <<count, queue, worker, executor, interrupted, scheduler, halted, settled, lost,
                 timedOut>>

\* An executor that is shut down: the batch is dropped without a word.
Check(p) ==
  /\ ~halted
  /\ pc[p] = "check"
  /\ IF executor = "running"
     THEN Goto(p, "submit") /\ UNCHANGED <<batch, lost>>
     ELSE /\ Goto(p, Back(p))
          /\ batch' = [batch EXCEPT ![p] = <<>>]
          /\ lost' = lost \cup Range(batch[p])
  /\ UNCHANGED <<count, buffer, queue, worker, executor, interrupted, scheduler, halted, settled,
                 history>>

Submit(p) ==
  /\ ~halted
  /\ pc[p] = "submit"
  /\ executor = "running"
  /\ queue' = Append(queue, batch[p])
  /\ batch' = [batch EXCEPT ![p] = <<>>]
  /\ Goto(p, Back(p))
  /\ UNCHANGED <<count, buffer, worker, executor, interrupted, scheduler, halted, settled, lost,
                 history>>

\* The executor was shut down since the check: submit throws RejectedExecutionException, through
\* addToBuffer into the application, out of shutdown(), or out of the periodic task, which ends it.
Rejected(p) ==
  /\ ~halted
  /\ pc[p] = "submit"
  /\ executor /= "running"
  /\ lost' = lost \cup Range(batch[p])
  /\ batch' = [batch EXCEPT ![p] = <<>>]
  /\ Goto(p, IF p \in Caller THEN "threw" ELSE "idle")
  /\ scheduler' = (scheduler /\ p /= Scheduler)
  /\ UNCHANGED <<count, buffer, queue, worker, executor, interrupted, halted, settled, history>>

-----------------------------------------------------------------------------
(* The executor's thread *)

Begin ==
  /\ ~halted
  /\ worker = NoWork
  /\ queue /= <<>>
  /\ worker' = [NoWork EXCEPT !.batch = Head(queue), !.attempt = 1]
  /\ queue' = Tail(queue)
  /\ UNCHANGED <<count, buffer, pc, batch, executor, interrupted, scheduler, halted, settled, lost,
                 history>>

Sending == ~halted /\ worker /= NoWork /\ ~worker.asleep

Settle == settled' = settled \cup Range(worker.batch) /\ worker' = NoWork

SendOk ==
  /\ Sending
  /\ Settle
  /\ UNCHANGED <<count, buffer, pc, batch, queue, executor, interrupted, scheduler, halted, lost,
                 history>>

\* The request fails, of itself or because send() noticed the interrupt.
SendFails ==
  /\ Sending
  /\ worker.attempt < MaxRetries
  /\ worker' = [worker EXCEPT !.asleep = TRUE]
  /\ interrupted' \in {interrupted, FALSE}
  /\ UNCHANGED <<count, buffer, pc, batch, queue, executor, scheduler, halted, settled, lost,
                 history>>

\* Mutant: the attempts are not counted.
Awake_Again ==
  /\ ~halted
  /\ worker.asleep /\ ~interrupted
  /\ worker' = [worker EXCEPT !.asleep = FALSE]
  /\ UNCHANGED <<count, buffer, pc, batch, queue, executor, interrupted, scheduler, halted, settled,
                 lost, history>>

\* Mutant: one attempt too many.
Awake_Twice ==
  /\ ~halted
  /\ worker.asleep /\ ~interrupted
  /\ worker' = [worker EXCEPT !.asleep = FALSE, !.attempt = @ + 2]
  /\ UNCHANGED <<count, buffer, pc, batch, queue, executor, interrupted, scheduler, halted, settled,
                 lost, history>>

Awake ==
  /\ ~halted
  /\ worker.asleep /\ ~interrupted
  /\ worker' = [worker EXCEPT !.asleep = FALSE, !.attempt = @ + 1]
  /\ UNCHANGED <<count, buffer, pc, batch, queue, executor, interrupted, scheduler, halted, settled,
                 lost, history>>

\* Mutant: what ends a batch's last try is not reported.
GiveUp_Silent ==
  /\ ~halted
  /\ (worker.asleep /\ interrupted) \/ (Sending /\ worker.attempt = MaxRetries)
  /\ worker' = NoWork /\ lost' = lost \cup Range(worker.batch)
  /\ interrupted' = FALSE
  /\ UNCHANGED <<count, buffer, pc, batch, queue, executor, scheduler, halted, settled, history>>

\* The last try fails, or the interrupt is noticed in the sleep: onDrop is called.
GiveUp ==
  /\ ~halted
  /\ (worker.asleep /\ interrupted) \/ (Sending /\ worker.attempt = MaxRetries)
  /\ Settle
  /\ interrupted' = FALSE
  /\ UNCHANGED <<count, buffer, pc, batch, queue, executor, scheduler, halted, lost, history>>

-----------------------------------------------------------------------------
(* shutdown *)

ShutdownScheduler(c) ==
  /\ ~halted
  /\ pc[c] = "start"
  /\ scheduler' = FALSE
  /\ Goto(c, "awaitScheduler")
  /\ UNCHANGED <<count, buffer, batch, queue, worker, executor, interrupted, halted, settled, lost,
                 history>>

\* The run of the periodic task ends, or five seconds pass; its interrupt changes nothing.
AwaitScheduler(c) ==
  /\ ~halted
  /\ pc[c] = "awaitScheduler"
  /\ timedOut' = (timedOut \/ pc[Scheduler] /= "idle")
  /\ Goto(c, "flush")
  /\ UNCHANGED <<count, buffer, batch, queue, worker, executor, interrupted, scheduler, halted,
                 settled, lost, due>>

\* The executor takes no more work; what it has is still sent.
ShutdownExecutor(c) ==
  /\ ~halted
  /\ pc[c] = "stop"
  /\ executor' = IF executor = "running" THEN "shutdown" ELSE executor
  /\ due' = [due EXCEPT ![c] = @ \cup WithExecutor]
  /\ Goto(c, "awaitExecutor")
  /\ UNCHANGED <<count, buffer, batch, queue, worker, interrupted, scheduler, halted, settled, lost,
                 timedOut>>

\* Mutant: nobody waits.
AwaitExecutor_Not(c) ==
  /\ ~halted
  /\ pc[c] = "awaitExecutor"
  /\ Goto(c, "done")
  /\ UNCHANGED <<count, buffer, batch, queue, worker, executor, interrupted, scheduler, halted,
                 settled, lost, history>>

AwaitExecutor(c) ==
  /\ ~halted
  /\ pc[c] = "awaitExecutor"
  /\ queue = <<>> /\ worker = NoWork
  /\ Goto(c, "done")
  /\ UNCHANGED <<count, buffer, batch, queue, worker, executor, interrupted, scheduler, halted,
                 settled, lost, history>>

\* Five seconds pass: shutdownNow interrupts the thread, and the queue it returns is ignored.
ShutdownNow(c) ==
  /\ ~halted
  /\ pc[c] = "awaitExecutor"
  /\ queue /= <<>> \/ worker /= NoWork
  /\ executor' = "stopped"
  /\ lost' = lost \cup Queued
  /\ queue' = <<>>
  /\ interrupted' = (interrupted \/ worker /= NoWork)
  /\ timedOut' = TRUE
  /\ Goto(c, "done")
  /\ UNCHANGED <<count, buffer, batch, worker, scheduler, halted, settled, due>>

\* The JVM's hooks have run: the threads, all daemons or done, are gone, with what they held.
Halt ==
  /\ ~halted
  /\ \A c \in Caller : pc[c] \in {"done", "threw"}
  /\ halted' = TRUE
  /\ lost' = lost \cup (Recorded \ settled)
  /\ UNCHANGED <<count, buffer, pc, batch, queue, worker, executor, interrupted, scheduler, settled,
                 history>>

Flush(p) == Take(p) \/ Check(p) \/ Submit(p) \/ Rejected(p)
Work == Begin \/ SendOk \/ SendFails \/ Awake \/ GiveUp
Shutdown(c) == ShutdownScheduler(c) \/ AwaitScheduler(c) \/ ShutdownExecutor(c) \/ AwaitExecutor(c)

Next ==
  \/ \E t \in Thread : Record(t)
  \/ Tick
  \/ \E p \in Proc : Flush(p)
  \/ Work
  \/ \E c \in Caller : Shutdown(c) \/ ShutdownNow(c)
  \/ Halt

\* Threads run, the interval fires, requests end and sleeps are over.
Fairness ==
  /\ WF_vars(Tick) /\ WF_vars(Work)
  /\ \A p \in Proc : WF_vars(Flush(p))
  /\ \A c \in Caller : WF_vars(AwaitScheduler(c) \/ ShutdownExecutor(c) \/ AwaitExecutor(c))

Spec == Init /\ [][Next]_vars /\ Fairness

-----------------------------------------------------------------------------
(* Properties *)

Batches == Seq(Event)

TypeOK ==
  /\ count \in [Thread -> 0..MaxEvents]
  /\ buffer \in Batches
  /\ pc \in [Proc -> {"idle", "start", "awaitScheduler", "flush", "check", "submit", "stop",
                      "awaitExecutor", "done", "threw"}]
  /\ batch \in [Proc -> Batches]
  /\ queue \in Seq(Batches)
  /\ worker \in [batch : Batches, attempt : 0..MaxRetries, asleep : BOOLEAN]
  /\ executor \in {"running", "shutdown", "stopped"}
  /\ {interrupted, scheduler, halted, timedOut} \subseteq BOOLEAN
  /\ settled \subseteq Event /\ lost \subseteq Event
  /\ due \in [Caller -> SUBSET Event]

\* The places an event can be in.
Places == <<Range(buffer), UNION {Range(batch[p]) : p \in Proc}, Queued, Range(worker.batch),
            settled, lost>>

\* Through flushes of several threads at once, every recorded event is in exactly one place, and
\* in no two batches.
HeldOnce ==
  ~halted =>
    /\ UNION Range(Places) = Recorded
    /\ \A i, j \in 1..6 : i /= j => Places[i] \cap Places[j] = {}
    /\ \A p, q \in Proc : p /= q => Range(batch[p]) \cap Range(batch[q]) = {}

\* shutdown() of one caller returns when what its flush took and what the executor had is settled,
\* unless a wait gave up.
ShutdownSettles ==
  ~timedOut => \A c \in Caller : pc[c] = "done" => due[c] \subseteq settled

\* shutdown() returns or throws.
ShutdownEnds ==
  \A c \in Caller : pc[c] = "awaitScheduler" ~> pc[c] \in {"done", "threw"}

\* The SDK as a sink is closed by the shutdown of its executor.
Sink == INSTANCE EventSink WITH
  recorded <- Recorded,
  closed <- executor /= "running",
  driven <- scheduler /\ executor = "running"

\* The tracer implements EventSink: events are lost only to the shutdown, and as long as nothing
\* shuts it down the scheduler empties it.
ImplementsSink == Sink!LiveSpec
=============================================================================
