-------------------------- MODULE JavaTracerProofs --------------------------
(***************************************************************************)
(* The Java tracer keeps every event in one place, for any threads, any    *)
(* callers of shutdown() and any number of events: the types, and where    *)
(* each step moves what it takes.                                          *)
(***************************************************************************)
EXTENDS JavaTracer, SequenceTheorems, TLAPS

ProcState == {"idle", "start", "awaitScheduler", "flush", "check", "submit", "stop",
              "awaitExecutor", "done", "threw"}
WorkerType == [batch : Batches, attempt : 0..MaxRetries, asleep : BOOLEAN]

-----------------------------------------------------------------------------
(* Sequences of events and of batches *)

LEMMA EmptyRange == Range(<<>>) = {}
BY DEF Range

LEMMA RangeAppend ==
  ASSUME NEW S, NEW q \in Seq(S), NEW x \in S
  PROVE  Append(q, x) \in Seq(S) /\ Range(Append(q, x)) = Range(q) \cup {x}
<1>1. <<x>> \in Seq(S) /\ Range(<<x>>) = {x}
  BY DEF Range
<1>2. Append(q, x) = q \o <<x>>
  BY AppendIsConcat
<1>3. Range(q \o <<x>>) = Range(q) \cup Range(<<x>>)
  BY <1>1, RangeConcatenation
<1> QED
  BY <1>1, <1>2, <1>3, AppendProperties

\* The events of the batches of q.
All(q) == UNION {Range(q[i]) : i \in DOMAIN q}

\* No event is in two batches of q.
Disjoint(q) == \A i, j \in DOMAIN q : i /= j => Range(q[i]) \cap Range(q[j]) = {}

\* A batch that shares nothing with those queued is put behind them.
LEMMA Enqueue ==
  ASSUME NEW q \in Seq(Batches), NEW b \in Batches, Disjoint(q), Range(b) \cap All(q) = {}
  PROVE  /\ Append(q, b) \in Seq(Batches)
         /\ All(Append(q, b)) = All(q) \cup Range(b)
         /\ Disjoint(Append(q, b))
<1> DEFINE a == Append(q, b)
           n == Len(q)
<1>1. /\ a \in Seq(Batches) /\ n \in Nat /\ DOMAIN q = 1 .. n /\ DOMAIN a = 1 .. n + 1
      /\ \A i \in 1 .. n : a[i] = q[i]
      /\ a[n + 1] = b
  BY AppendProperties, LenProperties
<1> HIDE DEF a, n
<1>2. All(a) = All(q) \cup Range(b)
  <2>1. \A i \in DOMAIN a : Range(a[i]) \subseteq All(q) \cup Range(b)
    <3> SUFFICES ASSUME NEW i \in DOMAIN a PROVE Range(a[i]) \subseteq All(q) \cup Range(b)
      OBVIOUS
    <3>1. i \in DOMAIN q \/ i = n + 1
      BY <1>1
    <3> QED
      BY <1>1, <3>1 DEF All
  <2>2. \A i \in DOMAIN q : i \in DOMAIN a /\ Range(q[i]) \subseteq All(a)
    BY <1>1 DEF All
  <2>3. n + 1 \in DOMAIN a /\ Range(b) \subseteq All(a)
    BY <1>1 DEF All
  <2>4. All(a) \subseteq All(q) \cup Range(b)
    BY <2>1 DEF All
  <2>5. All(q) \subseteq All(a)
    BY <2>2 DEF All
  <2> QED
    BY <2>3, <2>4, <2>5
<1>3. Disjoint(a)
  <2> SUFFICES ASSUME NEW i \in DOMAIN a, NEW j \in DOMAIN a, i /= j
               PROVE  Range(a[i]) \cap Range(a[j]) = {}
    BY DEF Disjoint
  <2>1. \A k \in DOMAIN a : k \in DOMAIN q \/ k = n + 1
    BY <1>1
  <2>2. \A k \in DOMAIN q : a[k] = q[k] /\ Range(q[k]) \cap Range(b) = {}
    BY <1>1 DEF All
  <2> QED
    BY <1>1, <2>1, <2>2 DEF Disjoint
<1> QED
  BY <1>1, <1>2, <1>3 DEF a

\* The first batch is taken.
LEMMA Dequeue ==
  ASSUME NEW q \in Seq(Batches), q /= <<>>, Disjoint(q)
  PROVE  /\ Head(q) \in Batches /\ Tail(q) \in Seq(Batches)
         /\ All(q) = Range(Head(q)) \cup All(Tail(q))
         /\ Range(Head(q)) \cap All(Tail(q)) = {}
         /\ Disjoint(Tail(q))
<1> DEFINE t == Tail(q)
           h == Head(q)
           n == Len(q)
<1>1. /\ h \in Batches /\ t \in Seq(Batches) /\ n \in Nat /\ n >= 1
      /\ DOMAIN q = 1 .. n /\ DOMAIN t = 1 .. n - 1
      /\ \A i \in 1 .. n - 1 : t[i] = q[i + 1]
      /\ h = q[1]
  BY EmptySeq, HeadTailProperties, LenProperties
<1> HIDE DEF t, h, n
<1>2. \A i \in DOMAIN t : i + 1 \in DOMAIN q /\ i + 1 /= 1 /\ t[i] = q[i + 1]
  BY <1>1
<1>3. 1 \in DOMAIN q /\ \A i \in DOMAIN q : i = 1 \/ (i - 1 \in DOMAIN t /\ t[i - 1] = q[i])
  BY <1>1
<1>4. All(q) \subseteq Range(h) \cup All(t)
  BY <1>1, <1>3 DEF All
<1>5. Range(h) \cup All(t) \subseteq All(q)
  BY <1>1, <1>2, <1>3 DEF All
<1>6. Range(h) \cap All(t) = {}
  BY <1>1, <1>2, <1>3 DEF All, Disjoint
<1>7. Disjoint(t)
  <2> SUFFICES ASSUME NEW i \in DOMAIN t, NEW j \in DOMAIN t, i /= j
               PROVE  Range(t[i]) \cap Range(t[j]) = {}
    BY DEF Disjoint
  <2>1. i + 1 /= j + 1
    BY <1>1
  <2> QED
    BY <1>2, <2>1 DEF Disjoint
<1> QED
  BY <1>1, <1>4, <1>5, <1>6, <1>7 DEF t, h

-----------------------------------------------------------------------------
(* Types *)

\* TypeOK, a sleep that has an attempt left, and who may hold a batch.
TracerType ==
  /\ count \in [Thread -> 0..MaxEvents]
  /\ buffer \in Batches
  /\ pc \in [Proc -> ProcState]
  /\ batch \in [Proc -> Batches]
  /\ queue \in Seq(Batches)
  /\ worker \in WorkerType
  /\ executor \in {"running", "shutdown", "stopped"}
  /\ interrupted \in BOOLEAN /\ scheduler \in BOOLEAN /\ halted \in BOOLEAN /\ timedOut \in BOOLEAN
  /\ settled \subseteq Event /\ lost \subseteq Event
  /\ due \in [Caller -> SUBSET Event]
  /\ worker.asleep => worker.attempt < MaxRetries
  /\ \A p \in Proc : pc[p] \notin {"check", "submit"} => batch[p] = <<>>

LEMMA IsTypeOK == TracerType => TypeOK
BY DEF TracerType, TypeOK, ProcState, WorkerType

LEMMA Procs ==
  /\ \A c \in Caller : c \in Proc
  /\ \A t \in Thread : t \in Proc
  /\ Scheduler \in Proc
  /\ \A p \in Proc : Back(p) \in {"stop", "idle"}
BY DEF Proc, Back

LEMMA NoBatch == <<>> \in Batches /\ <<>> \in Seq(Batches) /\ NoWork \in WorkerType
<1>1. 0 \in 0 .. MaxRetries
  BY BoundAssumption
<1> QED
  BY <1>1 DEF Batches, NoWork, WorkerType

LEMMA Events ==
  ASSUME TracerType
  PROVE  /\ Range(buffer) \subseteq Event
         /\ \A p \in Proc : Range(batch[p]) \subseteq Event
         /\ Range(worker.batch) \subseteq Event
         /\ Queued = All(queue) /\ Queued \subseteq Event
<1>1. \A b \in Batches : Range(b) \subseteq Event
  BY RangeOfSeq DEF Batches
<1>2. \A i \in DOMAIN queue : queue[i] \in Batches
  BY DEF TracerType
<1>3. worker.batch \in Batches
  BY DEF TracerType, WorkerType
<1> QED
  BY <1>1, <1>2, <1>3 DEF TracerType, Queued, All

LEMMA InitType == Init => TracerType
<1> SUFFICES ASSUME Init PROVE TracerType
  OBVIOUS
<1>1. 0 \in 0 .. MaxEvents
  BY BoundAssumption
<1>2. pc \in [Proc -> ProcState]
  BY DEF Init, ProcState
<1> QED
  BY <1>1, <1>2, NoBatch DEF Init, TracerType, NoWork

\* A thread moves on, and with its batch only from "check" to "submit".
LEMMA Moves ==
  ASSUME TracerType, NEW p \in Proc, NEW where \in ProcState, Goto(p, where)
  PROVE  /\ pc' \in [Proc -> ProcState]
         /\ pc'[p] = where
         /\ \A q \in Proc : q /= p => pc'[q] = pc[q]
BY DEF TracerType, Goto

\* A thread gives its batch away.
LEMMA GivesAway ==
  ASSUME TracerType, NEW p \in Proc, batch' = [batch EXCEPT ![p] = <<>>]
  PROVE  /\ batch' \in [Proc -> Batches]
         /\ batch'[p] = <<>>
         /\ \A q \in Proc : q /= p => batch'[q] = batch[q]
BY NoBatch DEF TracerType

LEMMA RecordType == ASSUME TracerType, NEW t \in Thread, Record(t) PROVE TracerType'
<1>1. count' \in [Thread -> 0..MaxEvents] /\ count'[t] = count[t] + 1
  BY BoundAssumption DEF TracerType, Record
<1>2. <<t, count'[t]>> \in Event
  BY <1>1, BoundAssumption DEF TracerType, Event
<1>3. buffer' \in Batches
  BY <1>2, AppendProperties DEF TracerType, Record, Batches
<1>4. /\ t \in Proc
      /\ \E where \in {"flush", "idle"} : Goto(t, where)
  BY Procs DEF Record
<1>5. /\ pc' \in [Proc -> ProcState] /\ pc'[t] \in {"flush", "idle"}
      /\ \A q \in Proc : q /= t => pc'[q] = pc[q]
  BY <1>4, Moves DEF ProcState
<1>6. batch[t] = <<>>
  BY <1>4 DEF TracerType, Record
<1> QED
  BY <1>1, <1>3, <1>5, <1>6 DEF TracerType, Record, history

LEMMA TakeType == ASSUME TracerType, NEW p \in Proc, Take(p) PROVE TracerType'
<1>1. /\ batch' \in [Proc -> Batches] /\ batch'[p] = buffer
      /\ \A q \in Proc : q /= p => batch'[q] = batch[q]
  BY DEF TracerType, Take
<1>2. /\ pc' \in [Proc -> ProcState]
      /\ pc'[p] \notin {"check", "submit"} => buffer = <<>>
      /\ \A q \in Proc : q /= p => pc'[q] = pc[q]
  <2>1. CASE buffer = <<>>
    BY <2>1, Procs DEF TracerType, Take, Goto, ProcState
  <2>2. CASE buffer /= <<>>
    BY <2>2 DEF TracerType, Take, Goto, ProcState
  <2> QED
    BY <2>1, <2>2
<1>3. due' \in [Caller -> SUBSET Event]
  <2>1. CASE p \in Caller
    BY <2>1, Events DEF TracerType, Take
  <2>2. CASE p \notin Caller
    BY <2>2 DEF TracerType, Take
  <2> QED
    BY <2>1, <2>2
<1> QED
  BY <1>1, <1>2, <1>3, NoBatch DEF TracerType, Take

LEMMA CheckType == ASSUME TracerType, NEW p \in Proc, Check(p) PROVE TracerType'
<1>1. CASE executor = "running"
  BY <1>1 DEF TracerType, Check, Goto, ProcState, history
<1>2. CASE executor /= "running"
  <2>1. /\ pc' \in [Proc -> ProcState] /\ pc'[p] \notin {"check", "submit"}
        /\ \A q \in Proc : q /= p => pc'[q] = pc[q]
    BY <1>2, Procs DEF TracerType, Check, Goto, ProcState
  <2>2. lost' \subseteq Event
    BY <1>2, Events DEF TracerType, Check
  <2> QED
    BY <1>2, <2>1, <2>2, GivesAway DEF TracerType, Check, history
<1> QED
  BY <1>1, <1>2

LEMMA SubmitType == ASSUME TracerType, NEW p \in Proc, Submit(p) PROVE TracerType'
<1>1. /\ pc' \in [Proc -> ProcState] /\ pc'[p] \notin {"check", "submit"}
      /\ \A q \in Proc : q /= p => pc'[q] = pc[q]
  BY Procs DEF TracerType, Submit, Goto, ProcState
<1>2. queue' \in Seq(Batches)
  BY AppendProperties DEF TracerType, Submit
<1> QED
  BY <1>1, <1>2, GivesAway DEF TracerType, Submit, history

LEMMA RejectedType == ASSUME TracerType, NEW p \in Proc, Rejected(p) PROVE TracerType'
<1>1. /\ pc' \in [Proc -> ProcState] /\ pc'[p] \notin {"check", "submit"}
      /\ \A q \in Proc : q /= p => pc'[q] = pc[q]
  BY DEF TracerType, Rejected, Goto, ProcState
<1>2. lost' \subseteq Event
  BY Events DEF TracerType, Rejected
<1> QED
  BY <1>1, <1>2, GivesAway DEF TracerType, Rejected, history

LEMMA WorkType == ASSUME TracerType, Work PROVE TracerType'
<1>0. /\ 1 \in 0 .. MaxRetries /\ MaxRetries \in Nat
      /\ worker.attempt \in 0 .. MaxRetries /\ worker.batch \in Batches
  BY BoundAssumption DEF TracerType, WorkerType
<1>1. CASE Begin
  <2>1. Head(queue) \in Batches /\ Tail(queue) \in Seq(Batches)
    BY <1>1, HeadTailProperties DEF TracerType, Begin
  <2> QED
    BY <1>0, <1>1, <2>1 DEF TracerType, Begin, NoWork, WorkerType, history
<1>2. CASE SendOk
  BY <1>2, Events, NoBatch DEF TracerType, SendOk, Settle, NoWork, history
<1>3. CASE SendFails
  BY <1>3 DEF TracerType, SendFails, WorkerType, history
<1>4. CASE Awake
  <2>1. worker.attempt + 1 \in 0 .. MaxRetries
    BY <1>0, <1>4 DEF TracerType, Awake
  <2> QED
    BY <1>4, <2>1 DEF TracerType, Awake, WorkerType, history
<1>5. CASE GiveUp
  BY <1>5, Events, NoBatch DEF TracerType, GiveUp, Settle, NoWork, history
<1> QED
  BY <1>1, <1>2, <1>3, <1>4, <1>5 DEF Work

LEMMA ShutdownType ==
  ASSUME TracerType, NEW c \in Caller, Shutdown(c) \/ ShutdownNow(c)
  PROVE  TracerType'
<1>0. c \in Proc /\ pc[c] \notin {"check", "submit"}
  BY Procs DEF Shutdown, ShutdownScheduler, AwaitScheduler, ShutdownExecutor, AwaitExecutor,
               ShutdownNow
<1>1. /\ pc' \in [Proc -> ProcState] /\ batch' = batch /\ batch[c] = <<>>
      /\ \A q \in Proc : q /= c => pc'[q] = pc[q]
  BY <1>0 DEF TracerType, Shutdown, ShutdownScheduler, AwaitScheduler, ShutdownExecutor,
              AwaitExecutor, ShutdownNow, Goto, ProcState
<1>2. \A p \in Proc : pc'[p] \notin {"check", "submit"} => batch'[p] = <<>>
  BY <1>1 DEF TracerType
<1>3. CASE ShutdownExecutor(c)
  <2>1. WithExecutor \subseteq Event
    BY Events DEF WithExecutor
  <2>2. due' \in [Caller -> SUBSET Event]
    BY <1>3, <2>1 DEF TracerType, ShutdownExecutor
  <2> QED
    BY <1>1, <1>2, <1>3, <2>2 DEF TracerType, ShutdownExecutor
<1>4. CASE ShutdownNow(c)
  BY <1>1, <1>2, <1>4, Events, NoBatch DEF TracerType, ShutdownNow
<1>5. CASE ShutdownScheduler(c) \/ AwaitScheduler(c) \/ AwaitExecutor(c)
  BY <1>1, <1>2, <1>5 DEF TracerType, ShutdownScheduler, AwaitScheduler, AwaitExecutor, history
<1> QED
  BY <1>3, <1>4, <1>5 DEF Shutdown

LEMMA NextType == TracerType /\ [Next]_vars => TracerType'
<1> SUFFICES ASSUME TracerType, [Next]_vars PROVE TracerType'
  OBVIOUS
<1>1. ASSUME NEW t \in Thread, Record(t) PROVE TracerType'
  BY <1>1, RecordType
<1>2. CASE Tick
  <2>1. batch[Scheduler] = <<>>
    BY <1>2, Procs DEF TracerType, Tick
  <2> QED
    BY <1>2, <2>1, Procs DEF TracerType, Tick, Goto, ProcState, history
<1>3. ASSUME NEW p \in Proc, Flush(p) PROVE TracerType'
  BY <1>3, TakeType, CheckType, SubmitType, RejectedType DEF Flush
<1>4. CASE Work
  BY <1>4, WorkType
<1>5. ASSUME NEW c \in Caller, Shutdown(c) \/ ShutdownNow(c) PROVE TracerType'
  BY <1>5, ShutdownType
<1>6. CASE Halt
  <2>1. Recorded \subseteq Event
    BY DEF Recorded
  <2> QED
    BY <1>6, <2>1 DEF TracerType, Halt, history
<1>7. CASE UNCHANGED vars
  BY <1>7 DEF TracerType, vars, history
<1> QED
  BY <1>1, <1>2, <1>3, <1>4, <1>5, <1>6, <1>7 DEF Next

\* The tracer's state stays within its types: the attempts are counted, and a shutdown that
\* races flushes leaves no thread outside the states of flush() and shutdown().
THEOREM TypeCorrect == Spec => []TypeOK
BY InitType, NextType, IsTypeOK, PTL DEF Spec

-----------------------------------------------------------------------------
(* Every event in one place *)

\* The batches that threads have taken and not submitted.
Taken == UNION {Range(batch[p]) : p \in Proc}

\* The six places cover what is recorded and share nothing; neither do two batches.
Apart ==
  /\ Recorded = Range(buffer) \cup Taken \cup All(queue) \cup Range(worker.batch)
                  \cup settled \cup lost
  /\ Range(buffer) \cap (Taken \cup All(queue) \cup Range(worker.batch) \cup settled \cup lost) = {}
  /\ Taken \cap (All(queue) \cup Range(worker.batch) \cup settled \cup lost) = {}
  /\ All(queue) \cap (Range(worker.batch) \cup settled \cup lost) = {}
  /\ Range(worker.batch) \cap (settled \cup lost) = {}
  /\ settled \cap lost = {}
  /\ \A p, q \in Proc : p /= q => Range(batch[p]) \cap Range(batch[q]) = {}
  /\ Disjoint(queue)

HeldInv == TracerType /\ (~halted => Apart)

LEMMA InitHeld == Init => HeldInv
<1> SUFFICES ASSUME Init PROVE HeldInv
  OBVIOUS
<1>1. Taken = {} /\ All(queue) = {} /\ Range(buffer) = {} /\ Range(worker.batch) = {}
  BY EmptyRange DEF Init, NoWork, Taken, All
<1>2. Recorded = {}
  BY BoundAssumption DEF Init, Recorded, Event
<1>3. Disjoint(queue)
  BY DEF Init, Disjoint
<1>4. \A p \in Proc : Range(batch[p]) = {}
  BY EmptyRange DEF Init
<1> QED
  BY <1>1, <1>2, <1>3, <1>4, InitType DEF Init, HeldInv, Apart

\* What a thread gives away leaves the taken batches, the others stay.
LEMMA TakenLess ==
  ASSUME HeldInv, Apart, NEW p \in Proc, batch' = [batch EXCEPT ![p] = <<>>]
  PROVE  /\ Taken' = Taken \ Range(batch[p])
         /\ Range(batch[p]) \subseteq Taken
         /\ \A q, r \in Proc : q /= r => Range(batch'[q]) \cap Range(batch'[r]) = {}
<1>1. /\ Range(batch'[p]) = {}
      /\ \A q \in Proc : q /= p => batch'[q] = batch[q]
  BY EmptyRange, GivesAway DEF HeldInv
<1>2. \A q \in Proc : q /= p => Range(batch[q]) \cap Range(batch[p]) = {}
  BY DEF Apart
<1>3. \A q, r \in Proc : q /= r => Range(batch'[q]) \cap Range(batch'[r]) = {}
  <2>1. \A q, r \in Proc : q /= r => Range(batch[q]) \cap Range(batch[r]) = {}
    BY DEF Apart
  <2>2. \A q \in Proc : Range(batch'[q]) = {} \/ batch'[q] = batch[q]
    BY <1>1
  <2> QED
    BY <2>1, <2>2
<1>4. Taken' = Taken \ Range(batch[p])
  <2>1. Taken' \subseteq Taken \ Range(batch[p])
    BY <1>1, <1>2 DEF Taken
  <2>2. Taken \ Range(batch[p]) \subseteq Taken'
    BY <1>1 DEF Taken
  <2> QED
    BY <2>1, <2>2
<1>5. Range(batch[p]) \subseteq Taken
  BY DEF Taken
<1> QED
  BY <1>3, <1>4, <1>5

LEMMA RecordHeld == ASSUME HeldInv, NEW t \in Thread, Record(t) PROVE Apart'
<1> DEFINE e == <<t, count[t] + 1>>
<1>1. /\ Apart /\ count[t] \in 0 .. MaxEvents /\ count[t] < MaxEvents
      /\ count' = [count EXCEPT ![t] = @ + 1] /\ count'[t] = count[t] + 1
  BY DEF HeldInv, TracerType, Record
<1>2. e \in Event /\ e \notin Recorded
  BY <1>1, BoundAssumption DEF Event, Recorded
<1>3. Recorded' = Recorded \cup {e}
  <2>1. \A x \in Event : x[1] \in Thread /\ x[2] \in 1 .. MaxEvents /\ x = <<x[1], x[2]>>
    BY DEF Event
  <2>2. \A x \in Event : x[1] /= t => (x \in Recorded' <=> x \in Recorded) /\ x /= e
    BY <1>1, <2>1 DEF HeldInv, TracerType, Recorded
  <2>3. \A x \in Event : x[1] = t => (x[2] <= count'[t] <=> x[2] <= count[t] \/ x[2] = count[t] + 1)
    BY <1>1, <2>1, BoundAssumption
  <2>4. \A x \in Event : x[1] = t => (x \in Recorded' <=> x \in Recorded \/ x = e)
    BY <1>1, <2>1, <2>3 DEF Recorded
  <2>5. Recorded' \subseteq Event /\ Recorded \subseteq Event
    BY DEF Recorded
  <2> QED
    BY <1>2, <2>2, <2>4, <2>5
<1>4. Range(buffer') = Range(buffer) \cup {e}
  <2>1. buffer \in Seq(Event) /\ buffer' = Append(buffer, e)
    BY <1>1 DEF HeldInv, TracerType, Record, Batches
  <2> HIDE DEF e
  <2> QED
    BY <1>2, <2>1, RangeAppend
<1>5. UNCHANGED <<Taken, queue, batch, worker, settled, lost>>
  BY DEF Record, Taken
<1> HIDE DEF e
<1> QED
  BY <1>1, <1>2, <1>3, <1>4, <1>5 DEF Apart

LEMMA TakeHeld == ASSUME HeldInv, NEW p \in Proc, Take(p) PROVE Apart'
<1>1. /\ Apart /\ Range(batch[p]) = {}
  BY EmptyRange DEF HeldInv, TracerType, Take
<1>2. /\ batch'[p] = buffer /\ \A q \in Proc : q /= p => batch'[q] = batch[q]
  BY DEF HeldInv, TracerType, Take
<1>3. Taken' = Taken \cup Range(buffer)
  BY <1>1, <1>2 DEF Taken
<1>4. Range(buffer') = {}
  BY EmptyRange DEF Take
<1>5. \A q \in Proc : Range(batch[q]) \cap Range(buffer) = {}
  BY <1>1 DEF Apart, Taken
<1>6. \A q, r \in Proc : q /= r => Range(batch'[q]) \cap Range(batch'[r]) = {}
  BY <1>1, <1>2, <1>5 DEF Apart
<1>7. UNCHANGED <<Recorded, queue, worker, settled, lost>>
  BY DEF Take, Recorded
<1> QED
  BY <1>1, <1>3, <1>4, <1>6, <1>7 DEF Apart

\* A batch that is dropped without a word.
LEMMA DropHeld ==
  ASSUME HeldInv, Apart, NEW p \in Proc, batch' = [batch EXCEPT ![p] = <<>>],
         lost' = lost \cup Range(batch[p]), UNCHANGED <<count, buffer, queue, worker, settled>>
  PROVE  Apart'
<1>1. UNCHANGED Recorded
  BY DEF Recorded
<1> QED
  BY <1>1, TakenLess DEF Apart

LEMMA SubmitHeld == ASSUME HeldInv, NEW p \in Proc, Submit(p) PROVE Apart'
<1>1. Apart /\ batch[p] \in Batches /\ queue \in Seq(Batches)
  BY DEF HeldInv, TracerType, Submit
<1>2. /\ Taken' = Taken \ Range(batch[p]) /\ Range(batch[p]) \subseteq Taken
      /\ \A q, r \in Proc : q /= r => Range(batch'[q]) \cap Range(batch'[r]) = {}
  BY <1>1, TakenLess DEF Submit
<1>3. Range(batch[p]) \cap All(queue) = {} /\ Disjoint(queue)
  BY <1>1, <1>2 DEF Apart
<1>4. All(queue') = All(queue) \cup Range(batch[p]) /\ Disjoint(queue')
  BY <1>1, <1>3, Enqueue DEF Submit
<1>5. UNCHANGED <<Recorded, buffer, worker, settled, lost>>
  BY DEF Submit, Recorded
<1> QED
  BY <1>1, <1>2, <1>4, <1>5 DEF Apart

LEMMA WorkHeld == ASSUME HeldInv, Work PROVE Apart'
<1>0. Apart /\ UNCHANGED <<Recorded, Taken, buffer, batch>>
  BY DEF HeldInv, Work, Begin, SendOk, SendFails, Awake, GiveUp, Sending, Recorded, Taken
<1>1. CASE Begin
  <2>1. /\ All(queue) = Range(Head(queue)) \cup All(queue')
        /\ Range(Head(queue)) \cap All(queue') = {}
        /\ Disjoint(queue')
    BY <1>0, <1>1, Dequeue DEF HeldInv, TracerType, Begin, Apart
  <2>2. Range(worker.batch) = {} /\ Range(worker'.batch) = Range(Head(queue))
    BY <1>1, EmptyRange DEF Begin, NoWork
  <2> QED
    BY <1>0, <1>1, <2>1, <2>2 DEF Begin, Apart
<1>2. CASE SendOk \/ GiveUp
  <2>1. /\ Range(worker'.batch) = {} /\ settled' = settled \cup Range(worker.batch)
        /\ UNCHANGED <<queue, lost>>
    BY <1>2, EmptyRange DEF SendOk, GiveUp, Settle, NoWork
  <2> QED
    BY <1>0, <2>1 DEF Apart
<1>3. CASE SendFails \/ Awake
  <2>1. worker'.batch = worker.batch /\ UNCHANGED <<queue, settled, lost>>
    BY <1>3 DEF SendFails, Awake, HeldInv, TracerType, WorkerType
  <2> QED
    BY <1>0, <2>1 DEF Apart
<1> QED
  BY <1>1, <1>2, <1>3 DEF Work

LEMMA ShutdownNowHeld == ASSUME HeldInv, NEW c \in Caller, ShutdownNow(c) PROVE Apart'
<1>1. /\ Apart /\ UNCHANGED <<Recorded, Taken, buffer, batch, worker, settled>>
      /\ lost' = lost \cup All(queue)
  BY Events DEF HeldInv, ShutdownNow, Recorded, Taken
<1>2. All(queue') = {} /\ Disjoint(queue')
  BY DEF ShutdownNow, All, Disjoint
<1> QED
  BY <1>1, <1>2 DEF Apart

\* Steps that move no event.
LEMMA StillHeld ==
  ASSUME Apart, UNCHANGED <<count, buffer, batch, queue, worker, settled, lost>>
  PROVE  Apart'
BY DEF Apart, Recorded, Taken

LEMMA NextHeld == HeldInv /\ [Next]_vars => HeldInv'
<1> SUFFICES ASSUME HeldInv, [Next]_vars, ~halted' PROVE Apart'
  BY NextType DEF HeldInv
<1>1. ASSUME NEW t \in Thread, Record(t) PROVE Apart'
  BY <1>1, RecordHeld
<1>2. CASE Tick
  BY <1>2, StillHeld DEF HeldInv, Tick
<1>3. ASSUME NEW p \in Proc, Flush(p) PROVE Apart'
  <2>1. CASE Take(p)
    BY <2>1, TakeHeld
  <2>2. CASE Check(p)
    <3>1. CASE executor = "running"
      BY <2>2, <3>1, StillHeld DEF HeldInv, Check
    <3>2. CASE executor /= "running"
      BY <2>2, <3>2, DropHeld DEF HeldInv, Check
    <3> QED
      BY <3>1, <3>2
  <2>3. CASE Submit(p)
    BY <2>3, SubmitHeld
  <2>4. CASE Rejected(p)
    BY <2>4, DropHeld DEF HeldInv, Rejected
  <2> QED
    BY <1>3, <2>1, <2>2, <2>3, <2>4 DEF Flush
<1>4. CASE Work
  BY <1>4, WorkHeld
<1>5. ASSUME NEW c \in Caller, Shutdown(c) PROVE Apart'
  BY <1>5, StillHeld DEF HeldInv, Shutdown, ShutdownScheduler, AwaitScheduler, ShutdownExecutor,
                         AwaitExecutor
<1>6. ASSUME NEW c \in Caller, ShutdownNow(c) PROVE Apart'
  BY <1>6, ShutdownNowHeld
<1>7. CASE Halt
  BY <1>7 DEF Halt
<1>8. CASE UNCHANGED vars
  BY <1>8, StillHeld DEF HeldInv, vars
<1> QED
  BY <1>1, <1>2, <1>3, <1>4, <1>5, <1>6, <1>7, <1>8 DEF Next

LEMMA ApartIsOnce == HeldInv => HeldOnce
<1> SUFFICES ASSUME HeldInv, ~halted PROVE HeldOnce
  BY DEF HeldOnce
<1>1. /\ Places[1] = Range(buffer) /\ Places[2] = Taken /\ Places[3] = All(queue)
      /\ Places[4] = Range(worker.batch) /\ Places[5] = settled /\ Places[6] = lost
  BY Events DEF HeldInv, Places, Taken
<1>2. UNION Range(Places) = Places[1] \cup Places[2] \cup Places[3] \cup Places[4] \cup Places[5]
                              \cup Places[6]
  BY DEF Places, Range
<1>3. UNION Range(Places) = Recorded
  BY <1>1, <1>2 DEF HeldInv, Apart
<1>4. \A i, j \in 1 .. 6 : i /= j => Places[i] \cap Places[j] = {}
  <2>1. \A i \in 1 .. 6 : i \in {1, 2, 3, 4, 5, 6}
    OBVIOUS
  <2> QED
    BY <1>1, <2>1 DEF HeldInv, Apart
<1> QED
  BY <1>3, <1>4 DEF HeldInv, Apart, HeldOnce

\* The inductive invariant of the Java tracer.
THEOREM Inductive == Spec => []HeldInv
BY InitHeld, NextHeld, PTL DEF Spec

\* While the process lives every recorded event is in exactly one place, and in no two batches,
\* through flushes of any number of threads, shutdowns and rejected batches.
THEOREM EventsAreHeldOnce == Spec => []HeldOnce
BY Inductive, ApartIsOnce, PTL

-----------------------------------------------------------------------------
(* What a shutdown() is there to save *)

\* Only the caller itself stops the executor, so its own batch is not refused; and what it is
\* there to save is in its batch, then with the executor or settled.
DueInv(c) ==
  /\ pc[c] \in {"start", "awaitScheduler", "flush", "check", "submit", "stop"} =>
       executor = "running"
  /\ ~timedOut =>
       /\ pc[c] \in {"check", "submit"} => due[c] \subseteq Range(batch[c])
       /\ pc[c] \in {"stop", "awaitExecutor"} => due[c] \subseteq WithExecutor \cup settled
       /\ pc[c] = "done" => due[c] \subseteq settled

\* What the executor has is settled, unless a wait gives up.
LEMMA ExecutorKeeps ==
  ASSUME HeldInv, [Next]_vars, ~timedOut'
  PROVE  settled \subseteq settled' /\ WithExecutor \cup settled \subseteq WithExecutor' \cup settled'
<1>1. /\ WithExecutor = All(queue) \cup Range(worker.batch)
      /\ WithExecutor' = All(queue') \cup Range(worker'.batch)
  BY NextHeld, Events DEF WithExecutor, Queued, All
<1>2. CASE Work
  <2>1. CASE Begin
    <3>1. /\ All(queue) = Range(Head(queue)) \cup All(queue') /\ worker'.batch = Head(queue)
          /\ worker.batch = <<>> /\ settled' = settled
      BY <2>1, Dequeue DEF HeldInv, TracerType, Apart, Begin, NoWork
    <3> QED
      BY <1>1, <3>1, EmptyRange
  <2>2. CASE SendOk \/ GiveUp
    BY <1>1, <2>2 DEF SendOk, GiveUp, Settle
  <2>3. CASE SendFails \/ Awake
    <3>1. worker'.batch = worker.batch /\ queue' = queue /\ settled' = settled
      BY <2>3 DEF SendFails, Awake, HeldInv, TracerType, WorkerType
    <3> QED
      BY <1>1, <3>1
  <2> QED
    BY <1>2, <2>1, <2>2, <2>3 DEF Work
<1>3. ASSUME NEW p \in Proc, Submit(p)
      PROVE  settled' = settled /\ All(queue) \subseteq All(queue') /\ worker' = worker
  <2>1. /\ Apart /\ batch[p] \in Batches /\ queue \in Seq(Batches) /\ Disjoint(queue)
        /\ Range(batch[p]) \subseteq Taken
    BY <1>3 DEF HeldInv, TracerType, Submit, Apart, Taken
  <2>2. Range(batch[p]) \cap All(queue) = {}
    BY <2>1 DEF Apart
  <2> QED
    BY <1>3, <2>1, <2>2, Enqueue DEF Submit
<1>4. ASSUME NEW p \in Proc, Take(p) \/ Check(p) \/ Rejected(p)
      PROVE  UNCHANGED <<queue, worker, settled>>
  BY <1>4 DEF Take, Check, Rejected
<1>5. ASSUME NEW c \in Caller, Shutdown(c) \/ ShutdownNow(c)
      PROVE  UNCHANGED <<queue, worker, settled>>
  BY <1>5 DEF Shutdown, ShutdownScheduler, AwaitScheduler, ShutdownExecutor, AwaitExecutor, ShutdownNow
<1>6. ASSUME \/ Tick \/ Halt \/ UNCHANGED vars
             \/ \E t \in Thread : Record(t)
      PROVE  UNCHANGED <<queue, worker, settled>>
  BY <1>6 DEF Record, Tick, Halt, vars
<1> QED
  BY <1>1, <1>2, <1>3, <1>4, <1>5, <1>6 DEF Next, Flush

\* Each step keeps it, when nobody else shuts the tracer down.
LEMMA NextDue ==
  ASSUME NEW c, Caller = {c}, HeldInv, DueInv(c), [Next]_vars
  PROVE  DueInv(c)'
<1>0. /\ c \in Caller /\ c \in Proc /\ c \notin Thread /\ c /= Scheduler /\ Back(c) = "stop"
      /\ pc \in [Proc -> ProcState] /\ batch \in [Proc -> Batches] /\ due \in [Caller -> SUBSET Event]
  BY Procs, ThreadAssumption DEF HeldInv, TracerType, Back
<1>1. /\ timedOut => timedOut'
      /\ ~timedOut' => /\ settled \subseteq settled'
                       /\ WithExecutor \cup settled \subseteq WithExecutor' \cup settled'
  <2>1. timedOut => timedOut'
    BY DEF Next, Record, Tick, Flush, Take, Check, Submit, Rejected, Work, Begin, SendOk, SendFails,
           Awake, GiveUp, Shutdown, ShutdownScheduler, AwaitScheduler, ShutdownExecutor,
           AwaitExecutor, ShutdownNow, Halt, vars, history
  <2> QED
    BY <2>1, ExecutorKeeps
<1>a. ASSUME pc'[c] = pc[c], batch'[c] = batch[c], due'[c] = due[c], executor' = executor
      PROVE  DueInv(c)'
  BY <1>1, <1>a DEF DueInv
<1>2. ASSUME NEW t \in Thread, Record(t) PROVE DueInv(c)'
  BY <1>0, <1>2, <1>a, Procs DEF Record, Goto, history
<1>3. CASE Tick
  BY <1>0, <1>3, <1>a DEF Tick, Goto, history
<1>4. ASSUME NEW p \in Proc, p /= c, Flush(p) PROVE DueInv(c)'
  <2>1. p \notin Caller
    BY <1>4
  <2>2. pc'[c] = pc[c] /\ batch'[c] = batch[c] /\ due' = due /\ executor' = executor
    BY <1>0, <1>4, <2>1 DEF Flush, Take, Check, Submit, Rejected, Goto, history
  <2> QED
    BY <1>a, <2>2
<1>5. CASE Take(c)
  <2>1. /\ due'[c] = Range(buffer) /\ batch'[c] = buffer /\ executor' = executor
        /\ pc[c] = "flush" /\ pc'[c] = IF buffer = <<>> THEN "stop" ELSE "check"
    BY <1>0, <1>5 DEF Take, Goto
  <2> QED
    BY <2>1, EmptyRange DEF DueInv
<1>6. CASE Check(c)
  <2>1. /\ executor = "running" /\ executor' = executor /\ pc[c] = "check"
        /\ pc'[c] = "submit" /\ batch' = batch /\ due' = due
    BY <1>0, <1>6 DEF Check, Goto, DueInv, history
  <2> QED
    BY <1>1, <2>1 DEF DueInv
<1>7. CASE Submit(c)
  <2>1. /\ pc[c] = "submit" /\ pc'[c] = "stop" /\ executor' = "running" /\ due' = due
        /\ queue' = Append(queue, batch[c]) /\ timedOut' = timedOut
    BY <1>0, <1>7 DEF Submit, Goto, history
  <2>2. Range(batch[c]) \subseteq All(queue')
    <3>1. /\ Apart /\ batch[c] \in Batches /\ queue \in Seq(Batches) /\ Disjoint(queue)
          /\ Range(batch[c]) \subseteq Taken
      BY <1>0, <1>7 DEF HeldInv, TracerType, Submit, Apart, Taken
    <3>2. Range(batch[c]) \cap All(queue) = {}
      BY <3>1 DEF Apart
    <3> QED
      BY <2>1, <3>1, <3>2, Enqueue
  <2>3. All(queue') \subseteq WithExecutor'
    BY DEF WithExecutor, Queued, All
  <2> QED
    BY <2>1, <2>2, <2>3 DEF DueInv
<1>8. CASE Rejected(c)
  BY <1>8 DEF Rejected, DueInv
<1>9. CASE Work
  BY <1>9, <1>a DEF Work, Begin, SendOk, SendFails, Awake, GiveUp, history
<1>10. CASE ShutdownScheduler(c) \/ AwaitScheduler(c)
  <2>1. /\ pc'[c] \in {"awaitScheduler", "flush"} /\ executor' = executor
        /\ pc[c] \in {"start", "awaitScheduler"}
    BY <1>0, <1>10 DEF ShutdownScheduler, AwaitScheduler, Goto
  <2> QED
    BY <2>1 DEF DueInv
<1>11. CASE ShutdownExecutor(c)
  <2>1. /\ pc[c] = "stop" /\ pc'[c] = "awaitExecutor" /\ due'[c] = due[c] \cup WithExecutor
    BY <1>0, <1>11 DEF ShutdownExecutor, Goto
  <2>2. ~timedOut' => due'[c] \subseteq WithExecutor' \cup settled'
    BY <1>1, <2>1 DEF DueInv
  <2> QED
    BY <2>1, <2>2 DEF DueInv
<1>12. CASE AwaitExecutor(c)
  <2>1. /\ pc[c] = "awaitExecutor" /\ pc'[c] = "done" /\ due' = due /\ settled' = settled
        /\ timedOut' = timedOut /\ queue = <<>> /\ worker = NoWork
    BY <1>0, <1>12 DEF AwaitExecutor, Goto, history
  <2>2. WithExecutor = {}
    BY <2>1, EmptyRange DEF WithExecutor, Queued, NoWork
  <2> QED
    BY <2>1, <2>2 DEF DueInv
<1>13. CASE ShutdownNow(c)
  <2>1. pc'[c] = "done" /\ timedOut'
    BY <1>0, <1>13 DEF ShutdownNow, Goto
  <2> QED
    BY <2>1 DEF DueInv
<1>14. CASE Halt \/ UNCHANGED vars
  BY <1>14, <1>a DEF Halt, vars, history
<1> QED
  BY <1>0, <1>2, <1>3, <1>4, <1>5, <1>6, <1>7, <1>8, <1>9, <1>10, <1>11, <1>12, <1>13, <1>14
  DEF Next, Flush, Shutdown

\* The shutdown() of a single caller that waited to the end has settled what its flush took and
\* what the executor had: nothing of it was refused, left in the queue or forgotten in a retry.
THEOREM ShutdownsSettle ==
  ASSUME NEW c, Caller = {c}
  PROVE  Spec => []ShutdownSettles
<1>1. Init => DueInv(c)
  BY Procs DEF Init, DueInv
<1>2. HeldInv /\ DueInv(c) /\ [Next]_vars => DueInv(c)'
  BY NextDue
<1>3. DueInv(c) => ShutdownSettles
  BY DEF DueInv, ShutdownSettles
<1> QED
  BY <1>1, <1>2, <1>3, InitHeld, NextHeld, PTL DEF Spec

-----------------------------------------------------------------------------
(* The tracer as an EventSink *)

\* A caller that is past the stop of the executor, or was refused by it, finds it stopped.
StopInv ==
  /\ HeldInv
  /\ \A c \in Caller : pc[c] \in {"awaitExecutor", "done", "threw"} => executor /= "running"

LEMMA InitStop == Init => StopInv
BY InitHeld DEF Init, StopInv, Proc

LEMMA NextStop == StopInv /\ [Next]_vars => StopInv'
<1> SUFFICES ASSUME StopInv, [Next]_vars, NEW c \in Caller,
                    pc'[c] \in {"awaitExecutor", "done", "threw"}
             PROVE  executor' /= "running"
  BY NextHeld DEF StopInv
<1>0. /\ c \in Proc /\ pc \in [Proc -> ProcState]
      /\ pc[c] \in {"awaitExecutor", "done", "threw"} => executor /= "running"
  BY Procs DEF StopInv, HeldInv, TracerType
<1>1. ASSUME NEW t \in Thread, Record(t) PROVE executor' /= "running"
  <2>1. t /= c /\ t \in Proc
    BY Procs, ThreadAssumption
  <2> QED
    BY <1>0, <1>1, <2>1 DEF Record, Goto, history
<1>2. CASE Tick
  <2>1. Scheduler /= c
    BY ThreadAssumption
  <2> QED
    BY <1>0, <1>2, <2>1 DEF Tick, Goto
<1>3. ASSUME NEW p \in Proc, Flush(p) PROVE executor' /= "running"
  <2>1. CASE Take(p)
    BY <1>0, <2>1, Procs DEF Take, Goto, Back
  <2>2. CASE Check(p)
    BY <1>0, <2>2, Procs DEF Check, Goto, Back
  <2>3. CASE Submit(p)
    BY <1>0, <2>3, Procs DEF Submit, Goto, Back
  <2>4. CASE Rejected(p)
    BY <1>0, <2>4 DEF Rejected, Goto
  <2> QED
    BY <1>3, <2>1, <2>2, <2>3, <2>4 DEF Flush
<1>4. CASE Work
  BY <1>0, <1>4 DEF Work, Begin, SendOk, SendFails, Awake, GiveUp
<1>5. ASSUME NEW d \in Caller, Shutdown(d) \/ ShutdownNow(d) PROVE executor' /= "running"
  <2>1. d \in Proc
    BY Procs
  <2>2. CASE ShutdownScheduler(d) \/ AwaitScheduler(d)
    BY <1>0, <2>1, <2>2 DEF ShutdownScheduler, AwaitScheduler, Goto
  <2>3. CASE ShutdownExecutor(d) \/ ShutdownNow(d)
    BY <2>3 DEF ShutdownExecutor, ShutdownNow
  <2>4. CASE AwaitExecutor(d)
    <3>1. executor /= "running"
      BY <2>4 DEF AwaitExecutor, StopInv
    <3> QED
      BY <2>4, <3>1 DEF AwaitExecutor
  <2> QED
    BY <1>5, <2>2, <2>3, <2>4 DEF Shutdown
<1>6. CASE Halt
  BY <1>0, <1>6 DEF Halt
<1>7. CASE UNCHANGED vars
  BY <1>0, <1>7 DEF vars
<1> QED
  BY <1>1, <1>2, <1>3, <1>4, <1>5, <1>6, <1>7 DEF Next

LEMMA InitSink == Init => Sink!Init
<1> SUFFICES ASSUME Init PROVE Sink!Init
  OBVIOUS
<1>1. Recorded = {}
  BY BoundAssumption DEF Init, Recorded, Event
<1> QED
  BY <1>1 DEF Init, Sink!Init

\* A step that moves events among the threads, the queue and the executor's thread.
LEMMA MoveSink ==
  ASSUME UNCHANGED <<count, settled, lost>>, executor' = executor
  PROVE  UNCHANGED Sink!vars
BY DEF Sink!vars, Recorded

\* A batch is lost to an executor that does not run.
LEMMA LoseSink ==
  ASSUME Apart, UNCHANGED <<count, settled>>, executor' /= "running",
         NEW S, S \subseteq Taken \cup All(queue), lost' = lost \cup S
  PROVE  Sink!Close
<1>1. UNCHANGED Recorded
  BY DEF Recorded
<1> QED
  BY <1>1 DEF Apart, Sink!Close, Sink!Held

LEMMA NextSink ==
  ASSUME Caller /= {}
  PROVE  StopInv /\ HeldInv' /\ [Next]_vars => [Sink!Next]_(Sink!vars)
<1> SUFFICES ASSUME StopInv, HeldInv', [Next]_vars
             PROVE  [Sink!Next]_(Sink!vars)
  OBVIOUS
<1>0. HeldInv
  BY DEF StopInv
<1>1. ASSUME NEW t \in Thread, Record(t) PROVE Sink!Record
  <2>1. count[t] \in 0 .. MaxEvents /\ count' = [count EXCEPT ![t] = @ + 1]
    BY <1>0, <1>1 DEF HeldInv, TracerType, Record
  <2>2. \A x \in Event : x[1] \in Thread /\ x[2] \in 1 .. MaxEvents
    BY DEF Event
  <2>3. \A x \in Event : x[2] <= count[x[1]] => x[2] <= count'[x[1]]
    BY <1>0, <2>1, <2>2, BoundAssumption DEF HeldInv, TracerType
  <2>4. Recorded \subseteq Recorded' /\ Recorded' \subseteq Event
    BY <2>3 DEF Recorded
  <2> QED
    BY <1>1, <2>4 DEF Record, Sink!Record
<1>2. CASE Tick
  BY <1>2, MoveSink DEF Tick
<1>3. ASSUME NEW p \in Proc, Flush(p) PROVE [Sink!Next]_(Sink!vars)
  <2>0. Apart /\ Range(batch[p]) \subseteq Taken
    BY <1>0, <1>3 DEF HeldInv, Flush, Take, Check, Submit, Rejected, Taken
  <2>1. CASE Take(p)
    BY <2>1, MoveSink DEF Take
  <2>2. CASE Check(p)
    <3>1. CASE executor = "running"
      BY <2>2, <3>1, MoveSink DEF Check
    <3>2. CASE executor /= "running"
      <4>1. Sink!Close
        BY <2>0, <2>2, <3>2, LoseSink DEF Check
      <4> QED
        BY <4>1 DEF Sink!Next
    <3> QED
      BY <3>1, <3>2
  <2>3. CASE Submit(p)
    BY <2>3, MoveSink DEF Submit
  <2>4. CASE Rejected(p)
    <3>1. Sink!Close
      BY <2>0, <2>4, LoseSink DEF Rejected
    <3> QED
      BY <3>1 DEF Sink!Next
  <2> QED
    BY <1>3, <2>1, <2>2, <2>3, <2>4 DEF Flush
<1>4. CASE Work
  <2>1. CASE Begin \/ SendFails \/ Awake
    BY <2>1, MoveSink DEF Begin, SendFails, Awake
  <2>2. CASE SendOk \/ GiveUp
    <3>1. /\ Apart /\ settled' = settled \cup Range(worker.batch)
          /\ UNCHANGED <<Recorded, lost, executor>>
      BY <1>0, <2>2 DEF HeldInv, SendOk, GiveUp, Sending, Settle, Recorded
    <3>2. Sink!Settle
      BY <3>1 DEF Apart, Sink!Settle, Sink!Held
    <3> QED
      BY <3>2 DEF Sink!Next
  <2> QED
    BY <1>4, <2>1, <2>2 DEF Work
<1>5. ASSUME NEW c \in Caller, Shutdown(c) \/ ShutdownNow(c) PROVE [Sink!Next]_(Sink!vars)
  <2>1. CASE ShutdownScheduler(c) \/ AwaitScheduler(c) \/ AwaitExecutor(c)
    BY <2>1, MoveSink DEF ShutdownScheduler, AwaitScheduler, AwaitExecutor
  <2>2. CASE ShutdownExecutor(c)
    <3>1. /\ executor' /= "running" /\ UNCHANGED <<Recorded, settled, lost>>
      BY <1>0, <2>2 DEF HeldInv, TracerType, ShutdownExecutor, Recorded
    <3>2. Sink!Close
      BY <3>1 DEF Sink!Close
    <3> QED
      BY <3>2 DEF Sink!Next
  <2>3. CASE ShutdownNow(c)
    <3>1. Apart /\ lost' = lost \cup All(queue) /\ executor' /= "running"
      BY <1>0, <2>3, Events DEF HeldInv, ShutdownNow
    <3>2. Sink!Close
      BY <2>3, <3>1, LoseSink DEF ShutdownNow
    <3> QED
      BY <3>2 DEF Sink!Next
  <2> QED
    BY <1>5, <2>1, <2>2, <2>3 DEF Shutdown
<1>6. CASE Halt
  <2>1. PICK c \in Caller : pc[c] \in {"done", "threw"}
    BY <1>6 DEF Halt
  <2>2. executor /= "running" /\ executor' = executor /\ UNCHANGED <<Recorded, settled>>
    BY <1>6, <2>1 DEF StopInv, Halt, Recorded
  <2>3. Sink!Close
    BY <1>6, <2>2 DEF Halt, Sink!Close, Sink!Held
  <2> QED
    BY <2>3 DEF Sink!Next
<1>7. CASE UNCHANGED vars
  BY <1>7, MoveSink DEF vars
<1> QED
  BY <1>1, <1>2, <1>3, <1>4, <1>5, <1>6, <1>7 DEF Next, Sink!Next

\* With the JVM's hook, or another caller of shutdown(), the tracer implements EventSink (its
\* safety part): an event is lost only once the executor is shut down.
THEOREM ImplementsEventSink == ASSUME Caller /= {} PROVE Spec => Sink!Spec
<1>1. Spec => []StopInv
  BY InitStop, NextStop, PTL DEF Spec
<1>2. StopInv /\ HeldInv' /\ [Next]_vars => [Sink!Next]_(Sink!vars)
  BY NextSink
<1> QED
  BY <1>1, <1>2, Inductive, InitSink, PTL DEF Spec, Sink!Spec
=============================================================================
