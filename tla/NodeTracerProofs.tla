-------------------------- MODULE NodeTracerProofs --------------------------
(***************************************************************************)
(* The buffer and the drain of the Node SDK keep every event, for any      *)
(* spans, callers, batch size, cap and number of tries: the types, what    *)
(* each operation on the tracer's fields preserves, and from these the     *)
(* invariants that the run node_tracer checks.                             *)
(***************************************************************************)
EXTENDS NodeTracer, SequenceTheorems, TLAPS

TracerType == [buffer : Seq(Event), batch : Seq(Event), attempt : 0..MaxRetries,
               isFlushing : BOOLEAN, flushAgain : BOOLEAN, unhandled : BOOLEAN]

\* A tracer that is not draining has no batch, and one that drains has one.
BatchInFlight(t) == t.isFlushing <=> t.batch /= <<>>

\* The events the tracer holds, in the order of recording.
Line(t) == t.batch \o t.buffer

\* A buffer as large as a batch is being drained.
Draining(t) == Len(t.buffer) >= BatchSize => t.isFlushing

-----------------------------------------------------------------------------
(* Buffer and drain *)

\* What a span records is a sequence of events.
LEMMA OfType ==
  ASSUME NEW s \in Span, NEW kinds \in Shape \cup {<<"end">>}
  PROVE  Of(s, kinds) \in Seq(Event)
<1>1. kinds \in Seq(Kind)
  <2>1. "trace" \in Kind /\ "start" \in Kind /\ "edge" \in Kind /\ "end" \in Kind
    BY DEF Kind
  <2>2. /\ <<"trace", "start">> \in Seq(Kind)
        /\ <<"trace", "start", "edge">> \in Seq(Kind)
        /\ <<"start", "edge">> \in Seq(Kind)
        /\ <<"start">> \in Seq(Kind)
        /\ <<"end">> \in Seq(Kind)
    BY <2>1
  <2> QED
    BY <2>2 DEF Shape
<1>2. /\ Len(kinds) \in Nat
      /\ DOMAIN kinds = 1 .. Len(kinds)
      /\ \A i \in DOMAIN kinds : kinds[i] \in Kind
  BY <1>1
<1>3. Of(s, kinds) \in [1 .. Len(kinds) -> Event]
  BY <1>2 DEF Of, Event
<1> QED
  BY <1>2, <1>3

LEMMA LengthOf ==
  ASSUME NEW q \in Seq(Event)
  PROVE  /\ Len(q) \in Nat
         /\ q = <<>> <=> Len(q) = 0
BY EmptySeq, LenProperties

LEMMA Associative ==
  ASSUME NEW q \in Seq(Event), NEW r \in Seq(Event), NEW s \in Seq(Event)
  PROVE  (q \o r) \o s = q \o (r \o s)
BY ConcatAssociative, SMTT(30)

\* What is recorded goes behind what is settled and held.
LEMMA Extends ==
  ASSUME NEW q \in Seq(Event), NEW r \in Seq(Event), NEW es \in Seq(Event)
  PROVE  /\ (q \o r) \o es = q \o (r \o es)
         /\ q \o r \in Seq(Event) /\ r \o es \in Seq(Event)
         /\ q \o (r \o es) \in Seq(Event)
<1>1. \A x, y \in Seq(Event) : x \o y \in Seq(Event)
  BY ConcatProperties
<1> QED
  BY <1>1, Associative

\* One turn of the drain loop takes the whole buffer, of a tracer without a batch.
LEMMA TurnStep ==
  ASSUME NEW t \in TracerType
  PROVE  /\ Turn(t) \in TracerType
         /\ BatchInFlight(Turn(t))
         /\ Line(Turn(t)) = t.buffer
         /\ Draining(Turn(t))
         /\ Turn(t).buffer = <<>>
<1>1. t.buffer \in Seq(Event) /\ <<>> \in Seq(Event) /\ Len(<<>>) = 0
  BY EmptySeq DEF TracerType
<1>2. 0 \in 0 .. MaxRetries /\ 1 \in 0 .. MaxRetries /\ ~(0 >= BatchSize)
  BY BoundAssumption
<1>3. Turn(t).buffer = <<>>
  BY DEF Turn, DrainEnd, TracerType
<1>4. Turn(t) \in TracerType
  BY <1>1, <1>2 DEF Turn, DrainEnd, TracerType
<1>5. Turn(t).batch = t.buffer /\ BatchInFlight(Turn(t))
  BY DEF Turn, DrainEnd, TracerType, BatchInFlight
<1>6. Line(Turn(t)) = t.buffer
  BY <1>1, <1>3, <1>5, ConcatEmptySeq DEF Line
<1>7. Draining(Turn(t))
  BY <1>1, <1>2, <1>3 DEF Draining
<1> QED
  BY <1>3, <1>4, <1>5, <1>6, <1>7

\* flush() moves events, and neither drops nor repeats one.
LEMMA FlushStep ==
  ASSUME NEW t \in TracerType, BatchInFlight(t), NEW looked \in BOOLEAN
  PROVE  /\ Flush(t, looked) \in TracerType
         /\ BatchInFlight(Flush(t, looked))
         /\ Line(Flush(t, looked)) = Line(t)
         /\ Draining(Flush(t, looked))
<1> DEFINE u == [t EXCEPT !.unhandled = @ \/ ~looked]
<1>1. /\ u \in TracerType
      /\ u.batch = t.batch /\ u.buffer = t.buffer /\ u.isFlushing = t.isFlushing
  BY DEF TracerType
<1>2. CASE t.isFlushing
  BY <1>1, <1>2 DEF Flush, TracerType, BatchInFlight, Line, Draining
<1>3. CASE ~t.isFlushing
  <2>1. Flush(t, looked) = Turn(u)
    BY <1>3 DEF Flush
  <2>2. t.batch = <<>> /\ t.buffer \in Seq(Event)
    BY <1>3 DEF BatchInFlight, TracerType
  <2>3. Line(t) = u.buffer
    BY <1>1, <2>2, ConcatEmptySeq DEF Line
  <2> HIDE DEF u
  <2> QED
    BY <1>1, <2>1, <2>3, TurnStep
<1> QED
  BY <1>2, <1>3

\* addToBuffer puts the events behind all that is held, in whichever order it flushes.
LEMMA AddStep ==
  ASSUME NEW t \in TracerType, BatchInFlight(t), NEW es \in Seq(Event)
  PROVE  /\ AddToBuffer(t, es) \in TracerType
         /\ BatchInFlight(AddToBuffer(t, es))
         /\ Line(AddToBuffer(t, es)) = Line(t) \o es
         /\ Draining(AddToBuffer(t, es))
<1> DEFINE total == Len(t.buffer) + Len(es)
           room == IF total > Cap THEN Flush(t, FALSE) ELSE t
           added == [room EXCEPT !.buffer = @ \o es]
<1>1. room \in TracerType /\ BatchInFlight(room) /\ Line(room) = Line(t)
  BY FlushStep
<1>2. room.batch \in Seq(Event) /\ room.buffer \in Seq(Event) /\ t.buffer \in Seq(Event)
  BY <1>1 DEF TracerType
<1>3. added \in TracerType /\ BatchInFlight(added)
  BY <1>1, <1>2, ConcatProperties DEF TracerType, BatchInFlight
<1>4. Line(added) = Line(t) \o es
  <2>1. Line(added) = room.batch \o (room.buffer \o es)
    BY <1>1 DEF Line, TracerType
  <2>2. (room.batch \o room.buffer) \o es = room.batch \o (room.buffer \o es)
    <3> HIDE DEF room
    <3> QED
      BY <1>2, Associative
  <2> QED
    BY <1>1, <2>1, <2>2 DEF Line
<1>5. CASE total >= BatchSize
  <2>1. AddToBuffer(t, es) = Flush(added, FALSE)
    BY <1>5 DEF AddToBuffer
  <2> HIDE DEF added
  <2> QED
    BY <1>3, <1>4, <2>1, FlushStep
<1>6. CASE ~(total >= BatchSize)
  <2>1. AddToBuffer(t, es) = added
    BY <1>6 DEF AddToBuffer
  <2>2. Len(added.buffer) <= total /\ Len(added.buffer) \in Nat
    <3>1. Len(room.buffer) <= Len(t.buffer)
      <4>1. CASE t.isFlushing
        <5>1. room.buffer = t.buffer /\ Len(t.buffer) \in Nat
          BY <4>1, <1>2, LengthOf DEF Flush, TracerType
        <5> HIDE DEF room
        <5> QED
          BY <5>1
      <4>2. CASE ~t.isFlushing /\ total > Cap
        <5> DEFINE u == [t EXCEPT !.unhandled = @ \/ ~FALSE]
        <5>1. u \in TracerType
          BY DEF TracerType
        <5>2. room = Turn(u)
          BY <4>2 DEF Flush
        <5>3. room.buffer = <<>>
          BY <5>1, <5>2, TurnStep
        <5>4. Len(<<>>) = 0 /\ Len(t.buffer) \in Nat
          BY <1>2, EmptySeq, LengthOf
        <5> HIDE DEF room
        <5> QED
          BY <5>3, <5>4
      <4>3. CASE ~(total > Cap)
        <5>1. room = t /\ Len(t.buffer) \in Nat
          BY <4>3, <1>2, LengthOf
        <5> HIDE DEF room
        <5> QED
          BY <5>1
      <4> QED
        BY <4>1, <4>2, <4>3
    <3>2. added.buffer = room.buffer \o es
      BY <1>1 DEF TracerType
    <3>3. Len(room.buffer \o es) = Len(room.buffer) + Len(es)
      <4> HIDE DEF room
      <4> QED
        BY <1>2, ConcatProperties
    <3>4. Len(room.buffer) \in Nat /\ Len(t.buffer) \in Nat /\ Len(es) \in Nat
      <4> HIDE DEF room
      <4> QED
        BY <1>2, LengthOf
    <3> HIDE DEF room, added
    <3> QED
      BY <3>1, <3>2, <3>3, <3>4
  <2>3. total < BatchSize /\ total \in Nat
    <3>1. Len(t.buffer) \in Nat /\ Len(es) \in Nat
      BY <1>2, LengthOf
    <3> QED
      BY <3>1, <1>6, BoundAssumption
  <2>4. Draining(added)
    <3> HIDE DEF added, total
    <3> QED
      BY <2>2, <2>3, BoundAssumption DEF Draining
  <2> QED
    BY <1>3, <1>4, <2>1, <2>4
<1> QED
  BY <1>5, <1>6

LEMMA NoAttempt == 0 \in 0 .. MaxRetries
BY BoundAssumption

\* Between two batches the drain hands on what was buffered, and goes on if that is a batch.
LEMMA LoopStep ==
  ASSUME NEW t \in TracerType
  PROVE  /\ Loop(t) \in TracerType
         /\ BatchInFlight(Loop(t))
         /\ Line(Loop(t)) = t.buffer
         /\ Draining(Loop(t))
<1>1. CASE Again(t)
  BY <1>1, TurnStep DEF Loop
<1>2. CASE ~Again(t)
  <2>1. Loop(t) = DrainEnd(t)
    BY <1>2 DEF Loop
  <2>2. t.buffer \in Seq(Event) /\ Len(t.buffer) \in Nat /\ <<>> \in Seq(Event)
    BY LengthOf, EmptySeq DEF TracerType
  <2>3. DrainEnd(t) \in TracerType /\ BatchInFlight(DrainEnd(t))
    BY <2>2, NoAttempt DEF DrainEnd, TracerType, BatchInFlight
  <2>4. DrainEnd(t).buffer = t.buffer /\ DrainEnd(t).batch = <<>>
    BY DEF DrainEnd, TracerType
  <2>5. Line(DrainEnd(t)) = t.buffer
    BY <2>2, <2>4, ConcatEmptySeq DEF Line
  <2>6. Draining(DrainEnd(t))
    BY <1>2, <2>2, <2>4, BoundAssumption DEF Again, Draining
  <2> QED
    BY <2>1, <2>3, <2>5, <2>6
<1> QED
  BY <1>1, <1>2

\* A drain that throws leaves the buffer for a later one.
LEMMA ThrowStep ==
  ASSUME NEW t \in TracerType
  PROVE  /\ DrainEnd(t) \in TracerType
         /\ BatchInFlight(DrainEnd(t))
         /\ Line(DrainEnd(t)) = t.buffer
<1>1. t.buffer \in Seq(Event) /\ <<>> \in Seq(Event)
  BY EmptySeq DEF TracerType
<1>2. DrainEnd(t) \in TracerType /\ BatchInFlight(DrainEnd(t))
  BY <1>1, NoAttempt DEF DrainEnd, TracerType, BatchInFlight
<1>3. DrainEnd(t).buffer = t.buffer /\ DrainEnd(t).batch = <<>>
  BY DEF DrainEnd, TracerType
<1> QED
  BY <1>1, <1>2, <1>3, ConcatEmptySeq DEF Line

-----------------------------------------------------------------------------
(* The inductive invariant *)

DrainInv ==
  /\ TypeOK
  /\ BatchInFlight(tracer)
  /\ Conserved
  /\ ignoreFailures => Draining(tracer)

LEMMA InitDrain == Init => DrainInv
<1> SUFFICES ASSUME Init PROVE DrainInv
  OBVIOUS
<1>1. <<>> \in Seq(Event) /\ Len(<<>>) = 0 /\ <<>> \o (<<>> \o <<>>) = <<>>
  BY EmptySeq, ConcatEmptySeq
<1>2. 0 \in 0 .. MaxRetries /\ ~(0 >= BatchSize)
  BY BoundAssumption
<1>3. TypeOK
  BY <1>1, <1>2 DEF Init, TypeOK, NewTracer
<1>4. BatchInFlight(tracer) /\ Draining(tracer) /\ Conserved
  BY <1>1, <1>2 DEF Init, NewTracer, BatchInFlight, Draining, Conserved
<1> QED
  BY <1>3, <1>4 DEF DrainInv

\* What the lemmas on the tracer's fields say of a state.
LEMMA Types ==
  ASSUME DrainInv
  PROVE  /\ tracer \in TracerType /\ BatchInFlight(tracer)
         /\ tracer.batch \in Seq(Event) /\ tracer.buffer \in Seq(Event)
         /\ recorded \in Seq(Event) /\ settled \in Seq(Event)
         /\ Line(tracer) \in Seq(Event)
         /\ recorded = settled \o Line(tracer)
<1>1. tracer \in TracerType
  BY DEF DrainInv, TypeOK, TracerType
<1>2. tracer.batch \in Seq(Event) /\ tracer.buffer \in Seq(Event)
  BY <1>1 DEF TracerType
<1>3. Line(tracer) \in Seq(Event)
  BY <1>2, ConcatProperties DEF Line
<1> QED
  BY <1>1, <1>2, <1>3 DEF DrainInv, TypeOK, Conserved, Line

LEMMA StartDrain ==
  ASSUME DrainInv, NEW s \in Span, NEW shape \in Shape, StartNode(s, shape)
  PROVE  DrainInv'
<1> DEFINE es == Of(s, shape)
<1>1. es \in Seq(Event)
  BY OfType
<1> HIDE DEF es
<1>2. tracer' = AddToBuffer(tracer, es) /\ recorded' = recorded \o es /\ settled' = settled
  BY DEF StartNode, es
<1>3. /\ tracer' \in TracerType /\ BatchInFlight(tracer)' /\ Draining(tracer)'
      /\ Line(tracer)' = Line(tracer) \o es
  BY <1>1, <1>2, Types, AddStep DEF BatchInFlight, Draining, Line
<1>4. recorded' = settled \o Line(tracer)' /\ recorded' \in Seq(Event)
  <2> DEFINE l == Line(tracer)
  <2>1. l \in Seq(Event) /\ settled \in Seq(Event) /\ recorded = settled \o l
    BY Types
  <2>2. recorded' = recorded \o es /\ Line(tracer)' = l \o es
    BY <1>2, <1>3
  <2> HIDE DEF l
  <2> QED
    BY <1>1, <2>1, <2>2, Extends
<1>5. TypeOK'
  BY <1>2, <1>3, <1>4, Types DEF DrainInv, TypeOK, TracerType, StartNode
<1> QED
  BY <1>2, <1>3, <1>4, <1>5 DEF DrainInv, Conserved, Line

LEMMA EndDrain ==
  ASSUME DrainInv, NEW s \in Span, EndSpan(s)
  PROVE  DrainInv'
<1> DEFINE es == Of(s, <<"end">>)
<1>1. es \in Seq(Event)
  BY OfType
<1> HIDE DEF es
<1>2. tracer' = AddToBuffer(tracer, es) /\ recorded' = recorded \o es /\ settled' = settled
  BY DEF EndSpan, es
<1>3. /\ tracer' \in TracerType /\ BatchInFlight(tracer)' /\ Draining(tracer)'
      /\ Line(tracer)' = Line(tracer) \o es
  BY <1>1, <1>2, Types, AddStep DEF BatchInFlight, Draining, Line
<1>4. recorded' = settled \o Line(tracer)' /\ recorded' \in Seq(Event)
  <2> DEFINE l == Line(tracer)
  <2>1. l \in Seq(Event) /\ settled \in Seq(Event) /\ recorded = settled \o l
    BY Types
  <2>2. recorded' = recorded \o es /\ Line(tracer)' = l \o es
    BY <1>2, <1>3
  <2> HIDE DEF l
  <2> QED
    BY <1>1, <2>1, <2>2, Extends
<1>5. TypeOK'
  BY <1>2, <1>3, <1>4, Types DEF DrainInv, TypeOK, TracerType, EndSpan
<1> QED
  BY <1>2, <1>3, <1>4, <1>5 DEF DrainInv, Conserved, Line

LEMMA LogDrain ==
  ASSUME DrainInv, NEW s \in Span, NEW shape \in Shape, Log(s, shape)
  PROVE  DrainInv'
<1> DEFINE es == Of(s, shape)
           fs == Of(s, <<"end">>)
           mid == AddToBuffer(tracer, es)
<1>1. es \in Seq(Event) /\ fs \in Seq(Event)
  BY OfType
<1> HIDE DEF es, fs
<1>2. tracer' = AddToBuffer(mid, fs) /\ recorded' = (recorded \o es) \o fs /\ settled' = settled
  BY DEF Log, es, fs
<1>3. mid \in TracerType /\ BatchInFlight(mid) /\ Line(mid) = Line(tracer) \o es
  BY <1>1, Types, AddStep
<1> HIDE DEF mid
<1>4. /\ tracer' \in TracerType /\ BatchInFlight(tracer)' /\ Draining(tracer)'
      /\ Line(tracer)' = (Line(tracer) \o es) \o fs
  BY <1>1, <1>2, <1>3, AddStep DEF BatchInFlight, Draining, Line
<1>5. /\ recorded \o es = settled \o (Line(tracer) \o es)
      /\ Line(tracer) \o es \in Seq(Event)
  <2> DEFINE l == Line(tracer)
  <2>1. l \in Seq(Event) /\ settled \in Seq(Event) /\ recorded = settled \o l
    BY Types
  <2> HIDE DEF l
  <2>2. (settled \o l) \o es = settled \o (l \o es) /\ l \o es \in Seq(Event)
    BY <1>1, <2>1, Extends
  <2> QED
    BY <2>1, <2>2 DEF l
<1>6. recorded' = settled \o Line(tracer)' /\ recorded' \in Seq(Event)
  <2> DEFINE l == Line(tracer) \o es
             r == recorded \o es
  <2>1. l \in Seq(Event) /\ settled \in Seq(Event) /\ r = settled \o l
    BY <1>5, Types
  <2>2. recorded' = r \o fs /\ Line(tracer)' = l \o fs
    BY <1>2, <1>4
  <2> HIDE DEF l, r
  <2>3. /\ (settled \o l) \o fs = settled \o (l \o fs)
        /\ settled \o (l \o fs) \in Seq(Event)
    BY <1>1, <2>1, Extends
  <2> QED
    BY <2>1, <2>2, <2>3
<1>7. TypeOK'
  BY <1>2, <1>4, <1>6, Types DEF DrainInv, TypeOK, TracerType, Log
<1> QED
  BY <1>2, <1>4, <1>6, <1>7 DEF DrainInv, Conserved, Line

\* The steps that only flush, or nothing.
LEMMA FlushDrain ==
  ASSUME DrainInv, UNCHANGED <<recorded, settled>>,
         NEW looked \in BOOLEAN, tracer' = Flush(tracer, looked)
  PROVE  /\ tracer' \in TracerType /\ BatchInFlight(tracer)' /\ Draining(tracer)'
         /\ Conserved'
<1>1. /\ tracer' \in TracerType /\ BatchInFlight(tracer)' /\ Draining(tracer)'
      /\ Line(tracer)' = Line(tracer)
  BY Types, FlushStep DEF BatchInFlight, Draining, Line
<1> QED
  BY <1>1, Types DEF Conserved, Line

LEMMA TimerDrain == ASSUME DrainInv, TimerFlush PROVE DrainInv'
<1>1. /\ tracer' \in TracerType /\ BatchInFlight(tracer)' /\ Draining(tracer)' /\ Conserved'
  BY FlushDrain DEF TimerFlush
<1>2. TypeOK'
  BY <1>1 DEF DrainInv, TypeOK, TracerType, TimerFlush
<1> QED
  BY <1>1, <1>2 DEF DrainInv

LEMMA HeldType == DrainInv => Held(tracer) \subseteq Event
<1> SUFFICES ASSUME DrainInv PROVE Held(tracer) \subseteq Event
  OBVIOUS
<1> QED
  BY Types, RangeOfSeq DEF Held

LEMMA ShutdownDrain ==
  ASSUME DrainInv, NEW c \in Caller, Shutdown(c)
  PROVE  DrainInv'
<1>1. /\ tracer' \in TracerType /\ BatchInFlight(tracer)' /\ Draining(tracer)' /\ Conserved'
  BY FlushDrain DEF Shutdown
<1>2. due' \in [Caller -> SUBSET Event]
  BY HeldType DEF DrainInv, TypeOK, Shutdown
<1>3. TypeOK'
  BY <1>1, <1>2 DEF DrainInv, TypeOK, TracerType, Shutdown
<1> QED
  BY <1>1, <1>3 DEF DrainInv

LEMMA ExitDrain == ASSUME DrainInv, BeforeExit PROVE DrainInv'
<1>1. /\ tracer' \in TracerType /\ BatchInFlight(tracer)' /\ Draining(tracer)' /\ Conserved'
  BY FlushDrain DEF BeforeExit, history
<1>2. TypeOK'
  BY <1>1 DEF DrainInv, TypeOK, TracerType, BeforeExit, history
<1> QED
  BY <1>1, <1>2 DEF DrainInv

LEMMA RetryDrain == ASSUME DrainInv, Retry PROVE DrainInv'
<1>1. /\ tracer' \in TracerType
      /\ tracer'.batch = tracer.batch /\ tracer'.buffer = tracer.buffer
      /\ tracer'.isFlushing = tracer.isFlushing
  <2>1. tracer \in TracerType /\ tracer.attempt \in 0 .. MaxRetries /\ MaxRetries \in Nat
    BY Types, BoundAssumption DEF TracerType
  <2>2. tracer.attempt + 1 \in 0 .. MaxRetries
    BY <2>1 DEF Retry
  <2> QED
    BY <2>1, <2>2 DEF Retry, TracerType
<1>2. TypeOK'
  BY <1>1 DEF DrainInv, TypeOK, TracerType, Retry
<1> QED
  BY <1>1, <1>2 DEF DrainInv, BatchInFlight, Draining, Conserved, Retry

\* The batch of an answered or given up request goes from the tracer to what is settled.
LEMMA SettleDrain ==
  ASSUME DrainInv, Settle, recorded' = recorded, tracer' \in TracerType,
         Line(tracer)' = tracer.buffer
  PROVE  settled' \in Seq(Event) /\ Conserved'
<1> DEFINE b == tracer.batch
           f == tracer.buffer
<1>1. /\ b \in Seq(Event) /\ f \in Seq(Event) /\ settled \in Seq(Event)
      /\ recorded = settled \o (b \o f) /\ settled' = settled \o b
      /\ Line(tracer)' = f
  BY Types DEF Line, Settle
<1> HIDE DEF b, f
<1>2. (settled \o b) \o f = settled \o (b \o f) /\ settled \o b \in Seq(Event)
  BY <1>1, Extends
<1> QED
  BY <1>1, <1>2 DEF Conserved, Line

LEMMA OkDrain == ASSUME DrainInv, RequestOk PROVE DrainInv'
<1>1. /\ tracer' \in TracerType /\ BatchInFlight(tracer)' /\ Draining(tracer)'
      /\ Line(tracer)' = tracer.buffer
  BY Types, LoopStep DEF RequestOk, BatchInFlight, Draining, Line
<1>2. settled' \in Seq(Event) /\ Conserved'
  BY <1>1, SettleDrain DEF RequestOk
<1>3. TypeOK'
  BY <1>1, <1>2 DEF DrainInv, TypeOK, TracerType, RequestOk, Resume
<1> QED
  BY <1>1, <1>2, <1>3 DEF DrainInv

LEMMA GiveUpDrain == ASSUME DrainInv, GiveUp PROVE DrainInv'
<1>1. /\ tracer' \in TracerType /\ BatchInFlight(tracer)'
      /\ Line(tracer)' = tracer.buffer
      /\ ignoreFailures => Draining(tracer)'
  <2>1. CASE ignoreFailures
    BY <2>1, Types, LoopStep DEF GiveUp, BatchInFlight, Draining, Line
  <2>2. CASE ~ignoreFailures
    BY <2>2, Types, ThrowStep DEF GiveUp, BatchInFlight, Line
  <2> QED
    BY <2>1, <2>2
<1>2. settled' \in Seq(Event) /\ Conserved'
  BY <1>1, SettleDrain DEF GiveUp
<1>3. TypeOK'
  BY <1>1, <1>2 DEF DrainInv, TypeOK, TracerType, GiveUp, Resume
<1> QED
  BY <1>1, <1>2, <1>3 DEF DrainInv, GiveUp

LEMMA NextDrain == DrainInv /\ [Next]_vars => DrainInv'
<1> SUFFICES ASSUME DrainInv, [Next]_vars PROVE DrainInv'
  OBVIOUS
<1>1. ASSUME NEW s \in Span, NEW shape \in Shape, StartNode(s, shape) PROVE DrainInv'
  BY <1>1, StartDrain
<1>2. ASSUME NEW s \in Span, NEW shape \in Shape, Log(s, shape) PROVE DrainInv'
  BY <1>2, LogDrain
<1>3. ASSUME NEW s \in Span, EndSpan(s) PROVE DrainInv'
  BY <1>3, EndDrain
<1>4. CASE TimerFlush
  BY <1>4, TimerDrain
<1>5. ASSUME NEW c \in Caller, Shutdown(c) PROVE DrainInv'
  BY <1>5, ShutdownDrain
<1>6. CASE Finish
  BY <1>6 DEF Finish, history, DrainInv, TypeOK, BatchInFlight, Draining, Conserved
<1>7. CASE BeforeExit
  BY <1>7, ExitDrain
<1>8. CASE RequestOk
  BY <1>8, OkDrain
<1>9. CASE Retry
  BY <1>9, RetryDrain
<1>10. CASE GiveUp
  BY <1>10, GiveUpDrain
<1>11. CASE UNCHANGED vars
  BY <1>11 DEF vars, DrainInv, TypeOK, BatchInFlight, Draining, Conserved
<1> QED
  BY <1>1, <1>2, <1>3, <1>4, <1>5, <1>6, <1>7, <1>8, <1>9, <1>10, <1>11 DEF Next

\* The inductive invariant of the Node tracer.
THEOREM Inductive == Spec => []DrainInv
BY InitDrain, NextDrain, PTL DEF Spec

\* The tracer's state stays within its types: the tries are counted, and a batch is a sequence
\* of events also when flushes join, fail and overlap.
THEOREM TypeCorrect == Spec => []TypeOK
<1>1. DrainInv => TypeOK
  BY DEF DrainInv
<1> QED
  BY <1>1, Inductive, PTL

\* Every recorded event is settled, in the batch in flight or in the buffer, once and in the
\* order of recording (Tracer.flush, drainBuffer, addToBuffer).
THEOREM EventsAreConserved == Spec => []Conserved
<1>1. DrainInv => Conserved
  BY DEF DrainInv
<1> QED
  BY <1>1, Inductive, PTL

\* A buffer of batchSize events is being drained, unless failures throw.
THEOREM FullBuffersAreDrained == Spec => []FullBufferDrains
<1>1. DrainInv => FullBufferDrains
  BY DEF DrainInv, FullBufferDrains, Draining
<1> QED
  BY <1>1, Inductive, PTL

-----------------------------------------------------------------------------
(* What a shutdown() waits for *)

\* The events a flush that joins will have waited for.
Promised(t) == Range(t.batch) \cup IF t.flushAgain THEN Range(t.buffer) ELSE {}

\* A waiting shutdown() has a drain to wait for, and what it owes is settled or promised.
Owed ==
  ignoreFailures => \A c \in Caller :
    /\ caller[c] = "waiting" => tracer.isFlushing
    /\ due[c] \subseteq Range(settled) \cup IF caller[c] = "waiting" THEN Promised(tracer) ELSE {}

\* While a drain runs, what is recorded or flushed takes nothing from what it promised.
LEMMA FlushKeeps ==
  ASSUME NEW t \in TracerType, t.isFlushing, NEW looked \in BOOLEAN
  PROVE  /\ Flush(t, looked).isFlushing
         /\ Promised(t) \subseteq Promised(Flush(t, looked))
         /\ Held(t) \subseteq Promised(Flush(t, looked))
<1>1. /\ Flush(t, looked).isFlushing /\ Flush(t, looked).flushAgain
      /\ Flush(t, looked).batch = t.batch /\ Flush(t, looked).buffer = t.buffer
  BY DEF Flush, TracerType
<1> QED
  BY <1>1 DEF Promised, Held

LEMMA AddKeeps ==
  ASSUME NEW t \in TracerType, BatchInFlight(t), t.isFlushing, NEW es \in Seq(Event)
  PROVE  /\ AddToBuffer(t, es).isFlushing
         /\ Promised(t) \subseteq Promised(AddToBuffer(t, es))
<1> DEFINE total == Len(t.buffer) + Len(es)
           room == IF total > Cap THEN Flush(t, FALSE) ELSE t
           added == [room EXCEPT !.buffer = @ \o es]
<1>1. room \in TracerType /\ room.isFlushing /\ Promised(t) \subseteq Promised(room)
  BY FlushKeeps, FlushStep
<1>2. added \in TracerType /\ added.isFlushing /\ Promised(room) \subseteq Promised(added)
  <2> HIDE DEF room
  <2>1. room.buffer \in Seq(Event)
    BY <1>1 DEF TracerType
  <2>2. room.buffer \o es \in Seq(Event)
    BY <2>1, ConcatProperties
  <2>3. Range(room.buffer \o es) = Range(room.buffer) \cup Range(es)
    BY <2>1, RangeConcatenation
  <2>4. /\ added \in TracerType /\ added.isFlushing /\ added.batch = room.batch
        /\ added.flushAgain = room.flushAgain /\ added.buffer = room.buffer \o es
    BY <1>1, <2>2 DEF TracerType
  <2> QED
    BY <2>3, <2>4 DEF Promised
<1>3. AddToBuffer(t, es) = IF total >= BatchSize THEN Flush(added, FALSE) ELSE added
  BY DEF AddToBuffer
<1>4. CASE total >= BatchSize
  <2>1. Flush(added, FALSE).isFlushing /\ Promised(added) \subseteq Promised(Flush(added, FALSE))
    <3> HIDE DEF added
    <3> QED
      BY <1>2, FlushKeeps
  <2> QED
    BY <1>1, <1>2, <1>3, <1>4, <2>1
<1>5. CASE ~(total >= BatchSize)
  BY <1>1, <1>2, <1>3, <1>5
<1> QED
  BY <1>4, <1>5

\* A drain that goes on sends what it promised beyond its batch, one that ends promised nothing.
LEMMA LoopKeeps ==
  ASSUME NEW t \in TracerType
  PROVE  Promised(t) \subseteq
           Range(t.batch) \cup IF Loop(t).isFlushing THEN Promised(Loop(t)) ELSE {}
<1>1. CASE ~t.flushAgain
  BY <1>1 DEF Promised
<1>2. CASE t.flushAgain
  <2>1. Loop(t) = Turn(t)
    BY <1>2 DEF Loop, Again
  <2>2. CASE t.buffer = <<>>
    <3>1. Range(t.buffer) = {}
      BY <2>2 DEF Range
    <3> QED
      BY <3>1 DEF Promised
  <2>3. CASE t.buffer /= <<>>
    <3>1. Turn(t).isFlushing /\ Turn(t).batch = t.buffer
      BY <2>3 DEF Turn, TracerType
    <3> QED
      BY <2>1, <3>1 DEF Promised
  <2> QED
    BY <2>2, <2>3
<1> QED
  BY <1>1, <1>2

\* A step of the application.
LEMMA RecordOwed ==
  ASSUME Owed, UNCHANGED <<ignoreFailures, caller, settled, due>>,
         tracer.isFlushing => /\ tracer'.isFlushing
                              /\ Promised(tracer) \subseteq Promised(tracer)'
  PROVE  Owed'
BY DEF Owed, Promised

\* A batch is settled.
LEMMA LoopOwed ==
  ASSUME DrainInv, Owed, Settle, Resume, UNCHANGED <<ignoreFailures, due>>,
         ignoreFailures => tracer' = Loop(tracer)
  PROVE  Owed'
<1> SUFFICES ASSUME ignoreFailures, NEW c \in Caller
             PROVE  /\ caller'[c] = "waiting" => tracer'.isFlushing
                    /\ due[c] \subseteq Range(settled') \cup
                         IF caller'[c] = "waiting" THEN Promised(tracer)' ELSE {}
  BY DEF Owed
<1>1. Range(settled') = Range(settled) \cup Range(tracer.batch)
  BY Types, RangeConcatenation DEF Settle
<1>2. Promised(tracer) \subseteq
        Range(tracer.batch) \cup IF tracer'.isFlushing THEN Promised(tracer') ELSE {}
  BY Types, LoopKeeps
<1>3. caller'[c] = IF ~tracer'.isFlushing /\ caller[c] = "waiting" THEN "done" ELSE caller[c]
  BY DEF Resume
<1>4. due[c] \subseteq Range(settled) \cup IF caller[c] = "waiting" THEN Promised(tracer) ELSE {}
  BY DEF Owed
<1>5. caller[c] = "waiting" => tracer.isFlushing
  BY DEF Owed
<1> QED
  BY <1>1, <1>2, <1>3, <1>4, <1>5 DEF Promised

LEMMA ShutdownOwed ==
  ASSUME DrainInv, Owed, NEW d \in Caller, Shutdown(d)
  PROVE  Owed'
<1> SUFFICES ASSUME ignoreFailures, NEW c \in Caller
             PROVE  /\ caller'[c] = "waiting" => tracer'.isFlushing
                    /\ due'[c] \subseteq Range(settled) \cup
                         IF caller'[c] = "waiting" THEN Promised(tracer') ELSE {}
  BY DEF Owed, Shutdown, Promised
<1>1. tracer' = Flush(tracer, TRUE) /\ tracer \in TracerType /\ BatchInFlight(tracer)
  BY Types DEF Shutdown
<1>2. /\ caller \in [Caller -> {"no", "waiting", "done"}]
      /\ due \in [Caller -> SUBSET Event]
  BY DEF DrainInv, TypeOK
<1>3. CASE c /= d
  <2>1. caller'[c] = caller[c] /\ due'[c] = due[c]
    BY <1>2, <1>3 DEF Shutdown
  <2>2. caller[c] = "waiting" =>
          tracer'.isFlushing /\ Promised(tracer) \subseteq Promised(tracer')
    BY <1>1, FlushKeeps DEF Owed
  <2> QED
    BY <2>1, <2>2 DEF Owed
<1>4. CASE c = d
  <2>1. /\ caller'[c] = IF tracer'.isFlushing THEN "waiting" ELSE "done"
        /\ due'[c] = Held(tracer)
    BY <1>2, <1>4 DEF Shutdown
  <2>2. CASE tracer.isFlushing
    BY <1>1, <2>1, <2>2, FlushKeeps
  <2>3. CASE ~tracer.isFlushing
    <3> DEFINE u == [tracer EXCEPT !.unhandled = @ \/ ~TRUE]
    <3>1. u \in TracerType /\ u.buffer = tracer.buffer
      BY <1>1 DEF TracerType
    <3>2. tracer' = Turn(u)
      BY <1>1, <2>3 DEF Flush
    <3>3. Held(tracer) = Range(tracer.buffer)
      BY <1>1, <2>3 DEF BatchInFlight, Held, Range
    <3>4. CASE tracer.buffer = <<>>
      <4>1. Held(tracer) = {}
        BY <3>3, <3>4 DEF Range
      <4> QED
        BY <2>1, <4>1
    <3>5. CASE tracer.buffer /= <<>>
      <4>1. tracer'.isFlushing /\ tracer'.batch = tracer.buffer
        BY <3>1, <3>2, <3>5 DEF Turn, TracerType
      <4> QED
        BY <2>1, <3>3, <4>1 DEF Promised
    <3> QED
      BY <3>4, <3>5
  <2> QED
    BY <2>2, <2>3
<1> QED
  BY <1>3, <1>4

LEMMA InitOwed == Init => Owed
BY DEF Init, Owed

LEMMA NextOwed == DrainInv /\ Owed /\ [Next]_vars => Owed'
<1> SUFFICES ASSUME DrainInv, Owed, [Next]_vars PROVE Owed'
  OBVIOUS
<1>1. ASSUME NEW s \in Span, NEW shape \in Shape, StartNode(s, shape) PROVE Owed'
  <2>1. Of(s, shape) \in Seq(Event)
    BY OfType
  <2> QED
    BY <1>1, <2>1, Types, AddKeeps, RecordOwed DEF StartNode, Promised
<1>2. ASSUME NEW s \in Span, NEW shape \in Shape, Log(s, shape) PROVE Owed'
  <2> DEFINE mid == AddToBuffer(tracer, Of(s, shape))
  <2>1. Of(s, shape) \in Seq(Event) /\ Of(s, <<"end">>) \in Seq(Event)
    BY OfType
  <2>2. mid \in TracerType /\ BatchInFlight(mid)
    BY <2>1, Types, AddStep
  <2>3. tracer.isFlushing => mid.isFlushing /\ Promised(tracer) \subseteq Promised(mid)
    BY <2>1, Types, AddKeeps
  <2>4. tracer' = AddToBuffer(mid, Of(s, <<"end">>))
    BY <1>2 DEF Log
  <2> HIDE DEF mid
  <2>5. mid.isFlushing => tracer'.isFlushing /\ Promised(mid) \subseteq Promised(tracer')
    BY <2>1, <2>2, <2>4, AddKeeps
  <2> QED
    BY <1>2, <2>3, <2>5, RecordOwed DEF Log, Promised
<1>3. ASSUME NEW s \in Span, EndSpan(s) PROVE Owed'
  <2>1. Of(s, <<"end">>) \in Seq(Event)
    BY OfType
  <2> QED
    BY <1>3, <2>1, Types, AddKeeps, RecordOwed DEF EndSpan, Promised
<1>4. CASE TimerFlush
  BY <1>4, Types, FlushKeeps, RecordOwed DEF TimerFlush, Promised
<1>5. ASSUME NEW c \in Caller, Shutdown(c) PROVE Owed'
  BY <1>5, ShutdownOwed
<1>6. CASE Finish
  BY <1>6 DEF Finish, history, Owed, Promised
<1>7. CASE BeforeExit
  BY <1>7, RecordOwed DEF BeforeExit, history
<1>8. CASE RequestOk
  BY <1>8, LoopOwed DEF RequestOk
<1>9. CASE Retry
  <2>1. tracer' = [tracer EXCEPT !.attempt = @ + 1] /\ tracer \in TracerType
    BY <1>9, Types DEF Retry
  <2>2. tracer'.isFlushing = tracer.isFlushing /\ Promised(tracer') = Promised(tracer)
    BY <2>1 DEF TracerType, Promised
  <2> QED
    BY <1>9, <2>2, RecordOwed DEF Retry, Promised
<1>10. CASE GiveUp
  BY <1>10, LoopOwed DEF GiveUp
<1>11. CASE UNCHANGED vars
  BY <1>11 DEF vars, Owed, Promised
<1> QED
  BY <1>1, <1>2, <1>3, <1>4, <1>5, <1>6, <1>7, <1>8, <1>9, <1>10, <1>11 DEF Next

\* When failures do not throw, shutdown() returns only after all that was held at its call is
\* settled, though it may have joined a drain whose batch was taken before.
THEOREM ShutdownsSettle == Spec => []ShutdownSettles
<1>1. Spec => []Owed
  BY InitOwed, NextOwed, Inductive, PTL DEF Spec
<1>2. Owed => ShutdownSettles
  BY DEF Owed, ShutdownSettles
<1> QED
  BY <1>1, <1>2, PTL

-----------------------------------------------------------------------------
(* The tracer as an EventSink *)

\* What is recorded is settled or held.
SinkInv ==
  /\ Range(recorded) = Range(settled) \cup Held(tracer)
  /\ Range(tracer.batch) \subseteq Held(tracer)
  /\ Range(recorded) \subseteq Event

LEMMA Kept == DrainInv => SinkInv
<1> SUFFICES ASSUME DrainInv PROVE SinkInv
  OBVIOUS
<1>1. Range(tracer.batch \o tracer.buffer) = Held(tracer)
  BY Types, RangeConcatenation DEF Held
<1>2. Range(settled \o Line(tracer)) = Range(settled) \cup Range(Line(tracer))
  BY Types, RangeConcatenation
<1>3. Range(recorded) \subseteq Event
  BY Types, RangeOfSeq
<1> QED
  BY <1>1, <1>2, <1>3, Types DEF SinkInv, Held, Line

LEMMA InitSink == Init => Sink!Init
<1> SUFFICES ASSUME Init PROVE Sink!Init
  OBVIOUS
<1>1. Range(<<>>) = {}
  BY DEF Range
<1> QED
  BY <1>1 DEF Init, Sink!Init

\* A step that records, or only moves events.
LEMMA RecordSink ==
  ASSUME SinkInv, SinkInv', process /= "crashed", process' /= "crashed",
         settled' = settled, Range(recorded) \subseteq Range(recorded')
  PROVE  Sink!Record
BY DEF SinkInv, Sink!Record

\* The batch of a request that is answered, or given up without a crash.
LEMMA SettleSink ==
  ASSUME DrainInv, SinkInv, SinkInv', process /= "crashed", process' /= "crashed",
         Settle, recorded' = recorded
  PROVE  Sink!Settle
<1>1. Range(settled') = Range(settled) \cup Range(tracer.batch)
  BY Types, RangeConcatenation DEF Settle
<1> QED
  BY <1>1 DEF SinkInv, Sink!Settle, Sink!Held

\* The batch whose rejection nobody handles.
LEMMA CrashSink ==
  ASSUME DrainInv, SinkInv, SinkInv', process /= "crashed", process' = "crashed",
         Settle, recorded' = recorded
  PROVE  Sink!Close
<1>1. Range(settled') = Range(settled) \cup Range(tracer.batch)
  BY Types, RangeConcatenation DEF Settle
<1> QED
  BY <1>1 DEF SinkInv, Sink!Close, Sink!Held

LEMMA GiveUpSink ==
  ASSUME DrainInv, SinkInv, SinkInv', GiveUp
  PROVE  Sink!Next
<1>1. process /= "crashed" /\ Settle /\ recorded' = recorded
  BY DEF GiveUp, Requesting
<1>2. CASE process' = "crashed"
  BY <1>1, <1>2, CrashSink DEF Sink!Next
<1>3. CASE process' /= "crashed"
  BY <1>1, <1>3, SettleSink DEF Sink!Next
<1> QED
  BY <1>2, <1>3

\* A step that extends what is recorded by some events.
LEMMA GrowSink ==
  ASSUME DrainInv, SinkInv, SinkInv', process /= "crashed", process' /= "crashed",
         settled' = settled, NEW es \in Seq(Event), recorded' = recorded \o es
  PROVE  Sink!Next
<1>1. Range(recorded') = Range(recorded) \cup Range(es)
  BY Types, RangeConcatenation
<1> QED
  BY <1>1, RecordSink DEF Sink!Next

LEMMA NextSink ==
  DrainInv /\ SinkInv /\ SinkInv' /\ [Next]_vars => [Sink!Next]_(Sink!vars)
<1> SUFFICES ASSUME DrainInv, SinkInv, SinkInv', [Next]_vars
             PROVE  [Sink!Next]_(Sink!vars)
  OBVIOUS
<1>1. ASSUME NEW s \in Span, NEW shape \in Shape, StartNode(s, shape) PROVE Sink!Next
  BY <1>1, OfType, GrowSink DEF StartNode, Alive
<1>2. ASSUME NEW s \in Span, NEW shape \in Shape, Log(s, shape) PROVE Sink!Next
  <2> DEFINE es == Of(s, shape) \o Of(s, <<"end">>)
  <2>1. Of(s, shape) \in Seq(Event) /\ Of(s, <<"end">>) \in Seq(Event) /\ recorded \in Seq(Event)
    BY OfType, Types
  <2>2. es \in Seq(Event) /\ recorded' = recorded \o es
    BY <1>2, <2>1, Extends DEF Log
  <2> HIDE DEF es
  <2> QED
    BY <1>2, <2>2, GrowSink DEF Log, Alive
<1>3. ASSUME NEW s \in Span, EndSpan(s) PROVE Sink!Next
  BY <1>3, OfType, GrowSink DEF EndSpan, Alive
<1>4. CASE TimerFlush
  BY <1>4, RecordSink DEF TimerFlush, Sink!Next
<1>5. ASSUME NEW c \in Caller, Shutdown(c) PROVE Sink!Next
  BY <1>5, RecordSink DEF Shutdown, Sink!Next
<1>6. CASE Finish
  BY <1>6, RecordSink DEF Finish, Alive, history, Sink!Next
<1>7. CASE BeforeExit
  BY <1>7, RecordSink DEF BeforeExit, history, Sink!Next
<1>8. CASE RequestOk
  BY <1>8, SettleSink DEF RequestOk, Requesting, Sink!Next
<1>9. CASE Retry
  BY <1>9, RecordSink DEF Retry, Requesting, Sink!Next
<1>10. CASE GiveUp
  BY <1>10, GiveUpSink
<1>11. CASE UNCHANGED vars
  BY <1>11 DEF vars, Held, Sink!vars
<1> QED
  BY <1>1, <1>2, <1>3, <1>4, <1>5, <1>6, <1>7, <1>8, <1>9, <1>10, <1>11 DEF Next

\* The tracer implements EventSink (its safety part): an event leaves it by being settled, and is
\* lost only by the crash of the process at a rejection that nobody handles.
THEOREM ImplementsEventSink == Spec => Sink!Spec
<1>1. Spec => []SinkInv
  BY Kept, Inductive, PTL
<1> QED
  BY <1>1, Inductive, InitSink, NextSink, PTL DEF Spec, Sink!Spec
=============================================================================
