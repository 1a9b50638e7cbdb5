--------------------------- MODULE IngestionProofs ---------------------------
(***************************************************************************)
(* Theorems about Ingestion, on either bus, for any batches, traces,       *)
(* tables, requests at once, and number of retries and failures.           *)
(***************************************************************************)
EXTENDS Ingestion, SequenceTheorems, WellFoundedInduction, TLAPS

-----------------------------------------------------------------------------
(* Sequences as the deliveries use them. *)

\* An appended event joins the others.
LEMMA RangeAppend ==
  ASSUME NEW S, NEW s \in Seq(S), NEW e \in S
  PROVE  /\ Append(s, e) \in Seq(S)
         /\ Append(s, e) /= <<>>
         /\ Range(Append(s, e)) = Range(s) \union {e}
<1> DEFINE last == <<e>>
<1>1. /\ Append(s, e) \in Seq(S) /\ Append(s, e) /= <<>>
      /\ Append(s, e) = s \o last
  BY AppendProperties, AppendIsConcat
<1>2. last \in Seq(S) /\ Range(last) = {e}
  BY DEF Range
<1> HIDE DEF last
<1>3. Range(s \o last) = Range(s) \union Range(last)
  BY <1>2, RangeConcatenation
<1> QED BY <1>1, <1>2, <1>3

\* The first event is one of them, and the others are behind it.
LEMMA RangeHeadTail ==
  ASSUME NEW S, NEW s \in Seq(S), s /= <<>>
  PROVE  /\ Head(s) \in S
         /\ Tail(s) \in Seq(S)
         /\ Range(s) = {Head(s)} \union Range(Tail(s))
         /\ (Len(s) > 1) <=> (Tail(s) /= <<>>)
<1>1. /\ Head(s) \in S /\ Tail(s) \in Seq(S) /\ Len(Tail(s)) = Len(s) - 1
      /\ \A i \in 1 .. Len(Tail(s)) : Tail(s)[i] = s[i + 1]
  BY HeadTailProperties
<1>5. (Len(s) > 1) <=> (Tail(s) /= <<>>)
  <2>1. Len(s) \in Nat \ {0} /\ (Tail(s) /= <<>> => Len(Tail(s)) \in Nat \ {0})
    BY <1>1, EmptySeq
  <2>2. Tail(s) = <<>> => Len(Tail(s)) = 0
    BY EmptySeq
  <2> QED BY <1>1, <2>1, <2>2
<1>2. /\ Range(s) = {s[i] : i \in 1 .. Len(s)}
      /\ Range(Tail(s)) = {Tail(s)[i] : i \in 1 .. Len(Tail(s))}
  BY <1>1, RangeEquality
<1>3. ASSUME NEW x \in Range(s) PROVE x \in {Head(s)} \union Range(Tail(s))
  <2>1. PICK i \in 1 .. Len(s) : x = s[i]
    BY <1>2, <1>3
  <2>2. CASE i = 1
    BY <2>1, <2>2
  <2>3. CASE i > 1
    <3>1. i - 1 \in 1 .. Len(Tail(s)) /\ Tail(s)[i - 1] = s[i]
      BY <1>1, <2>3
    <3> QED BY <1>2, <2>1, <3>1
  <2> QED BY <2>1, <2>2, <2>3
<1>4. ASSUME NEW x \in {Head(s)} \union Range(Tail(s)) PROVE x \in Range(s)
  <2>1. CASE x = Head(s)
    BY <1>2, <2>1
  <2>2. CASE x \in Range(Tail(s))
    <3>1. PICK i \in 1 .. Len(Tail(s)) : x = Tail(s)[i]
      BY <1>2, <2>2
    <3>2. i + 1 \in 1 .. Len(s) /\ s[i + 1] = x
      BY <1>1, <3>1
    <3> QED BY <1>2, <3>2
  <2> QED BY <1>4, <2>1, <2>2
<1> QED BY <1>1, <1>3, <1>4, <1>5

\* A run of n events from the m-th on.
LEMMA SubSeqRun ==
  ASSUME NEW S, NEW s \in Seq(S), NEW m \in Nat, NEW n \in Nat, m + n <= Len(s)
  PROVE  /\ SubSeq(s, m + 1, m + n) \in Seq(S)
         /\ Len(SubSeq(s, m + 1, m + n)) = n
         /\ \A i \in 1 .. n : SubSeq(s, m + 1, m + n)[i] = s[m + i]
<1> DEFINE a == m + 1
           z == m + n
<1>1. a \in Int /\ z \in Int /\ z - a + 1 = n /\ (a <= z <=> n /= 0)
  BY DEF a, z
<1>2. \A i \in a .. z : s[i] \in S
  BY LenProperties
<1> HIDE DEF a, z
<1>3. /\ SubSeq(s, a, z) \in Seq(S)
      /\ Len(SubSeq(s, a, z)) = IF a <= z THEN z - a + 1 ELSE 0
      /\ \A i \in 1 .. z - a + 1 : SubSeq(s, a, z)[i] = s[a + i - 1]
  BY <1>1, <1>2, SubSeqProperties
<1>4. \A i \in 1 .. n : a + i - 1 = m + i
  BY DEF a
<1>5. \A i \in 1 .. n : SubSeq(s, a, z)[i] = s[m + i]
  BY <1>1, <1>3, <1>4
<1>6. Len(SubSeq(s, a, z)) = n
  BY <1>1, <1>3
<1> QED BY <1>3, <1>5, <1>6 DEF a, z

-----------------------------------------------------------------------------
(* Deliveries. *)

\* A delivery has the events that its next step takes one of.
GoodJob(c, j) ==
  /\ j \in Job(c)
  /\ j.pc = "check" => j.events /= <<>>
  /\ j.pc \in {"handle", "await", "mark"} => j.fresh /= <<>>
  /\ c = "ingest" /\ j.pc \in {"handle", "await"} => j.todo /= <<>>

JobsInv ==
  /\ job \in [Lane -> [Consumer -> Job("ingest") \union Job("rebuild")]]
  /\ \A l \in Lane, c \in Consumer : GoodJob(c, job[l][c])

\* An idle delivery has nothing to lack.
LEMMA IdleGood ==
  \A c \in Consumer : GoodJob(c, Idle) /\ Idle.pc = "idle"
  BY DEF GoodJob, Idle, Job

\* A new delivery of some events has them to check.
LEMMA DeliveryGood ==
  ASSUME NEW c \in Consumer, NEW events \in Seq(EventOf(c)), events /= <<>>
  PROVE  /\ GoodJob(c, Delivery(events))
         /\ Delivery(events).pc = "check"
         /\ Delivery(events).events = events
         /\ Delivery(events).fresh = <<>>
         /\ Delivery(events).written = 0
         /\ Delivery(events).size = Len(events)
<1>1. Idle \in Job(c) /\ Idle.fresh = <<>> /\ Idle.written = 0
  BY DEF Idle, Job
<1>2. Len(events) \in Nat
  BY LenProperties
<1>3. /\ Delivery(events) \in Job(c) /\ Delivery(events).pc = "check"
      /\ Delivery(events).events = events /\ Delivery(events).size = Len(events)
      /\ Delivery(events).fresh = Idle.fresh /\ Delivery(events).written = Idle.written
  BY <1>1, <1>2 DEF Delivery, Job
<1> QED BY <1>1, <1>3 DEF GoodJob

\* Replacing one delivery by a good one keeps the others as they are.
LEMMA PutGood ==
  ASSUME JobsInv, NEW l \in Lane, NEW c \in Consumer, NEW j, GoodJob(c, j), Put(l, c, j)
  PROVE  /\ JobsInv'
         /\ \A m \in Lane, d \in Consumer :
              job'[m][d] = IF m = l /\ d = c THEN j ELSE job[m][d]
  BY DEF JobsInv, Put, GoodJob, Consumer

\* So does replacing both of a lane.
LEMMA PutBothGood ==
  ASSUME JobsInv, NEW l \in Lane, NEW i, NEW r, GoodJob("ingest", i), GoodJob("rebuild", r),
         PutBoth(l, i, r)
  PROVE  /\ JobsInv'
         /\ \A m \in Lane, d \in Consumer :
              job'[m][d] = IF m # l THEN job[m][d] ELSE IF d = "ingest" THEN i ELSE r
  BY DEF JobsInv, PutBoth, GoodJob, Consumer

-----------------------------------------------------------------------------
(* The shape of the state: which deliveries and rebuilds wait for which.     *)

\* On the in-process bus the triggers are delivered inside the ingest handler.
Nested ==
  \A l \in Lane :
    /\ job[l]["ingest"].pc = "await" => ~Durable
    /\ ~Durable /\ job[l]["rebuild"].pc /= "idle" => job[l]["ingest"].pc = "await"

\* A running rebuild is the first of its queue, and a delivery in a queue waits for it once.
Queued ==
  \A k \in TraceKey :
    /\ rebuilds[k].running => rebuilds[k].queue /= <<>>
    /\ \A i \in 1 .. Len(rebuilds[k].queue) :
         LET l == rebuilds[k].queue[i]
         IN l /= Nobody =>
              /\ job[l]["rebuild"].pc = "await"
              /\ k \in job[l]["rebuild"].pending
              /\ \A n \in 1 .. Len(rebuilds[k].queue) : rebuilds[k].queue[n] = l => n = i

Shape == TypeOK /\ JobsInv /\ Nested /\ Queued

\* The next state of a delivery, for the steps that change one.

\* After the check of the last event a fresh one is left for the handler, if any.
LEMMA CheckGood ==
  ASSUME NEW c \in Consumer, NEW j, GoodJob(c, j), j.pc = "check"
  PROVE  LET fresh == Filtered(c, j.fresh, Head(j.events))
         IN GoodJob(c, [j EXCEPT !.events = Tail(j.events), !.fresh = fresh, !.todo = fresh,
                                 !.pc = IF Len(j.events) > 1 THEN "check"
                                        ELSE IF fresh = <<>> THEN "end" ELSE "handle"])
<1> DEFINE fresh == Filtered(c, j.fresh, Head(j.events))
<1>1. j \in Job(c) /\ j.events \in Seq(EventOf(c)) /\ j.fresh \in Seq(EventOf(c))
      /\ j.events /= <<>>
  BY DEF GoodJob, Job
<1>2. /\ Head(j.events) \in EventOf(c) /\ Tail(j.events) \in Seq(EventOf(c))
      /\ (Len(j.events) > 1) <=> (Tail(j.events) /= <<>>)
  BY <1>1, RangeHeadTail
<1>3. fresh \in Seq(EventOf(c))
  BY <1>1, <1>2, RangeAppend DEF Filtered
<1> HIDE DEF fresh
<1>4. GoodJob(c, [j EXCEPT !.events = Tail(j.events), !.fresh = fresh, !.todo = fresh,
                           !.pc = IF Len(j.events) > 1 THEN "check"
                                  ELSE IF fresh = <<>> THEN "end" ELSE "handle"])
  BY <1>1, <1>2, <1>3 DEF GoodJob, Job
<1> QED BY <1>4 DEF fresh

\* After a mark there is another event to mark, or the delivery ends.
LEMMA MarkGood ==
  ASSUME NEW c \in Consumer, NEW j, GoodJob(c, j), j.pc = "mark"
  PROVE  GoodJob(c, [j EXCEPT !.fresh = Tail(j.fresh),
                              !.pc = IF Len(j.fresh) > 1 THEN "mark" ELSE "end"])
<1>1. j \in Job(c) /\ j.fresh \in Seq(EventOf(c)) /\ j.fresh /= <<>>
  BY DEF GoodJob, Job
<1>2. /\ Tail(j.fresh) \in Seq(EventOf(c))
      /\ (Len(j.fresh) > 1) <=> (Tail(j.fresh) /= <<>>)
  BY <1>1, RangeHeadTail
<1> QED BY <1>1, <1>2 DEF GoodJob, Job

\* An insert leaves the batches to handle alone.
LEMMA InsertGood ==
  ASSUME NEW j, GoodJob("ingest", j)
  PROVE  GoodJob("ingest", [j EXCEPT !.written = @ + 1])
<1>1. j \in Job("ingest") /\ j.written + 1 \in Nat
  BY DEF GoodJob, Job
<1> QED BY <1>1 DEF GoodJob, Job

\* After a batch there is another one, or something to mark.
LEMMA PublishedGood ==
  ASSUME NEW j, GoodJob("ingest", j), j.pc \in {"handle", "await"}
  PROVE  GoodJob("ingest", Published(j))
<1>1. j \in Job("ingest") /\ j.todo \in Seq(EventOf("ingest")) /\ j.todo /= <<>> /\ j.fresh /= <<>>
  BY DEF GoodJob, Job
<1>2. /\ Tail(j.todo) \in Seq(EventOf("ingest"))
      /\ (Len(j.todo) > 1) <=> (Tail(j.todo) /= <<>>)
  BY <1>1, RangeHeadTail
<1> QED BY <1>1, <1>2 DEF GoodJob, Job, Published

\* A batch has a trigger (it is never empty).
LEMMA TriggersType ==
  ASSUME NEW b \in Batch
  PROVE  Triggers(b) \in Seq(Trigger) /\ Triggers(b) /= <<>>
<1>1. Traces[b] \in Seq(TraceId) /\ Traces[b] /= <<>>
  BY BatchAssumption
<1>2. /\ DOMAIN Traces[b] = 1 .. Len(Traces[b]) /\ Len(Traces[b]) \in Nat \ {0}
      /\ \A i \in 1 .. Len(Traces[b]) : Traces[b][i] \in TraceId
  BY <1>1, LenProperties, EmptySeq
<1>3. \A i \in DOMAIN Traces[b] : <<b, Traces[b][i]>> \in Trigger
  BY <1>2 DEF Trigger, Range
<1>4. Triggers(b) \in [1 .. Len(Traces[b]) -> Trigger]
  BY <1>2, <1>3 DEF Triggers
<1>5. Triggers(b) \in Seq(Trigger) /\ Len(Triggers(b)) = Len(Traces[b])
  BY <1>2, <1>4
<1> QED BY <1>2, <1>5, EmptySeq

\* A trigger asks for the rebuild of one of the traces.
LEMMA KeysType == \A e \in Trigger : KeyOf(e) \in TraceKey
  BY DEF TraceKey

\* A running rebuild is the first of its queue; a lane waits for it, or nobody.
LEMMA QueueType ==
  ASSUME Shape, NEW k \in TraceKey
  PROVE  /\ rebuilds[k].queue \in Seq(Lane \union {Nobody})
         /\ rebuilds[k].running => /\ rebuilds[k].queue /= <<>>
                                  /\ Waiter(k) \in Lane \union {Nobody}
<1>1. rebuilds[k].queue \in Seq(Lane \union {Nobody})
  BY DEF Shape, TypeOK
<1>2. rebuilds[k].running => rebuilds[k].queue /= <<>>
  BY DEF Shape, Queued
<1>3. rebuilds[k].queue /= <<>> => Head(rebuilds[k].queue) \in Lane \union {Nobody}
  BY <1>1, HeadTailProperties
<1> QED BY <1>1, <1>2, <1>3 DEF Waiter

-----------------------------------------------------------------------------
\* Each step leaves deliveries that have what their next step takes.
LEMMA JobsStep ==
  ASSUME Shape, [Next]_vars
  PROVE  JobsInv'
<1> USE DEF Shape
<1>1. ASSUME NEW b \in Batch, NEW l \in Lane, PostInProcess(b, l) PROVE JobsInv'
  <2>1. <<b>> \in Seq(EventOf("ingest")) /\ <<b>> /= <<>>
    BY DEF EventOf
  <2>2. GoodJob("ingest", Delivery(<<b>>))
    BY <2>1, DeliveryGood DEF Consumer
  <2> QED BY <1>1, <2>2, PutGood DEF PostInProcess, Consumer
<1>2. ASSUME NEW b \in Batch, PostToBroker(b) \/ LoseRequest(b) PROVE JobsInv'
  BY <1>2 DEF PostToBroker, LoseRequest, JobsInv
<1>3. ASSUME NEW l \in Lane, NEW c \in Consumer, Deliver(l, c) PROVE JobsInv'
  <2>1. PICK n \in 1 .. MaxPoll :
          /\ committed[c] + n <= Len(log[c])
          /\ Put(l, c, Delivery(SubSeq(log[c], committed[c] + 1, committed[c] + n)))
    BY <1>3 DEF Deliver
  <2>2. log[c] \in Seq(EventOf(c)) /\ committed[c] \in Nat /\ n \in Nat \ {0}
    BY BoundAssumption DEF TypeOK
  <2>3. \A i \in committed[c] + 1 .. committed[c] + n : log[c][i] \in EventOf(c)
    BY <2>1, <2>2, LenProperties
  <2> DEFINE run == SubSeq(log[c], committed[c] + 1, committed[c] + n)
  <2>4. run \in Seq(EventOf(c)) /\ Len(run) = n
    BY <2>2, <2>3, SubSeqProperties
  <2>5. run /= <<>>
    BY <2>2, <2>4, EmptySeq
  <2> QED BY <2>1, <2>4, <2>5, DeliveryGood, PutGood
<1>4. ASSUME NEW l \in Lane, NEW c \in Consumer, Check(l, c) PROVE JobsInv'
  <2>1. GoodJob(c, job[l][c]) /\ job[l][c].pc = "check"
    BY <1>4 DEF JobsInv, Check
  <2> QED BY <1>4, <2>1, CheckGood, PutGood DEF Check
<1>5. ASSUME NEW l \in Lane, NEW c \in Consumer, Mark(l, c) PROVE JobsInv'
  <2>1. GoodJob(c, job[l][c]) /\ job[l][c].pc = "mark"
    BY <1>5 DEF JobsInv, Mark
  <2> QED BY <1>5, <2>1, MarkGood, PutGood DEF Mark
<1>6. ASSUME NEW l \in Lane, NEW c \in Consumer, End(l, c) PROVE JobsInv'
  <2>1. CASE Durable \/ c = "ingest"
    BY <1>6, <2>1, IdleGood, PutGood DEF End
  <2>2. CASE ~Durable /\ c = "rebuild"
    <3>1. job[l]["ingest"].pc = "await" /\ GoodJob("ingest", job[l]["ingest"])
      BY <1>6, <2>2 DEF End, Nested, JobsInv, Consumer
    <3> QED BY <1>6, <2>2, <3>1, IdleGood, PublishedGood, PutBothGood DEF End, Consumer
  <2> QED BY <2>1, <2>2 DEF Consumer
<1>7. ASSUME NEW l \in Lane, NEW c \in Consumer, Throw(l, c) PROVE JobsInv'
  BY <1>7, IdleGood, PutGood, PutBothGood DEF Throw, Consumer
<1>8. ASSUME NEW l \in Lane, NEW b \in Batch, Insert(l, b) PROVE JobsInv'
  <2> DEFINE j == job[l]["ingest"]
  <2>1. GoodJob("ingest", j)
    BY DEF JobsInv, Consumer
  <2>2. GoodJob("ingest", [j EXCEPT !.written = @ + 1])
    BY <2>1, InsertGood
  <2> QED BY <1>8, <2>2, PutGood DEF Insert, Consumer
<1>9. ASSUME NEW l \in Lane, NEW b \in Batch, FailInsert(l, b) PROVE JobsInv'
  BY <1>9, <1>7 DEF FailInsert, Consumer
<1>10. ASSUME NEW l \in Lane, NEW b \in Batch, PublishTriggers(l, b) PROVE JobsInv'
  <2> DEFINE j == job[l]["ingest"]
  <2>1. GoodJob("ingest", j) /\ j.pc = "handle"
    BY <1>10 DEF JobsInv, Consumer, PublishTriggers, Writing
  <2>2. CASE Durable
    BY <1>10, <2>1, <2>2, PublishedGood, PutGood DEF PublishTriggers, Consumer
  <2>3. CASE ~Durable
    <3>1. GoodJob("ingest", [j EXCEPT !.pc = "await"])
      BY <2>1 DEF GoodJob, Job
    <3>2. GoodJob("rebuild", Delivery(Triggers(b)))
      BY TriggersType, DeliveryGood DEF Consumer, EventOf
    <3> QED BY <1>10, <2>3, <3>1, <3>2, PutBothGood DEF PublishTriggers
  <2> QED BY <2>2, <2>3
<1>11. ASSUME NEW l \in Lane, NEW b \in Batch, FailPublish(l, b) \/ RefusePublish(l, b)
       PROVE JobsInv'
  BY <1>11, <1>7 DEF FailPublish, RefusePublish, Consumer
<1>12. ASSUME NEW l \in Lane, Enqueue(l) PROVE JobsInv'
  <2> DEFINE j == job[l]["rebuild"]
             keys == {KeyOf(e) : e \in LastPerTrace(j.fresh)}
  <2>1. GoodJob("rebuild", j) /\ j.pc = "handle"
    BY <1>12 DEF JobsInv, Consumer, Enqueue
  <2>2. j.fresh \in Seq(Trigger)
    BY <2>1 DEF GoodJob, Job, EventOf
  <2>3. keys \subseteq TraceKey
    BY <2>2, KeysType, LenProperties DEF LastPerTrace
  <2> HIDE DEF keys
  <2>4. GoodJob("rebuild", [j EXCEPT !.pending = keys, !.pc = "await"])
    BY <2>1, <2>3 DEF GoodJob, Job
  <2> QED BY <1>12, <2>4, PutGood DEF Enqueue, Consumer, keys
<1>13. ASSUME NEW k \in TraceKey, StartRebuild(k) PROVE JobsInv'
  BY <1>13 DEF StartRebuild, JobsInv
<1>14. ASSUME NEW k \in TraceKey, EndRebuild(k) PROVE JobsInv'
  <2>1. CASE Waiter(k) = Nobody
    BY <1>14, <2>1 DEF EndRebuild, JobsInv
  <2>2. CASE Waiter(k) /= Nobody
    <3> DEFINE l == Waiter(k)
               j == job[l]["rebuild"]
               left == j.pending \ {k}
    <3>1. /\ l \in Lane /\ rebuilds[k].queue \in Seq(Lane \union {Nobody})
          /\ rebuilds[k].queue /= <<>>
      <4>1. rebuilds[k].queue \in Seq(Lane \union {Nobody}) /\ rebuilds[k].queue /= <<>>
        BY <1>14, QueueType DEF EndRebuild
      <4>2. l \in Lane \union {Nobody}
        BY <4>1, HeadTailProperties DEF Waiter
      <4> QED BY <2>2, <4>1, <4>2
    <3>2. GoodJob("rebuild", j) /\ j.pc = "await"
      BY <2>2, <3>1, EmptySeq DEF Queued, JobsInv, Waiter, Consumer
    <3>3. GoodJob("rebuild", [j EXCEPT !.pending = left,
                                       !.pc = IF left = {} THEN "mark" ELSE "await"])
      BY <3>2 DEF GoodJob, Job
    <3> QED BY <1>14, <2>2, <3>1, <3>3, PutGood DEF EndRebuild, Consumer
  <2> QED BY <2>1, <2>2
<1>15. ASSUME NEW k \in TraceKey, FailRebuild(k) PROVE JobsInv'
  <2>1. CASE Waiter(k) = Nobody
    BY <1>15, <2>1 DEF FailRebuild, JobsInv
  <2>2. CASE Waiter(k) /= Nobody
    <3>1. Waiter(k) \in Lane
      BY <1>15, <2>2, QueueType DEF FailRebuild
    <3> QED BY <1>15, <2>2, <3>1, <1>7 DEF FailRebuild, Consumer
  <2> QED BY <2>1, <2>2
<1>16. CASE Crash
  BY <1>16, IdleGood DEF Crash, JobsInv, GoodJob, Consumer
<1>17. CASE Expire
  BY <1>17 DEF Expire, JobsInv
<1>18. CASE UNCHANGED vars
  BY <1>18 DEF vars, JobsInv
<1> QED BY <1>1, <1>2, <1>3, <1>4, <1>5, <1>6, <1>8, <1>9, <1>10, <1>11, <1>12, <1>13, <1>14,
           <1>15, <1>16, <1>17, <1>18 DEF Next, Request, Step, Break

-----------------------------------------------------------------------------
\* The types of the variables other than job.
LEMMA TypeStep ==
  ASSUME Shape, [Next]_vars
  PROVE  TypeOK'
<1> SUFFICES ASSUME JobsInv' PROVE TypeOK'
  BY JobsStep
<1> USE BoundAssumption, SwitchAssumption DEF Shape
<1>0. /\ job' \in [Lane -> [Consumer -> Job("ingest") \union Job("rebuild")]]
      /\ \A l \in Lane, c \in Consumer : job'[l][c] \in Job(c)
  BY DEF JobsInv, GoodJob
<1>a. /\ \A l \in Lane, state \in {"acked", "failed"} :
           Reply(l, state) \in [Batch -> [state : {"new", "waiting", "acked", "failed"},
                                          via : Lane \union {Nobody}, tries : 0 .. MaxTries]]
      /\ \A l \in Lane, b \in Batch : Copied(l, b) \in [Batch -> [Table -> Nat]]
  <2>1. \A b \in Batch : sdk[b] \in [state : {"new", "waiting", "acked", "failed"},
                                     via : Lane \union {Nobody}, tries : 0 .. MaxTries]
    BY DEF TypeOK
  <2>2. ASSUME NEW l \in Lane, NEW b \in Batch PROVE Copied(l, b) \in [Batch -> [Table -> Nat]]
    <3>1. stored \in [Batch -> [Table -> Nat]]
      BY DEF TypeOK
    <3> DEFINE x == NextTable(l, b)
               n == IF stored[b][x] < CopyCap THEN stored[b][x] + 1 ELSE stored[b][x]
    <3>2. Copied(l, b) = [stored EXCEPT ![b] = [stored[b] EXCEPT ![x] = n]]
      BY <3>1 DEF Copied
    <3>3. stored[b] \in [Table -> Nat] /\ (x \in Table => n \in Nat)
      BY <3>1 DEF CopyCap
    <3> HIDE DEF x, n
    <3>4. [stored[b] EXCEPT ![x] = n] \in [Table -> Nat]
      BY <3>3
    <3> QED BY <3>1, <3>2, <3>4
  <2> QED BY <2>1, <2>2 DEF Reply, TypeOK
<1>b. ASSUME NEW b \in Batch,
             \/ log' = log
             \/ log' = [log EXCEPT !["ingest"] = Append(log["ingest"], b)]
             \/ log' = [log EXCEPT !["rebuild"] = log["rebuild"] \o Triggers(b)]
      PROVE  /\ log' \in [Consumer -> Seq(Batch \union Trigger)]
             /\ \A c \in Consumer : log'[c] \in Seq(EventOf(c))
  <2>1. /\ log["rebuild"] \in Seq(Trigger) /\ log["ingest"] \in Seq(Batch)
        /\ \E T : log \in [Consumer -> T]
    BY DEF TypeOK, EventOf, Consumer
  <2>2. /\ log["rebuild"] \o Triggers(b) \in Seq(Trigger)
        /\ Append(log["ingest"], b) \in Seq(Batch)
    BY <2>1, TriggersType, ConcatProperties, AppendProperties
  <2>3. Seq(Batch) \subseteq Seq(Batch \union Trigger) /\ Seq(Trigger) \subseteq Seq(Batch \union Trigger)
    BY SeqMonotonic
  <2>4. DOMAIN log' = Consumer /\ log'["rebuild"] \in Seq(Trigger) /\ log'["ingest"] \in Seq(Batch)
    BY <1>b, <2>1, <2>2 DEF Consumer
  <2>5. log' = [c \in Consumer |-> log'[c]]
    BY <1>b, <2>1
  <2> QED BY <2>3, <2>4, <2>5 DEF Consumer, EventOf
<1>c. ASSUME NEW l \in Lane, NEW c \in Consumer, Throw(l, c)
      PROVE  /\ sdk' \in [Batch -> [state : {"new", "waiting", "acked", "failed"},
                                    via : Lane \union {Nobody}, tries : 0 .. MaxTries]]
             /\ committed' \in [Consumer -> Nat]
  BY <1>a, <1>c DEF Throw, TypeOK
<1>e. Fault => faults' \in 0 .. MaxFaults
  BY DEF Fault, TypeOK
<1>d. \A k \in TraceKey : rebuilds[k].queue /= <<>> =>
        Dequeued(k) \in [queue : Seq(Lane \union {Nobody}), running : BOOLEAN, read : SUBSET Row]
  BY HeadTailProperties DEF Dequeued, TypeOK
<1> DEFINE Sdk == [Batch -> [state : {"new", "waiting", "acked", "failed"},
                             via : Lane \union {Nobody}, tries : 0 .. MaxTries]]
           Queue == [queue : Seq(Lane \union {Nobody}), running : BOOLEAN, read : SUBSET Row]
<1>f. sdk \in Sdk /\ rebuilds \in [TraceKey -> Queue]
  BY DEF TypeOK
<1>1. ASSUME NEW b \in Batch, NEW l \in Lane, PostInProcess(b, l) PROVE TypeOK'
  <2>1. sdk' \in Sdk
    BY <1>1, <1>f DEF PostInProcess, CanPost
  <2> QED BY <1>0, <1>1, <2>1 DEF PostInProcess, TypeOK
<1>2. ASSUME NEW b \in Batch, PostToBroker(b) PROVE TypeOK'
  <2>1. sdk' \in Sdk
    BY <1>2, <1>f DEF PostToBroker, CanPost
  <2>2. log' = log \/ log' = [log EXCEPT !["ingest"] = Append(log["ingest"], b)]
    BY <1>2 DEF PostToBroker
  <2>3. /\ log' \in [Consumer -> Seq(Batch \union Trigger)]
        /\ \A c \in Consumer : log'[c] \in Seq(EventOf(c))
    BY <1>b, <2>2
  <2>4. producer' \in {"none", "ready", "broken"}
    BY <1>2 DEF PostToBroker, Connected, Refused
  <2> QED BY <1>0, <1>2, <2>1, <2>3, <2>4 DEF PostToBroker, TypeOK
<1>3. ASSUME NEW b \in Batch, LoseRequest(b) PROVE TypeOK'
  <2> DEFINE r == [sdk[b] EXCEPT !.state = "failed", !.via = Nobody]
  <2>1. sdk' = [sdk EXCEPT ![b] = r]
    BY <1>3, <1>f DEF LoseRequest
  <2>2. r \in [state : {"new", "waiting", "acked", "failed"}, via : Lane \union {Nobody},
               tries : 0 .. MaxTries]
    BY <1>f
  <2> HIDE DEF r
  <2>3. sdk' \in Sdk
    BY <1>f, <2>1, <2>2
  <2> QED BY <1>0, <1>3, <2>3 DEF LoseRequest, TypeOK
<1>4. ASSUME NEW l \in Lane, NEW c \in Consumer, Deliver(l, c) \/ Check(l, c) PROVE TypeOK'
  BY <1>0, <1>4 DEF Deliver, Check, TypeOK
<1>5. ASSUME NEW l \in Lane, NEW c \in Consumer, Mark(l, c) PROVE TypeOK'
  <2>1. job[l][c] \in Job(c) /\ job[l][c].fresh /= <<>>
    BY <1>5 DEF JobsInv, GoodJob, Mark
  <2>2. Head(job[l][c].fresh) \in EventOf(c)
    BY <2>1, HeadTailProperties DEF Job
  <2>3. EventOf(c) \subseteq Batch \union Trigger
    BY DEF EventOf
  <2> QED BY <1>0, <1>5, <2>2, <2>3 DEF Mark, TypeOK
<1>6. ASSUME NEW l \in Lane, NEW c \in Consumer, End(l, c) PROVE TypeOK'
  <2>1. job[l][c].size \in Nat
    BY DEF JobsInv, GoodJob, Job
  <2>2. committed' \in [Consumer -> Nat]
    BY <1>6, <2>1 DEF End, TypeOK
  <2>3. sdk' \in Sdk
    BY <1>6, <1>a DEF End, TypeOK
  <2> QED BY <1>0, <1>6, <2>2, <2>3 DEF End, TypeOK
<1>7. ASSUME NEW l \in Lane, NEW b \in Batch, Insert(l, b) PROVE TypeOK'
  BY <1>0, <1>7, <1>a DEF Insert, TypeOK
<1>8. ASSUME NEW l \in Lane, NEW b \in Batch, FailInsert(l, b) PROVE TypeOK'
  <2>1. stored' \in [Batch -> [Table -> Nat]]
    BY <1>8, <1>a DEF FailInsert, TypeOK
  <2>2. sdk' \in Sdk /\ committed' \in [Consumer -> Nat]
    BY <1>8, <1>c DEF FailInsert, Consumer
  <2> QED BY <1>0, <1>8, <1>e, <2>1, <2>2 DEF FailInsert, TypeOK
<1>9. ASSUME NEW l \in Lane, NEW b \in Batch, PublishTriggers(l, b) PROVE TypeOK'
  <2>1. log' = log \/ log' = [log EXCEPT !["rebuild"] = log["rebuild"] \o Triggers(b)]
    BY <1>9 DEF PublishTriggers
  <2>2. /\ log' \in [Consumer -> Seq(Batch \union Trigger)]
        /\ \A c \in Consumer : log'[c] \in Seq(EventOf(c))
    BY <1>b, <2>1
  <2>3. producer' \in {"none", "ready", "broken"}
    BY <1>9 DEF PublishTriggers, Connected, TypeOK
  <2> QED BY <1>0, <1>9, <2>2, <2>3 DEF PublishTriggers, TypeOK
<1>10. ASSUME NEW l \in Lane, NEW b \in Batch, FailPublish(l, b) PROVE TypeOK'
  <2>1. log' = log \/ log' = [log EXCEPT !["rebuild"] = log["rebuild"] \o Triggers(b)]
    BY <1>10 DEF FailPublish
  <2>2. /\ log' \in [Consumer -> Seq(Batch \union Trigger)]
        /\ \A c \in Consumer : log'[c] \in Seq(EventOf(c))
    BY <1>b, <2>1
  <2>3. sdk' \in Sdk /\ committed' \in [Consumer -> Nat]
    BY <1>10, <1>c DEF FailPublish, Consumer
  <2>4. producer' = "ready" /\ faults' \in 0 .. MaxFaults
    BY <1>10, <1>e DEF FailPublish, Connected
  <2> QED BY <1>0, <1>10, <2>2, <2>3, <2>4 DEF FailPublish, TypeOK
<1>11. ASSUME NEW l \in Lane, NEW b \in Batch, RefusePublish(l, b) PROVE TypeOK'
  <2>1. sdk' \in Sdk /\ committed' \in [Consumer -> Nat]
    BY <1>11, <1>c DEF RefusePublish, Consumer
  <2>2. producer' = "broken"
    BY <1>11 DEF RefusePublish, Refused
  <2> QED BY <1>0, <1>11, <2>1, <2>2 DEF RefusePublish, TypeOK
<1>12. ASSUME NEW l \in Lane, Enqueue(l) PROVE TypeOK'
  <2>1. ASSUME NEW k \in TraceKey
        PROVE  rebuilds[k] \in Queue /\ [rebuilds[k] EXCEPT !.queue = Append(@, l)] \in Queue
    <3>1. rebuilds[k] \in Queue
      BY DEF TypeOK
    <3>2. Append(rebuilds[k].queue, l) \in Seq(Lane \union {Nobody})
      BY <3>1, AppendProperties
    <3> QED BY <3>1, <3>2
  <2>2. rebuilds' \in [TraceKey -> Queue]
    BY <1>12, <2>1 DEF Enqueue
  <2> QED BY <1>0, <1>12, <2>2 DEF Enqueue, TypeOK
<1>13. ASSUME NEW k \in TraceKey, StartRebuild(k) PROVE TypeOK'
  <2>1. rebuilds' \in [TraceKey -> Queue]
    BY <1>13, <1>f DEF StartRebuild
  <2> QED BY <1>0, <1>13, <2>1 DEF StartRebuild, TypeOK
<1>14. ASSUME NEW k \in TraceKey, EndRebuild(k) PROVE TypeOK'
  <2>1. rebuilds' \in [TraceKey -> Queue]
    BY <1>14, <1>d, <1>f DEF EndRebuild, Queued
  <2>2. shown' \subseteq Row
    BY <1>14 DEF EndRebuild, TypeOK
  <2> QED BY <1>0, <1>14, <2>1, <2>2 DEF EndRebuild, TypeOK
<1>15. ASSUME NEW k \in TraceKey, FailRebuild(k) PROVE TypeOK'
  <2> DEFINE l == Waiter(k)
             Forget(q) == [i \in DOMAIN q |-> IF q[i] = l THEN Nobody ELSE q[i]]
             rest(m) == IF m = k THEN Dequeued(k) ELSE rebuilds[m]
  <2>1. \A q \in Seq(Lane \union {Nobody}) : Forget(q) \in Seq(Lane \union {Nobody})
    <3> TAKE q \in Seq(Lane \union {Nobody})
    <3>1. /\ Len(q) \in Nat /\ DOMAIN q = 1 .. Len(q)
          /\ \A i \in 1 .. Len(q) : q[i] \in Lane \union {Nobody}
      BY LenProperties
    <3>2. Forget(q) \in [1 .. Len(q) -> Lane \union {Nobody}]
      BY <3>1
    <3> QED BY <3>1, <3>2
  <2>2. rebuilds[k].queue /= <<>>
    BY <1>15 DEF FailRebuild, Queued
  <2>3. \A m \in TraceKey : rest(m) \in Queue
    BY <1>d, <2>2 DEF TypeOK
  <2> HIDE DEF rest, l
  <2>4. \A m \in TraceKey : [rest(m) EXCEPT !.queue = Forget(@)] \in Queue
    BY <2>1, <2>3
  <2>5. rebuilds' = [m \in TraceKey |-> [rest(m) EXCEPT !.queue = Forget(@)]]
    BY <1>15 DEF FailRebuild, rest, l
  <2>6. rebuilds' \in [TraceKey -> Queue]
    BY <2>4, <2>5
  <2>7. l = Nobody \/ l \in Lane
    BY <1>15, QueueType DEF FailRebuild, l
  <2>8. sdk' \in Sdk /\ committed' \in [Consumer -> Nat]
    <3>1. CASE l = Nobody
      BY <1>15, <3>1 DEF FailRebuild, TypeOK, l
    <3>2. CASE l \in Lane
      BY <1>15, <1>c, <3>2, LaneAssumption DEF FailRebuild, Consumer, l
    <3> QED BY <2>7, <3>1, <3>2
  <2> QED BY <1>0, <1>15, <1>e, <2>6, <2>8 DEF FailRebuild, TypeOK
<1>16. CASE Crash
  <2>1. sdk' \in Sdk
    BY <1>16, <1>f DEF Crash
  <2>2. rebuilds' \in [TraceKey -> Queue]
    BY <1>16, EmptySeq DEF Crash, NoRebuild
  <2> QED BY <1>0, <1>16, <1>e, <2>1, <2>2 DEF Crash, TypeOK
<1>17. CASE Expire
  BY <1>0, <1>17 DEF Expire, Fault, TypeOK
<1>18. CASE UNCHANGED vars
  BY <1>0, <1>18 DEF vars, TypeOK
<1> QED BY <1>1, <1>2, <1>3, <1>4, <1>5, <1>6, <1>7, <1>8, <1>9, <1>10, <1>11, <1>12, <1>13,
           <1>14, <1>15, <1>16, <1>17, <1>18 DEF Next, Request, Step, Break

-----------------------------------------------------------------------------
(* What the steps do to the deliveries. *)

\* One delivery of a lane is replaced, nothing else.
LEMMA PutEffect ==
  ASSUME Shape, NEW l \in Lane, NEW c \in Consumer, NEW j, Put(l, c, j)
  PROVE  \A m \in Lane, d \in Consumer :
           job'[m][d] = IF m = l /\ d = c THEN j ELSE job[m][d]
  BY DEF Shape, JobsInv, Put, Consumer

\* Both deliveries of a lane are replaced, nothing else.
LEMMA PutBothEffect ==
  ASSUME Shape, NEW l \in Lane, NEW i, NEW r, PutBoth(l, i, r)
  PROVE  \A m \in Lane, d \in Consumer :
           job'[m][d] = IF m /= l THEN job[m][d] ELSE IF d = "ingest" THEN i ELSE r
  BY DEF Shape, JobsInv, PutBoth, Consumer

\* A failed delivery waits for nothing, nor do the deliveries nested in it.
LEMMA ThrowEffect ==
  ASSUME Shape, NEW l \in Lane, NEW c \in Consumer, Throw(l, c)
  PROVE  \A m \in Lane, d \in Consumer :
           job'[m][d] = IF m = l /\ (d = c \/ ~Durable) THEN Idle ELSE job[m][d]
<1>1. CASE Durable
  BY <1>1, PutEffect DEF Throw
<1>2. CASE ~Durable
  BY <1>2, PutBothEffect DEF Throw, Consumer
<1> QED BY <1>1, <1>2

Unmoved(l, c) ==
  \A m \in Lane, d \in Consumer : ~(m = l /\ d = c) => job'[m][d] = job[m][d]

\* The check takes the first event off the delivery and keeps it if it is fresh.
LEMMA CheckEffect ==
  ASSUME Shape, NEW l \in Lane, NEW c \in Consumer, Check(l, c)
  PROVE  /\ Unmoved(l, c)
         /\ LET j == job[l][c]
                fresh == Filtered(c, j.fresh, Head(j.events))
            IN /\ j.pc = "check"
               /\ job'[l][c].pc = IF Len(j.events) > 1 THEN "check"
                                  ELSE IF fresh = <<>> THEN "end" ELSE "handle"
               /\ job'[l][c].events = Tail(j.events)
               /\ job'[l][c].fresh = fresh
               /\ job'[l][c].todo = fresh
               /\ job'[l][c].written = j.written
               /\ job'[l][c].size = j.size
<1> DEFINE j == job[l][c]
           fresh == Filtered(c, j.fresh, Head(j.events))
           pc == IF Len(j.events) > 1 THEN "check" ELSE IF fresh = <<>> THEN "end" ELSE "handle"
<1>1. j \in Job(c)
  BY DEF Shape, TypeOK
<1>2. j.pc = "check" /\ Put(l, c, [j EXCEPT !.events = Tail(j.events), !.fresh = fresh,
                                            !.todo = fresh, !.pc = pc])
  BY DEF Check
<1> HIDE DEF j, fresh, pc
<1> DEFINE new == [j EXCEPT !.events = Tail(j.events), !.fresh = fresh, !.todo = fresh, !.pc = pc]
<1>3. /\ new.pc = pc /\ new.events = Tail(j.events) /\ new.fresh = fresh /\ new.todo = fresh
      /\ new.written = j.written /\ new.size = j.size
  BY <1>1 DEF Job
<1>4. job'[l][c] = new /\ Unmoved(l, c)
  BY <1>2, PutEffect DEF Unmoved
<1> QED BY <1>2, <1>3, <1>4 DEF j, fresh, pc

\* The mark takes the first fresh event off the delivery.
LEMMA MarkEffect ==
  ASSUME Shape, NEW l \in Lane, NEW c \in Consumer, Mark(l, c)
  PROVE  /\ Unmoved(l, c)
         /\ LET j == job[l][c]
            IN /\ j.pc = "mark"
               /\ job'[l][c].pc = IF Len(j.fresh) > 1 THEN "mark" ELSE "end"
               /\ job'[l][c].fresh = Tail(j.fresh)
               /\ job'[l][c].events = j.events
               /\ job'[l][c].size = j.size
<1> DEFINE j == job[l][c]
           pc == IF Len(j.fresh) > 1 THEN "mark" ELSE "end"
<1>1. j \in Job(c)
  BY DEF Shape, TypeOK
<1>2. j.pc = "mark" /\ Put(l, c, [j EXCEPT !.fresh = Tail(j.fresh), !.pc = pc])
  BY DEF Mark
<1> HIDE DEF j, pc
<1> DEFINE new == [j EXCEPT !.fresh = Tail(j.fresh), !.pc = pc]
<1>3. new.pc = pc /\ new.events = j.events /\ new.fresh = Tail(j.fresh) /\ new.size = j.size
  BY <1>1 DEF Job
<1>4. job'[l][c] = new /\ Unmoved(l, c)
  BY <1>2, PutEffect DEF Unmoved
<1> QED BY <1>2, <1>3, <1>4 DEF j, pc

\* The insert advances the ingest delivery by a table.
LEMMA InsertEffect ==
  ASSUME Shape, NEW l \in Lane, NEW b \in Batch, Insert(l, b)
  PROVE  /\ Unmoved(l, "ingest")
         /\ LET j == job[l]["ingest"]
            IN /\ job'[l]["ingest"].written = j.written + 1
               /\ job'[l]["ingest"].pc = j.pc
               /\ job'[l]["ingest"].fresh = j.fresh
               /\ job'[l]["ingest"].todo = j.todo
               /\ job'[l]["ingest"].events = j.events
               /\ job'[l]["ingest"].size = j.size
<1> DEFINE j == job[l]["ingest"]
<1>1. j \in Job("ingest")
  BY DEF Shape, TypeOK, Consumer
<1>2. Put(l, "ingest", [j EXCEPT !.written = j.written + 1])
  BY DEF Insert
<1> HIDE DEF j
<1> DEFINE new == [j EXCEPT !.written = j.written + 1]
<1>3. /\ new.written = j.written + 1 /\ new.pc = j.pc /\ new.fresh = j.fresh /\ new.todo = j.todo
      /\ new.events = j.events /\ new.size = j.size
  BY <1>1 DEF Job
<1>4. job'[l]["ingest"] = new /\ Unmoved(l, "ingest")
  BY <1>2, PutEffect DEF Unmoved, Consumer
<1> QED BY <1>3, <1>4 DEF j

\* The fields of a delivery that has published the triggers of a batch.
LEMMA PublishedFields ==
  ASSUME NEW j \in Job("ingest")
  PROVE  /\ Published(j).pc = IF Len(j.todo) > 1 THEN "handle" ELSE "mark"
         /\ Published(j).todo = Tail(j.todo)
         /\ Published(j).written = 0
         /\ Published(j).fresh = j.fresh
         /\ Published(j).events = j.events
         /\ Published(j).size = j.size
  BY DEF Published, Job

\* On the broker the triggers join the log, in the process they become the nested delivery.
LEMMA PublishEffect ==
  ASSUME Shape, NEW l \in Lane, NEW b \in Batch, PublishTriggers(l, b)
  PROVE  /\ \A m \in Lane, d \in Consumer : m /= l => job'[m][d] = job[m][d]
         /\ LET j == job[l]["ingest"]
            IN /\ j.pc = "handle" /\ b = Head(j.todo) /\ j.written = Len(Tables[b])
               /\ Durable => /\ job'[l]["ingest"] = Published(j)
                             /\ job'[l]["rebuild"] = job[l]["rebuild"]
                             /\ log' = [log EXCEPT !["rebuild"] = log["rebuild"] \o Triggers(b)]
               /\ ~Durable => /\ job'[l]["ingest"] = [j EXCEPT !.pc = "await"]
                              /\ job'[l]["rebuild"] = Delivery(Triggers(b))
                              /\ log' = log
<1>1. CASE Durable
  <2> DEFINE j == job[l]["ingest"]
             i == Published(j)
  <2>1. /\ j.pc = "handle" /\ b = Head(j.todo) /\ j.written = Len(Tables[b])
        /\ Put(l, "ingest", i)
        /\ log' = [log EXCEPT !["rebuild"] = log["rebuild"] \o Triggers(b)]
    BY <1>1 DEF PublishTriggers, Writing
  <2> HIDE DEF i
  <2>2. \A m \in Lane, d \in Consumer : job'[m][d] = IF m = l /\ d = "ingest" THEN i ELSE job[m][d]
    BY <2>1, PutEffect DEF Consumer
  <2> QED BY <1>1, <2>1, <2>2 DEF i, Consumer
<1>2. CASE ~Durable
  <2> DEFINE j == job[l]["ingest"]
             i == [j EXCEPT !.pc = "await"]
             r == Delivery(Triggers(b))
  <2>1. /\ j.pc = "handle" /\ b = Head(j.todo) /\ j.written = Len(Tables[b])
        /\ PutBoth(l, i, r) /\ log' = log
    BY <1>2 DEF PublishTriggers, Writing
  <2> HIDE DEF i, r
  <2>2. \A m \in Lane, d \in Consumer :
          job'[m][d] = IF m /= l THEN job[m][d] ELSE IF d = "ingest" THEN i ELSE r
    BY <2>1, PutBothEffect
  <2> QED BY <1>2, <2>1, <2>2 DEF i, r, Consumer
<1> QED BY <1>1, <1>2

\* Each step keeps the deliveries nested.
LEMMA NestedStep ==
  ASSUME Shape, [Next]_vars
  PROVE  Nested'
<1> USE DEF Nested
<1>0. Nested /\ Idle.pc = "idle" /\ \A l \in Lane, c \in Consumer : job[l][c] \in Job(c)
  BY DEF Shape, TypeOK, Idle
<1>1. ASSUME NEW b \in Batch, NEW l \in Lane, PostInProcess(b, l) PROVE Nested'
  <2>1. Delivery(<<b>>).pc = "check"
    BY DEF Delivery, Idle
  <2> QED BY <1>0, <1>1, <2>1, PutEffect DEF PostInProcess, Consumer
<1>2. ASSUME NEW b \in Batch, PostToBroker(b) \/ LoseRequest(b) PROVE Nested'
  BY <1>0, <1>2 DEF PostToBroker, LoseRequest
<1>3. ASSUME NEW l \in Lane, NEW c \in Consumer, Deliver(l, c) PROVE Nested'
  <2>1. PICK n \in 1 .. MaxPoll :
          Put(l, c, Delivery(SubSeq(log[c], committed[c] + 1, committed[c] + n)))
    BY <1>3 DEF Deliver
  <2>2. \A e : Delivery(e).pc = "check"
    BY DEF Delivery, Idle
  <2> QED BY <1>0, <1>3, <2>1, <2>2, PutEffect DEF Deliver, Consumer
<1>4. ASSUME NEW l \in Lane, NEW c \in Consumer, Check(l, c) PROVE Nested'
  BY <1>0, <1>4, CheckEffect DEF Unmoved, Consumer
<1>5. ASSUME NEW l \in Lane, NEW c \in Consumer, Mark(l, c) PROVE Nested'
  BY <1>0, <1>5, MarkEffect DEF Unmoved, Consumer
<1>6. ASSUME NEW l \in Lane, NEW c \in Consumer, End(l, c) PROVE Nested'
  <2>1. CASE Durable \/ c = "ingest"
    BY <1>0, <1>6, <2>1, PutEffect DEF End, Consumer
  <2>2. CASE ~Durable /\ c = "rebuild"
    <3>1. Published(job[l]["ingest"]).pc \in {"handle", "mark"}
      BY <1>0 DEF Published, Job, Consumer
    <3> QED BY <1>0, <1>6, <2>2, <3>1, PutBothEffect DEF End, Consumer
  <2> QED BY <2>1, <2>2 DEF Consumer
<1>7. ASSUME NEW l \in Lane, NEW c \in Consumer, Throw(l, c) PROVE Nested'
  BY <1>0, <1>7, ThrowEffect DEF Consumer
<1>8. ASSUME NEW l \in Lane, NEW b \in Batch, Insert(l, b) PROVE Nested'
  BY <1>0, <1>8, InsertEffect DEF Unmoved, Consumer
<1>9. ASSUME NEW l \in Lane, NEW b \in Batch, FailInsert(l, b) PROVE Nested'
  BY <1>7, <1>9 DEF FailInsert, Consumer
<1>10. ASSUME NEW l \in Lane, NEW b \in Batch, PublishTriggers(l, b) PROVE Nested'
  <2> DEFINE j == job[l]["ingest"]
  <2>1. Published(j).pc \in {"handle", "mark"} /\ [j EXCEPT !.pc = "await"].pc = "await"
    BY <1>0 DEF Published, Job, Consumer
  <2>2. j.pc = "handle"
    BY <1>10 DEF PublishTriggers, Writing
  <2>3. \A m \in Lane, d \in Consumer : m /= l => job'[m][d] = job[m][d]
    BY <1>10, PublishEffect
  <2>4. /\ Durable => job'[l]["ingest"] = Published(j) /\ job'[l]["rebuild"] = job[l]["rebuild"]
        /\ ~Durable => job'[l]["ingest"] = [j EXCEPT !.pc = "await"]
    BY <1>10, PublishEffect
  <2> HIDE DEF j
  <2> QED BY <1>0, <2>1, <2>2, <2>3, <2>4 DEF Consumer
<1>11. ASSUME NEW l \in Lane, NEW b \in Batch, FailPublish(l, b) \/ RefusePublish(l, b)
       PROVE Nested'
  BY <1>7, <1>11 DEF FailPublish, RefusePublish, Consumer
<1>12. ASSUME NEW l \in Lane, Enqueue(l) PROVE Nested'
  <2>1. job[l]["rebuild"].pc = "handle"
        /\ \A m \in Lane, d \in Consumer : ~(m = l /\ d = "rebuild") => job'[m][d] = job[m][d]
    BY <1>12, PutEffect DEF Enqueue, Consumer
  <2> QED BY <1>0, <2>1 DEF Consumer
<1>13. ASSUME NEW k \in TraceKey, StartRebuild(k) PROVE Nested'
  BY <1>0, <1>13 DEF StartRebuild
<1>14. ASSUME NEW k \in TraceKey, EndRebuild(k) PROVE Nested'
  <2>1. CASE Waiter(k) = Nobody
    BY <1>0, <1>14, <2>1 DEF EndRebuild
  <2>2. CASE Waiter(k) /= Nobody
    <3>1. Waiter(k) \in Lane /\ job[Waiter(k)]["rebuild"].pc = "await"
      <4>1. rebuilds[k].queue \in Seq(Lane \union {Nobody}) /\ rebuilds[k].queue /= <<>>
        BY <1>14, QueueType DEF EndRebuild
      <4> QED BY <2>2, <4>1, HeadTailProperties, EmptySeq DEF Shape, Queued, Waiter
    <3>2. \A m \in Lane, d \in Consumer : ~(m = Waiter(k) /\ d = "rebuild") => job'[m][d] = job[m][d]
      BY <1>14, <2>2, <3>1, PutEffect DEF EndRebuild, Consumer
    <3> QED BY <1>0, <3>1, <3>2 DEF Consumer
  <2> QED BY <2>1, <2>2
<1>15. ASSUME NEW k \in TraceKey, FailRebuild(k) PROVE Nested'
  <2>1. CASE Waiter(k) = Nobody
    BY <1>0, <1>15, <2>1 DEF FailRebuild
  <2>2. CASE Waiter(k) /= Nobody
    <3>1. Waiter(k) \in Lane
      BY <1>15, <2>2, QueueType DEF FailRebuild
    <3> QED BY <1>15, <2>2, <3>1, <1>7 DEF FailRebuild, Consumer
  <2> QED BY <2>1, <2>2
<1>16. CASE Crash
  BY <1>0, <1>16 DEF Crash, Consumer
<1>17. CASE Expire \/ UNCHANGED vars
  BY <1>0, <1>17 DEF Expire, vars
<1> QED BY <1>1, <1>2, <1>3, <1>4, <1>5, <1>6, <1>8, <1>9, <1>10, <1>11, <1>12, <1>13, <1>14,
           <1>15, <1>16, <1>17 DEF Next, Request, Step, Break

\* The delivery that waits for rebuilds is left alone by all but the steps of the rebuilds, of the
\* deliveries that queue them, and the crash.
LEMMA WaitingUnmoved ==
  ASSUME Shape, [Next]_vars
  PROVE  \/ /\ UNCHANGED rebuilds
            /\ \A m \in Lane : job[m]["rebuild"].pc = "await" => job'[m]["rebuild"] = job[m]["rebuild"]
         \/ \E l \in Lane : Enqueue(l)
         \/ \E k \in TraceKey : StartRebuild(k) \/ EndRebuild(k) \/ FailRebuild(k)
         \/ Crash
<1> DEFINE Quiet ==
             /\ UNCHANGED rebuilds
             /\ \A m \in Lane : job[m]["rebuild"].pc = "await" => job'[m]["rebuild"] = job[m]["rebuild"]
<1>1. ASSUME NEW b \in Batch, NEW l \in Lane, PostInProcess(b, l) PROVE Quiet
  BY <1>1, PutEffect DEF PostInProcess, Consumer
<1>2. ASSUME NEW b \in Batch, PostToBroker(b) \/ LoseRequest(b) PROVE Quiet
  BY <1>2 DEF PostToBroker, LoseRequest
<1>3. ASSUME NEW l \in Lane, NEW c \in Consumer, Deliver(l, c) PROVE Quiet
  <2>1. PICK n \in 1 .. MaxPoll :
          Put(l, c, Delivery(SubSeq(log[c], committed[c] + 1, committed[c] + n)))
    BY <1>3 DEF Deliver
  <2> QED BY <1>3, <2>1, PutEffect DEF Deliver, Consumer
<1>4. ASSUME NEW l \in Lane, NEW c \in Consumer, Check(l, c) \/ Mark(l, c) PROVE Quiet
  <2>1. Unmoved(l, c) /\ job[l][c].pc /= "await"
    BY <1>4, CheckEffect, MarkEffect
  <2> QED BY <1>4, <2>1 DEF Check, Mark, Unmoved, Consumer
<1>5. ASSUME NEW l \in Lane, NEW c \in Consumer, End(l, c) PROVE Quiet
  <2>1. CASE Durable \/ c = "ingest"
    BY <1>5, <2>1, PutEffect DEF End, Consumer
  <2>2. CASE ~Durable /\ c = "rebuild"
    BY <1>5, <2>2, PutBothEffect DEF End, Consumer
  <2> QED BY <2>1, <2>2 DEF Consumer
<1>6. ASSUME NEW l \in Lane, Throw(l, "ingest"), job[l]["ingest"].pc = "handle", UNCHANGED rebuilds
      PROVE  Quiet
  <2>1. ~Durable => job[l]["rebuild"].pc = "idle"
    BY <1>6 DEF Shape, Nested
  <2> QED BY <1>6, <2>1, ThrowEffect DEF Consumer
<1>7. ASSUME NEW l \in Lane, NEW b \in Batch, Insert(l, b) PROVE Quiet
  BY <1>7, InsertEffect DEF Insert, Unmoved, Consumer
<1>8. ASSUME NEW l \in Lane, NEW b \in Batch, PublishTriggers(l, b) PROVE Quiet
  <2>1. ~Durable => job[l]["rebuild"].pc = "idle"
    BY <1>8, PublishEffect DEF Shape, Nested
  <2> QED BY <1>8, <2>1, PublishEffect DEF PublishTriggers, Consumer
<1>9. ASSUME NEW l \in Lane, NEW b \in Batch,
             FailInsert(l, b) \/ FailPublish(l, b) \/ RefusePublish(l, b)
      PROVE  Quiet
  BY <1>6, <1>9 DEF FailInsert, FailPublish, RefusePublish, Writing
<1>10. ASSUME Expire \/ UNCHANGED vars PROVE Quiet
  BY <1>10 DEF Expire, vars
<1> DEFINE Rebuilding == \/ \E l \in Lane : Enqueue(l)
                         \/ \E k \in TraceKey : StartRebuild(k) \/ EndRebuild(k) \/ FailRebuild(k)
                         \/ Crash
<1>11. ASSUME NEW l \in Lane, Enqueue(l) PROVE Rebuilding
  BY <1>11
<1>12. ASSUME NEW k \in TraceKey, StartRebuild(k) \/ EndRebuild(k) \/ FailRebuild(k) PROVE Rebuilding
  BY <1>12
<1>13. ASSUME Crash PROVE Rebuilding
  BY <1>13
<1> HIDE DEF Quiet, Rebuilding
<1>14. Quiet \/ Rebuilding
  BY <1>1, <1>2, <1>3, <1>4, <1>5, <1>7, <1>8, <1>9, <1>10, <1>11, <1>12, <1>13
     DEF Next, Request, Step, Break
<1> QED BY <1>14 DEF Quiet, Rebuilding

\* Each step keeps the queues and the deliveries that wait in them in step.
LEMMA QueuedStep ==
  ASSUME Shape, [Next]_vars
  PROVE  Queued'
<1>0. /\ \A k \in TraceKey : rebuilds[k].queue \in Seq(Lane \union {Nobody})
      /\ rebuilds \in [TraceKey -> [queue : Seq(Lane \union {Nobody}), running : BOOLEAN,
                                    read : SUBSET Row]]
      /\ \A k \in TraceKey : \A i \in 1 .. Len(rebuilds[k].queue) :
           rebuilds[k].queue[i] \in Lane \union {Nobody}
  BY ElementOfSeq DEF Shape, TypeOK
<1>q. ASSUME NEW k \in TraceKey, NEW i \in 1 .. Len(rebuilds[k].queue), rebuilds[k].queue[i] /= Nobody
      PROVE  /\ rebuilds[k].queue[i] \in Lane
             /\ job[rebuilds[k].queue[i]]["rebuild"].pc = "await"
             /\ k \in job[rebuilds[k].queue[i]]["rebuild"].pending
             /\ \A n \in 1 .. Len(rebuilds[k].queue) :
                  rebuilds[k].queue[n] = rebuilds[k].queue[i] => n = i
  BY <1>0, <1>q DEF Shape, Queued
<1>a. ASSUME \A m \in Lane : job[m]["rebuild"].pc = "await" => job'[m]["rebuild"] = job[m]["rebuild"],
             UNCHANGED rebuilds
      PROVE  Queued'
  <2>1. \A k \in TraceKey : rebuilds'[k].running => rebuilds'[k].queue /= <<>>
    BY <1>a DEF Shape, Queued
  <2>2. ASSUME NEW k \in TraceKey, NEW i \in 1 .. Len(rebuilds'[k].queue), rebuilds'[k].queue[i] /= Nobody
        PROVE  LET l == rebuilds'[k].queue[i]
               IN /\ job'[l]["rebuild"].pc = "await" /\ k \in job'[l]["rebuild"].pending
                  /\ \A n \in 1 .. Len(rebuilds'[k].queue) : rebuilds'[k].queue[n] = l => n = i
    BY <1>a, <1>q, <2>2
  <2> QED BY <2>1, <2>2 DEF Queued
<1>10. ASSUME NEW l \in Lane, Enqueue(l) PROVE Queued'
  <2> DEFINE j == job[l]["rebuild"]
             keys == {KeyOf(e) : e \in LastPerTrace(j.fresh)}
             new == [j EXCEPT !.pending = keys, !.pc = "await"]
  <2>1. j.pc = "handle" /\ j \in Job("rebuild") /\ Put(l, "rebuild", new)
    BY <1>10 DEF Enqueue, Shape, TypeOK, Consumer
  <2>2. \A k \in TraceKey : rebuilds'[k] = IF k \in keys
                                           THEN [rebuilds[k] EXCEPT !.queue = Append(@, l)]
                                           ELSE rebuilds[k]
    BY <1>10 DEF Enqueue
  <2>3. \A k \in TraceKey : \A i \in 1 .. Len(rebuilds[k].queue) : rebuilds[k].queue[i] /= l
    BY <2>1, LaneAssumption DEF Shape, Queued
  <2> HIDE DEF j, keys
  <2>4. new.pending = keys /\ new.pc = "await"
    BY <2>1 DEF Job
  <2> HIDE DEF new
  <2>5. /\ job'[l]["rebuild"] = new
        /\ \A m \in Lane : m /= l => job'[m]["rebuild"] = job[m]["rebuild"]
    BY <2>1, PutEffect DEF Consumer
  <2>6. ASSUME NEW k \in TraceKey
        PROVE  /\ rebuilds'[k].running => rebuilds'[k].queue /= <<>>
               /\ \A i \in 1 .. Len(rebuilds'[k].queue) :
                    LET m == rebuilds'[k].queue[i]
                    IN m /= Nobody =>
                         /\ job'[m]["rebuild"].pc = "await"
                         /\ k \in job'[m]["rebuild"].pending
                         /\ \A n \in 1 .. Len(rebuilds'[k].queue) : rebuilds'[k].queue[n] = m => n = i
    <3> DEFINE q == rebuilds[k].queue
    <3>1. /\ q \in Seq(Lane \union {Nobody})
          /\ \A i \in 1 .. Len(q) : q[i] \in Lane \union {Nobody} /\ q[i] /= l
      BY <1>0, <2>3
    <3>2. rebuilds[k].running => q /= <<>>
      BY DEF Shape, Queued
    <3>3. \A i \in 1 .. Len(q) : q[i] /= Nobody =>
            /\ job'[q[i]]["rebuild"].pc = "await"
            /\ k \in job'[q[i]]["rebuild"].pending
            /\ \A n \in 1 .. Len(q) : q[n] = q[i] => n = i
      BY <2>5, <3>1 DEF Shape, Queued
    <3>4. CASE k \notin keys
      BY <2>2, <3>2, <3>3, <3>4
    <3>5. CASE k \in keys
      <4>1. rebuilds'[k].queue = Append(q, l) /\ rebuilds'[k].running = rebuilds[k].running
        BY <1>0, <2>2, <3>5
      <4>2. /\ Append(q, l) /= <<>> /\ Len(Append(q, l)) = Len(q) + 1 /\ Len(q) \in Nat
            /\ \A i \in 1 .. Len(q) : Append(q, l)[i] = q[i]
            /\ Append(q, l)[Len(q) + 1] = l
        <5> HIDE DEF q
        <5>1. Len(q) \in Nat
          BY <3>1, LenProperties
        <5> QED BY <3>1, <5>1, AppendProperties
      <4> HIDE DEF q
      <4>3. ASSUME NEW i \in 1 .. Len(q) + 1
            PROVE  LET m == Append(q, l)[i]
                   IN m /= Nobody =>
                        /\ job'[m]["rebuild"].pc = "await"
                        /\ k \in job'[m]["rebuild"].pending
                        /\ \A n \in 1 .. Len(q) + 1 : Append(q, l)[n] = m => n = i
        <5>1. CASE i \in 1 .. Len(q)
          BY <3>1, <3>3, <4>2, <5>1
        <5>2. CASE i = Len(q) + 1
          BY <2>4, <2>5, <3>1, <3>5, <4>2, <5>2
        <5> QED BY <4>2, <5>1, <5>2
      <4> QED BY <4>1, <4>2, <4>3
    <3> QED BY <3>4, <3>5
  <2> QED BY <2>6 DEF Queued
<1>11. ASSUME NEW k \in TraceKey, StartRebuild(k) PROVE Queued'
  <2>1. \A m \in TraceKey : /\ rebuilds'[m].queue = rebuilds[m].queue
                            /\ rebuilds'[m].running => rebuilds[m].queue /= <<>>
    BY <1>0, <1>11 DEF StartRebuild, Shape, Queued
  <2>2. UNCHANGED job
    BY <1>11 DEF StartRebuild
  <2>3. ASSUME NEW m \in TraceKey, NEW i \in 1 .. Len(rebuilds'[m].queue), rebuilds'[m].queue[i] /= Nobody
        PROVE  LET l == rebuilds'[m].queue[i]
               IN /\ job'[l]["rebuild"].pc = "await" /\ m \in job'[l]["rebuild"].pending
                  /\ \A n \in 1 .. Len(rebuilds'[m].queue) : rebuilds'[m].queue[n] = l => n = i
    BY <1>q, <2>1, <2>2, <2>3
  <2> QED BY <2>1, <2>3 DEF Queued
<1>b. ASSUME NEW k \in TraceKey, rebuilds[k].running
      PROVE  LET q == rebuilds[k].queue
             IN /\ q \in Seq(Lane \union {Nobody}) /\ q /= <<>>
                /\ Waiter(k) = q[1] /\ Waiter(k) \in Lane \union {Nobody}
                /\ Tail(q) \in Seq(Lane \union {Nobody}) /\ Len(Tail(q)) = Len(q) - 1
                /\ \A i \in 1 .. Len(Tail(q)) : i + 1 \in 1 .. Len(q) /\ Tail(q)[i] = q[i + 1]
                /\ Len(q) \in Nat \ {0}
                /\ \A i \in 1 .. Len(Tail(q)) :
                     Waiter(k) /= Nobody => Tail(q)[i] /= Waiter(k)
                /\ Waiter(k) /= Nobody => job[Waiter(k)]["rebuild"].pc = "await"
  <2> DEFINE q == rebuilds[k].queue
  <2>1. q \in Seq(Lane \union {Nobody}) /\ q /= <<>>
    BY <1>0, <1>b DEF Shape, Queued
  <2>2. /\ Tail(q) \in Seq(Lane \union {Nobody}) /\ Len(Tail(q)) = Len(q) - 1
        /\ Len(q) \in Nat \ {0} /\ Head(q) = q[1] /\ Head(q) \in Lane \union {Nobody}
        /\ \A i \in 1 .. Len(Tail(q)) : i + 1 \in 1 .. Len(q) /\ Tail(q)[i] = q[i + 1]
    BY <2>1, HeadTailProperties, EmptySeq
  <2>3. \A i \in 1 .. Len(q) : q[i] /= Nobody =>
          job[q[i]]["rebuild"].pc = "await" /\ \A n \in 1 .. Len(q) : q[n] = q[i] => n = i
    BY DEF Shape, Queued
  <2> HIDE DEF q
  <2>4. \A i \in 1 .. Len(Tail(q)) : q[1] /= Nobody => Tail(q)[i] /= q[1]
    BY <2>2, <2>3
  <2> QED BY <2>1, <2>2, <2>3, <2>4 DEF q, Waiter
<1>12. ASSUME NEW k \in TraceKey, EndRebuild(k) PROVE Queued'
  <2> DEFINE w == Waiter(k)
             q(m) == rebuilds[m].queue
  <2>1. /\ \A m \in TraceKey : m /= k => rebuilds'[m] = rebuilds[m]
        /\ rebuilds'[k].queue = Tail(q(k)) /\ ~rebuilds'[k].running
        /\ rebuilds[k].running
    BY <1>0, <1>12 DEF EndRebuild, Dequeued
  <2>2. \A l \in Lane : /\ l /= w => job'[l]["rebuild"] = job[l]["rebuild"]
                        /\ l = w => /\ job'[l]["rebuild"].pending = job[l]["rebuild"].pending \ {k}
                                    /\ job'[l]["rebuild"].pc =
                                         IF job'[l]["rebuild"].pending = {} THEN "mark" ELSE "await"
    <3>1. CASE w = Nobody
      BY <1>12, <3>1, LaneAssumption DEF EndRebuild
    <3>2. CASE w /= Nobody
      <4> DEFINE j == job[w]["rebuild"]
                 left == j.pending \ {k}
                 new == [j EXCEPT !.pending = left, !.pc = IF left = {} THEN "mark" ELSE "await"]
      <4>1. w \in Lane /\ j \in Job("rebuild")
        BY <1>b, <2>1, <3>2 DEF Shape, TypeOK, Consumer
      <4>2. Put(w, "rebuild", new)
        BY <1>12, <3>2 DEF EndRebuild
      <4> HIDE DEF w, j
      <4>3. new.pending = left /\ new.pc = IF left = {} THEN "mark" ELSE "await"
        BY <4>1 DEF Job
      <4> HIDE DEF left, new
      <4>4. \A l \in Lane : job'[l]["rebuild"] = IF l = w THEN new ELSE job[l]["rebuild"]
        BY <4>1, <4>2, PutEffect DEF Consumer
      <4> QED BY <4>3, <4>4 DEF left, j
    <3> QED BY <3>1, <3>2
  <2>3. ASSUME NEW m \in TraceKey, NEW i \in 1 .. Len(rebuilds'[m].queue), rebuilds'[m].queue[i] /= Nobody
        PROVE  LET l == rebuilds'[m].queue[i]
               IN /\ job'[l]["rebuild"].pc = "await" /\ m \in job'[l]["rebuild"].pending
                  /\ \A n \in 1 .. Len(rebuilds'[m].queue) : rebuilds'[m].queue[n] = l => n = i
    <3>1. CASE m /= k
      <4>1. rebuilds'[m] = rebuilds[m]
        BY <2>1, <3>1
      <4>2. LET l == rebuilds[m].queue[i]
            IN /\ l \in Lane /\ job[l]["rebuild"].pc = "await" /\ m \in job[l]["rebuild"].pending
               /\ \A n \in 1 .. Len(rebuilds[m].queue) : rebuilds[m].queue[n] = l => n = i
        BY <1>q, <2>3, <4>1
      <4>3. job'[rebuilds[m].queue[i]]["rebuild"].pc = "await"
            /\ m \in job'[rebuilds[m].queue[i]]["rebuild"].pending
        BY <2>2, <3>1, <4>2
      <4> QED BY <4>1, <4>2, <4>3
    <3>2. CASE m = k
      <4> DEFINE s == rebuilds[k].queue
                 t == Tail(s)
                 l == t[i]
      <4>1. /\ rebuilds'[k].queue = t /\ Len(s) \in Nat \ {0} /\ Len(t) = Len(s) - 1
            /\ \A n \in 1 .. Len(t) : n + 1 \in 1 .. Len(s) /\ t[n] = s[n + 1]
            /\ \A n \in 1 .. Len(t) : w /= Nobody => t[n] /= w
        BY <1>b, <2>1
      <4>2. i \in 1 .. Len(t) /\ l /= Nobody /\ l = s[i + 1] /\ i + 1 \in 1 .. Len(s) /\ l /= w
        BY <2>3, <3>2, <4>1
      <4>3. /\ l \in Lane /\ job[l]["rebuild"].pc = "await" /\ k \in job[l]["rebuild"].pending
            /\ \A n \in 1 .. Len(s) : s[n] = l => n = i + 1
        BY <1>q, <4>2
      <4>4. job'[l]["rebuild"] = job[l]["rebuild"]
        BY <2>2, <4>2, <4>3
      <4> HIDE DEF l, t, s
      <4>5. \A n \in 1 .. Len(t) : t[n] = l => n = i
        BY <4>1, <4>2, <4>3
      <4> QED BY <3>2, <4>1, <4>3, <4>4, <4>5 DEF l
    <3> QED BY <3>1, <3>2
  <2>4. \A m \in TraceKey : rebuilds'[m].running => rebuilds'[m].queue /= <<>>
    BY <2>1 DEF Shape, Queued
  <2> QED BY <2>3, <2>4 DEF Queued
<1>13. ASSUME NEW k \in TraceKey, FailRebuild(k) PROVE Queued'
  <2> DEFINE w == Waiter(k)
             Forget(s) == [i \in DOMAIN s |-> IF s[i] = w THEN Nobody ELSE s[i]]
             rest(m) == IF m = k THEN Dequeued(k) ELSE rebuilds[m]
  <2>1. /\ rebuilds[k].running
        /\ rebuilds' = [m \in TraceKey |-> [rest(m) EXCEPT !.queue = Forget(@)]]
    BY <1>13 DEF FailRebuild
  <2>2. /\ \A m \in TraceKey : /\ rest(m).queue \in Seq(Lane \union {Nobody})
                               /\ rest(m).running => m /= k
        /\ rest(k).queue = Tail(rebuilds[k].queue)
        /\ \A m \in TraceKey : m /= k => rest(m) = rebuilds[m]
    BY <1>0, <1>b, <2>1 DEF Dequeued
  <2>3. \A m \in TraceKey :
          rest(m) \in [queue : Seq(Lane \union {Nobody}), running : BOOLEAN, read : SUBSET Row]
    BY <1>0, <2>2 DEF Dequeued
  <2> HIDE DEF rest, w
  <2>4. \A m \in TraceKey : /\ rebuilds'[m].queue = Forget(rest(m).queue)
                            /\ rebuilds'[m].running = rest(m).running
    BY <2>1, <2>3
  <2>5. \A m \in TraceKey : /\ Len(rebuilds'[m].queue) = Len(rest(m).queue)
                            /\ DOMAIN rest(m).queue = 1 .. Len(rest(m).queue)
                            /\ Len(rest(m).queue) \in Nat
                            /\ \A i \in 1 .. Len(rest(m).queue) :
                                 rebuilds'[m].queue[i] =
                                   IF rest(m).queue[i] = w THEN Nobody ELSE rest(m).queue[i]
    <3> TAKE m \in TraceKey
    <3> DEFINE r == rest(m).queue
    <3>1. rebuilds'[m].queue = [i \in DOMAIN r |-> IF r[i] = w THEN Nobody ELSE r[i]]
      BY <2>4
    <3>2. r \in Seq(Lane \union {Nobody})
      BY <2>2
    <3> HIDE DEF r
    <3>3. DOMAIN r = 1 .. Len(r) /\ Len(r) \in Nat
      BY <3>2, LenProperties
    <3>4. DOMAIN rebuilds'[m].queue = 1 .. Len(r)
      BY <3>1, <3>3
    <3>5. Len(rebuilds'[m].queue) = Len(r)
      BY <3>3, <3>4
    <3> QED BY <3>1, <3>3, <3>5 DEF r
  <2>6. \A l \in Lane : l /= w => job'[l]["rebuild"] = job[l]["rebuild"]
    <3>1. CASE w = Nobody
      BY <1>13, <3>1 DEF FailRebuild, w
    <3>2. CASE w /= Nobody
      <4>1. w \in Lane /\ Throw(w, "rebuild")
        BY <1>13, <1>b, <2>1, <3>2 DEF FailRebuild, w
      <4> QED BY <4>1, ThrowEffect DEF Consumer
    <3> QED BY <3>1, <3>2
  <2>7. ASSUME NEW m \in TraceKey, NEW i \in 1 .. Len(rest(m).queue), NEW l,
               l = rest(m).queue[i], l /= Nobody, l /= w
        PROVE  /\ l \in Lane /\ job[l]["rebuild"].pc = "await" /\ m \in job[l]["rebuild"].pending
               /\ \A n \in 1 .. Len(rest(m).queue) : rest(m).queue[n] = l => n = i
    <3>1. l \in Lane
      BY <2>2, <2>7, ElementOfSeq
    <3>2. CASE m /= k
      BY <1>q, <2>2, <2>7, <3>1, <3>2
    <3>3. CASE m = k
      <4> DEFINE s == rebuilds[k].queue
                 t == Tail(s)
      <4>1. /\ rest(k).queue = t /\ Len(s) \in Nat \ {0} /\ Len(t) = Len(s) - 1
            /\ \A n \in 1 .. Len(t) : n + 1 \in 1 .. Len(s) /\ t[n] = s[n + 1]
        BY <1>b, <2>1, <2>2
      <4>2. i \in 1 .. Len(t) /\ l = s[i + 1] /\ i + 1 \in 1 .. Len(s)
        BY <2>7, <3>3, <4>1
      <4>3. /\ job[l]["rebuild"].pc = "await" /\ k \in job[l]["rebuild"].pending
            /\ \A n \in 1 .. Len(s) : s[n] = l => n = i + 1
        BY <1>q, <2>7, <4>2
      <4> HIDE DEF t, s
      <4>4. \A n \in 1 .. Len(t) : t[n] = l => n = i
        BY <4>1, <4>2, <4>3
      <4> QED BY <3>1, <3>3, <4>1, <4>3, <4>4
    <3> QED BY <3>2, <3>3
  <2>8. ASSUME NEW m \in TraceKey, NEW i \in 1 .. Len(rebuilds'[m].queue), rebuilds'[m].queue[i] /= Nobody
        PROVE  LET l == rebuilds'[m].queue[i]
               IN /\ job'[l]["rebuild"].pc = "await" /\ m \in job'[l]["rebuild"].pending
                  /\ \A n \in 1 .. Len(rebuilds'[m].queue) : rebuilds'[m].queue[n] = l => n = i
    <3>1. /\ i \in 1 .. Len(rest(m).queue) /\ rebuilds'[m].queue[i] = rest(m).queue[i]
          /\ rest(m).queue[i] /= w
      BY <2>5, <2>8
    <3>2. LET l == rest(m).queue[i]
          IN /\ l \in Lane /\ job[l]["rebuild"].pc = "await" /\ m \in job[l]["rebuild"].pending
             /\ \A n \in 1 .. Len(rest(m).queue) : rest(m).queue[n] = l => n = i
      BY <2>7, <2>8, <3>1
    <3> QED BY <2>5, <2>6, <2>8, <3>1, <3>2
  <2>9. ASSUME NEW m \in TraceKey, rebuilds'[m].running PROVE rebuilds'[m].queue /= <<>>
    <3>1. m /= k /\ rebuilds[m].running
      BY <2>2, <2>4, <2>9
    <3>2. rest(m).queue /= <<>>
      BY <2>2, <3>1 DEF Shape, Queued
    <3>3. Len(rest(m).queue) \in Nat \ {0}
      BY <2>2, <3>2, EmptySeq
    <3> QED BY <2>5, <3>3, EmptySeq
  <2> QED BY <2>8, <2>9 DEF Queued
<1>14. CASE Crash
  <2>1. \A k \in TraceKey : rebuilds'[k].queue = <<>> /\ ~rebuilds'[k].running
    BY <1>14 DEF Crash, NoRebuild
  <2>2. Len(<<>>) = 0
    BY EmptySeq
  <2> QED BY <2>1, <2>2 DEF Queued
<1> QED BY WaitingUnmoved, <1>a, <1>10, <1>11, <1>12, <1>13, <1>14

-----------------------------------------------------------------------------
\* The shape holds at the start.
LEMMA InitShape == Init => Shape
<1> SUFFICES ASSUME Init PROVE Shape
  OBVIOUS
<1>1. \A l \in Lane, c \in Consumer : job[l][c] = Idle
  BY DEF Init
<1>2. JobsInv
  BY <1>1, IdleGood DEF Init, JobsInv, GoodJob, Consumer
<1>3. Nested
  BY <1>1, IdleGood DEF Nested, Consumer
<1>4. Queued
  BY EmptySeq DEF Init, Queued, NoRebuild
<1>5. TypeOK
  BY <1>2, EmptySeq, BoundAssumption DEF Init, TypeOK, JobsInv, GoodJob, NoRebuild
<1> QED BY <1>2, <1>3, <1>4, <1>5 DEF Shape

\* Every step keeps the shape.
LEMMA ShapeStep == Shape /\ [Next]_vars => Shape'
  BY JobsStep, TypeStep, NestedStep, QueuedStep DEF Shape

\* The types hold, on either bus: no step of a delivery, of a rebuild or of a failure finds an
\* empty list where it takes the first element.
THEOREM TypeCorrect == Spec => []TypeOK
<1>1. Shape => TypeOK
  BY DEF Shape
<1> QED BY <1>1, InitShape, ShapeStep, PTL DEF Spec

-----------------------------------------------------------------------------
(* What a delivery of a batch has done so far. *)

\* The rows of the trigger are in the read model; its batch is in the raw tables.
Shown(e) == RowsOf(e) \subseteq shown
RowsStored(e) == \A t \in Range(Tables[e[1]]) : stored[e[1]][t] > 0

\* The batch is written, and its triggers are published on the broker, shown in the process.
Done(b) ==
  /\ \A t \in Range(Tables[b]) : stored[b][t] > 0
  /\ Durable => Range(Triggers(b)) \subseteq Range(log["rebuild"])
  /\ ~Durable => \A e \in Range(Triggers(b)) : Shown(e)

\* The ingest handler has written the first tables of the batch it is at, it is done with the
\* batches before that one, and it is done with all of them when it marks the first.
Progress(l) ==
  LET j == job[l]["ingest"]
      b == Head(j.todo)
  IN /\ j.pc = "check" => j.written = 0
     /\ j.pc /= "check" => j.events = <<>>
     /\ j.pc \in {"idle", "end"} => j.fresh = <<>>
     /\ j.pc \in {"handle", "await"} =>
          /\ j.written <= Len(Tables[b])
          /\ \A i \in 1 .. j.written : stored[b][Tables[b][i]] > 0
          /\ \A a \in Range(j.fresh) : a \in Range(j.todo) \/ Done(a)
     /\ j.pc = "await" => j.written = Len(Tables[b])
     /\ j.pc = "mark" => \A a \in Range(j.fresh) : Done(a)

\* A message of the delivery is still to be checked, was found fresh, or is done.
Covered(l) ==
  LET j == job[l]["ingest"]
  IN /\ committed["ingest"] + j.size <= Len(log["ingest"])
     /\ \A i \in committed["ingest"] + 1 .. committed["ingest"] + j.size :
          LET b == log["ingest"][i]
          IN b \in Range(j.events) \/ b \in Range(j.fresh) \/ Done(b)

ProgressInv ==
  \A l \in Lane : /\ Progress(l)
                  /\ Durable /\ job[l]["ingest"].pc /= "idle" => Covered(l)

MarkedInv ==
  /\ committed["ingest"] <= Len(log["ingest"])
  /\ \A b \in Batch : Handled("ingest", b) => Done(b)

StoredInv == ProgressInv /\ MarkedInv

\* What a delivery of triggers is still to check, and what it found fresh.
At(l) == Range(job[l]["rebuild"].events) \union Range(job[l]["rebuild"].fresh)

\* The rows of the triggers in a delivery are stored before it begins; those of one trace id ask
\* for one rebuild; while it waits, a trigger is shown or its rebuild is pending; and all are
\* shown when it marks the first.
Awaits(l) ==
  LET j == job[l]["rebuild"]
  IN /\ j.pc /= "check" => j.events = <<>>
     /\ j.pc \in {"idle", "end"} => j.fresh = <<>>
     /\ \A e \in At(l) : RowsStored(e)
     /\ \A e, f \in At(l) : e[2] = f[2] => KeyOf(e) = KeyOf(f)
     /\ j.pc = "await" => \A e \in Range(j.fresh) : KeyOf(e) \in j.pending \/ Shown(e)
     /\ j.pc = "mark" => \A e \in Range(j.fresh) : Shown(e)

\* The delivery inside the ingest handler is of the triggers of the batch the handler is at.
Inside(l) ==
  LET triggers == Range(Triggers(Head(job[l]["ingest"].todo)))
  IN job[l]["ingest"].pc = "await" =>
       At(l) \subseteq triggers /\ \A e \in triggers : e \in At(l) \/ Shown(e)

\* A message of the delivery is still to be checked, was found fresh, or is shown.
Answered(l) ==
  LET n == committed["rebuild"] + job[l]["rebuild"].size
  IN /\ n <= Len(log["rebuild"])
     /\ \A i \in committed["rebuild"] + 1 .. n : log["rebuild"][i] \in At(l) \/ Shown(log["rebuild"][i])

AwaitsInv ==
  \A l \in Lane : /\ Awaits(l) /\ Inside(l)
                  /\ Durable /\ job[l]["rebuild"].pc /= "idle" => Answered(l)

\* A rebuild that a delivery waits for has read the rows of the triggers it was queued for.
ReadInv ==
  \A k \in TraceKey : rebuilds[k].running /\ Waiter(k) /= Nobody =>
    \A e \in Range(job[Waiter(k)]["rebuild"].fresh) :
      KeyOf(e) = k => RowsOf(e) \subseteq rebuilds[k].read

\* A trigger is published after the rows of its batch.
LogInv == \A e \in Range(log["rebuild"]) : RowsStored(e)

HandledInv == committed["rebuild"] <= Len(log["rebuild"]) /\ HandledIsShown

\* What the delivery of a batch is still to check, and what it found fresh.
Held(l) == Range(job[l]["ingest"].events) \union Range(job[l]["ingest"].fresh)

\* In the process a request waits for a delivery that holds its batch, or the batch is shown.
RequestInv ==
  ~Durable => \A b \in Batch :
    /\ sdk[b].via /= Nobody =>
         /\ sdk[b].state = "waiting"
         /\ b \in Held(sdk[b].via) \/ \A e \in Range(Triggers(b)) : Shown(e)
    /\ sdk[b].state = "acked" => \A e \in Range(Triggers(b)) : Shown(e)

ShownInv == AwaitsInv /\ ReadInv /\ LogInv /\ HandledInv /\ RequestInv

\* The users do not share trace ids.  Triggers of several users come in one delivery of the
\* broker, and of those of one trace id it keeps the last; inside a publish they are of one batch.
OneOwner == Durable => \A e, f \in Trigger : e[2] = f[2] => KeyOf(e) = KeyOf(f)

\* Rows are never taken away again and the logs only grow.
LEMMA Grown ==
  ASSUME Shape, [Next]_vars
  PROVE  /\ \A b \in Batch, t \in Table : stored[b][t] > 0 => stored'[b][t] > 0
         /\ Range(log["rebuild"]) \subseteq Range(log'["rebuild"])
         /\ \A c \in Consumer : /\ Len(log[c]) <= Len(log'[c])
                               /\ \A i \in 1 .. Len(log[c]) : log'[c][i] = log[c][i]
<1>1. /\ stored \in [Batch -> [Table -> Nat]]
      /\ log["rebuild"] \in Seq(Trigger) /\ log["ingest"] \in Seq(Batch)
      /\ log \in [Consumer -> Seq(Batch \union Trigger)]
      /\ Len(log["ingest"]) \in Nat /\ Len(log["rebuild"]) \in Nat
  BY LenProperties DEF Shape, TypeOK, EventOf, Consumer
<1>2. \/ UNCHANGED stored
      \/ \E l \in Lane, b \in Batch : stored' = Copied(l, b)
  <2>1. CASE Request
    BY <2>1 DEF Request, PostInProcess, PostToBroker, LoseRequest
  <2>2. CASE \E l \in Lane, c \in Consumer : Deliver(l, c) \/ Check(l, c) \/ Mark(l, c) \/ End(l, c)
    BY <2>2 DEF Deliver, Check, Mark, End
  <2>3. CASE \E l \in Lane, b \in Batch : Insert(l, b) \/ PublishTriggers(l, b) \/ RefusePublish(l, b)
    BY <2>3 DEF Insert, PublishTriggers, RefusePublish
  <2>4. CASE \E l \in Lane, b \in Batch : FailInsert(l, b) \/ FailPublish(l, b)
    BY <2>4 DEF FailInsert, FailPublish
  <2>5. CASE \/ \E l \in Lane : Enqueue(l)
             \/ \E k \in TraceKey : StartRebuild(k) \/ EndRebuild(k) \/ FailRebuild(k)
    BY <2>5 DEF Enqueue, StartRebuild, EndRebuild, FailRebuild
  <2>6. CASE Crash \/ Expire \/ UNCHANGED vars
    BY <2>6 DEF Crash, Expire, vars
  <2> QED BY <2>1, <2>2, <2>3, <2>4, <2>5, <2>6 DEF Next, Step, Break
<1>3. \/ UNCHANGED log
      \/ \E b \in Batch : log' = [log EXCEPT !["ingest"] = Append(log["ingest"], b)]
      \/ \E b \in Batch : log' = [log EXCEPT !["rebuild"] = log["rebuild"] \o Triggers(b)]
  <2>1. CASE Request
    BY <2>1 DEF Request, PostInProcess, PostToBroker, LoseRequest
  <2>2. CASE \E l \in Lane, c \in Consumer : Deliver(l, c) \/ Check(l, c) \/ Mark(l, c) \/ End(l, c)
    BY <2>2 DEF Deliver, Check, Mark, End
  <2>3. CASE \E l \in Lane, b \in Batch : Insert(l, b) \/ PublishTriggers(l, b) \/ RefusePublish(l, b)
    BY <2>3 DEF Insert, PublishTriggers, RefusePublish
  <2>4. CASE \E l \in Lane, b \in Batch : FailInsert(l, b) \/ FailPublish(l, b)
    BY <2>4 DEF FailInsert, FailPublish
  <2>5. CASE \/ \E l \in Lane : Enqueue(l)
             \/ \E k \in TraceKey : StartRebuild(k) \/ EndRebuild(k) \/ FailRebuild(k)
    BY <2>5 DEF Enqueue, StartRebuild, EndRebuild, FailRebuild
  <2>6. CASE Crash \/ Expire \/ UNCHANGED vars
    BY <2>6 DEF Crash, Expire, vars
  <2> QED BY <2>1, <2>2, <2>3, <2>4, <2>5, <2>6 DEF Next, Step, Break
<1>4. ASSUME NEW l \in Lane, NEW b \in Batch, stored' = Copied(l, b), NEW a \in Batch, NEW t \in Table,
             stored[a][t] > 0
      PROVE  stored'[a][t] > 0
  <2>1. stored'[a][t] \in {stored[a][t], stored[a][t] + 1}
    BY <1>1, <1>4 DEF Copied
  <2>2. stored[a][t] \in Nat
    BY <1>1
  <2> QED BY <1>4, <2>1, <2>2
<1>5. ASSUME NEW b \in Batch, log' = [log EXCEPT !["ingest"] = Append(log["ingest"], b)]
      PROVE  /\ log'["rebuild"] = log["rebuild"]
             /\ Len(log["ingest"]) <= Len(log'["ingest"])
             /\ \A i \in 1 .. Len(log["ingest"]) : log'["ingest"][i] = log["ingest"][i]
  <2>1. log'["rebuild"] = log["rebuild"] /\ log'["ingest"] = Append(log["ingest"], b)
    BY <1>1, <1>5 DEF Consumer
  <2> QED BY <1>1, <2>1, AppendProperties
<1>6. ASSUME NEW b \in Batch, log' = [log EXCEPT !["rebuild"] = log["rebuild"] \o Triggers(b)]
      PROVE  /\ log'["ingest"] = log["ingest"]
             /\ Range(log["rebuild"]) \subseteq Range(log'["rebuild"])
             /\ Len(log["rebuild"]) <= Len(log'["rebuild"])
             /\ \A i \in 1 .. Len(log["rebuild"]) : log'["rebuild"][i] = log["rebuild"][i]
  <2> DEFINE r == log["rebuild"]
             t == Triggers(b)
  <2>1. log'["ingest"] = log["ingest"] /\ log'["rebuild"] = r \o t
    BY <1>1, <1>6 DEF Consumer
  <2>2. r \in Seq(Trigger) /\ t \in Seq(Trigger) /\ Len(r) \in Nat /\ Len(t) \in Nat
    BY <1>1, TriggersType, LenProperties
  <2> HIDE DEF r, t
  <2>3. /\ Range(r \o t) = Range(r) \union Range(t) /\ Len(r \o t) = Len(r) + Len(t)
        /\ \A i \in 1 .. Len(r) + Len(t) : (r \o t)[i] = IF i <= Len(r) THEN r[i] ELSE t[i - Len(r)]
    BY <2>2, RangeConcatenation, ConcatProperties
  <2>4. Len(r) <= Len(r \o t) /\ \A i \in 1 .. Len(r) : (r \o t)[i] = r[i]
    BY <2>2, <2>3
  <2> QED BY <2>1, <2>3, <2>4 DEF r
<1>7. \A b \in Batch, t \in Table : stored[b][t] > 0 => stored'[b][t] > 0
  BY <1>2, <1>4
<1>8. CASE UNCHANGED log
  BY <1>1, <1>7, <1>8 DEF Consumer
<1>9. CASE \E b \in Batch : log' = [log EXCEPT !["ingest"] = Append(log["ingest"], b)]
  BY <1>1, <1>5, <1>7, <1>9 DEF Consumer
<1>10. CASE \E b \in Batch : log' = [log EXCEPT !["rebuild"] = log["rebuild"] \o Triggers(b)]
  <2>1. PICK b \in Batch : log' = [log EXCEPT !["rebuild"] = log["rebuild"] \o Triggers(b)]
    BY <1>10
  <2>2. /\ log'["ingest"] = log["ingest"]
        /\ Range(log["rebuild"]) \subseteq Range(log'["rebuild"])
        /\ Len(log["rebuild"]) <= Len(log'["rebuild"])
        /\ \A i \in 1 .. Len(log["rebuild"]) : log'["rebuild"][i] = log["rebuild"][i]
    BY <1>6, <2>1
  <2> QED BY <1>1, <1>7, <2>2 DEF Consumer
<1> QED BY <1>3, <1>8, <1>9, <1>10

\* What is shown stays shown, what is stored stays stored.
LEMMA ShownStays ==
  ASSUME Shape, [Next]_vars
  PROVE  /\ shown \subseteq shown'
         /\ \A e : Shown(e) => Shown(e)'
         /\ \A e \in Trigger : RowsStored(e) => RowsStored(e)'
<1>1. shown \subseteq shown'
  <2>1. CASE Request
    BY <2>1 DEF Request, PostInProcess, PostToBroker, LoseRequest
  <2>2. CASE \E l \in Lane, c \in Consumer : Deliver(l, c) \/ Check(l, c) \/ Mark(l, c) \/ End(l, c)
    BY <2>2 DEF Deliver, Check, Mark, End
  <2>3. CASE \E l \in Lane, b \in Batch : Insert(l, b) \/ PublishTriggers(l, b) \/ RefusePublish(l, b)
    BY <2>3 DEF Insert, PublishTriggers, RefusePublish
  <2>4. CASE \E l \in Lane, b \in Batch : FailInsert(l, b) \/ FailPublish(l, b)
    BY <2>4 DEF FailInsert, FailPublish
  <2>5. CASE \/ \E l \in Lane : Enqueue(l)
             \/ \E k \in TraceKey : StartRebuild(k) \/ EndRebuild(k) \/ FailRebuild(k)
    BY <2>5 DEF Enqueue, StartRebuild, EndRebuild, FailRebuild
  <2>6. CASE Crash \/ Expire \/ UNCHANGED vars
    BY <2>6 DEF Crash, Expire, vars
  <2> QED BY <2>1, <2>2, <2>3, <2>4, <2>5, <2>6 DEF Next, Step, Break
<1>2. ASSUME NEW e \in Trigger, RowsStored(e) PROVE RowsStored(e)'
  <2>1. e[1] \in Batch
    BY DEF Trigger
  <2>2. Range(Tables[e[1]]) \subseteq Table
    BY <2>1, BatchAssumption, RangeOfSeq
  <2> QED BY <1>2, <2>1, <2>2, Grown DEF RowsStored
<1> QED BY <1>1, <1>2 DEF Shown

\* A batch that is done stays done.
LEMMA DoneStays ==
  ASSUME Shape, [Next]_vars, NEW b \in Batch, Done(b)
  PROVE  Done(b)'
<1>1. Range(Tables[b]) \subseteq Table
  BY BatchAssumption, RangeOfSeq
<1>2. ~Durable => \A e \in Range(Triggers(b)) : Shown(e)'
  BY ShownStays DEF Done
<1> QED BY <1>1, <1>2, Grown DEF Done

\* Where the ingest delivery of a lane is left alone, so is its progress.
LEMMA ProgressFrame ==
  ASSUME Shape, [Next]_vars, NEW l \in Lane, Progress(l), job'[l]["ingest"] = job[l]["ingest"]
  PROVE  Progress(l)'
<1> DEFINE j == job[l]["ingest"]
           b == Head(j.todo)
<1>1. /\ j \in Job("ingest") /\ Range(j.fresh) \subseteq Batch
      /\ j.pc \in {"handle", "await"} => /\ b \in Batch
                                        /\ \A i \in 1 .. Len(Tables[b]) : Tables[b][i] \in Table
                                        /\ Len(Tables[b]) \in Nat
  <2>1. GoodJob("ingest", j) /\ j.fresh \in Seq(Batch) /\ j.todo \in Seq(Batch)
    BY DEF Shape, JobsInv, GoodJob, Job, EventOf, Consumer
  <2>2. j.pc \in {"handle", "await"} => b \in Batch
    BY <2>1, HeadTailProperties DEF GoodJob
  <2>3. ASSUME b \in Batch
        PROVE  (\A i \in 1 .. Len(Tables[b]) : Tables[b][i] \in Table) /\ Len(Tables[b]) \in Nat
    <3>1. Tables[b] \in Seq(Table)
      BY <2>3, BatchAssumption
    <3> QED BY <3>1, LenProperties, ElementOfSeq
  <2>4. Range(j.fresh) \subseteq Batch
    BY <2>1, RangeOfSeq
  <2> QED BY <2>1, <2>2, <2>3, <2>4 DEF GoodJob
<1>2. j.written \in Nat
  BY <1>1 DEF Job
<1>3. \A a \in Range(j.fresh) : Done(a) => Done(a)'
  BY <1>1, DoneStays
<1>4. ASSUME j.pc \in {"handle", "await"}, NEW i \in 1 .. j.written
      PROVE  stored'[b][Tables[b][i]] > 0
  <2>1. j.written <= Len(Tables[b]) /\ stored[b][Tables[b][i]] > 0
    BY <1>4 DEF Progress
  <2>2. b \in Batch /\ Tables[b][i] \in Table
    <3>1. Len(Tables[b]) \in Nat /\ b \in Batch
      <4> HIDE DEF j, b
      <4> QED BY <1>1, <1>4
    <3>2. i \in 1 .. Len(Tables[b])
      BY <1>2, <2>1, <3>1
    <3> QED BY <1>1, <1>4, <3>1, <3>2
  <2> QED BY <2>1, <2>2, Grown
<1> QED BY <1>3, <1>4 DEF Progress

\* What was to be checked or was found fresh still is, unless it is done.
LEMMA CoveredFrame ==
  ASSUME Shape, [Next]_vars, NEW l \in Lane, Covered(l),
         committed'["ingest"] = committed["ingest"],
         job'[l]["ingest"].size = job[l]["ingest"].size,
         \A b \in Batch :
           b \in Range(job[l]["ingest"].events) \union Range(job[l]["ingest"].fresh) =>
             \/ b \in Range(job'[l]["ingest"].events) \union Range(job'[l]["ingest"].fresh)
             \/ Done(b)'
  PROVE  Covered(l)'
<1> DEFINE j == job[l]["ingest"]
<1>1. /\ committed["ingest"] \in Nat /\ j.size \in Nat
      /\ log["ingest"] \in Seq(Batch) /\ Len(log["ingest"]) \in Nat
  BY LenProperties DEF Shape, TypeOK, Job, EventOf, Consumer
<1>2. \A i \in committed["ingest"] + 1 .. committed["ingest"] + j.size :
        i \in 1 .. Len(log["ingest"]) /\ log["ingest"][i] \in Batch
  BY <1>1, ElementOfSeq DEF Covered
<1>3. \A i \in committed["ingest"] + 1 .. committed["ingest"] + j.size :
        log'["ingest"][i] = log["ingest"][i] /\ (Done(log["ingest"][i]) => Done(log["ingest"][i])')
  BY <1>2, Grown, DoneStays DEF Consumer
<1>4. committed["ingest"] + j.size <= Len(log'["ingest"])
  <2>1. Len(log["ingest"]) <= Len(log'["ingest"])
    BY Grown DEF Consumer
  <2>2. log'["ingest"] \in Seq(Batch)
    BY TypeStep DEF TypeOK, EventOf, Consumer
  <2> QED BY <1>1, <2>1, <2>2, LenProperties DEF Covered
<1>5. ASSUME NEW i \in committed["ingest"] + 1 .. committed["ingest"] + j.size
      PROVE  \E b \in Batch :
               /\ b = log'["ingest"][i]
               /\ \/ b \in Range(job'[l]["ingest"].events) \union Range(job'[l]["ingest"].fresh)
                  \/ Done(b)'
  <2>1. PICK b \in Batch : b = log["ingest"][i]
    BY <1>2
  <2>2. b = log'["ingest"][i] /\ (Done(b) => Done(b)')
    BY <1>3, <2>1, DoneStays
  <2>3. b \in Range(j.events) \/ b \in Range(j.fresh) \/ Done(b)
    BY <2>1 DEF Covered
  <2> QED BY <2>2, <2>3
<1> QED BY <1>4, <1>5 DEF Covered

\* Where no mark is set and no offset committed, nothing more is handled.
LEMMA MarkedFrame ==
  ASSUME Shape, [Next]_vars, MarkedInv, committed'["ingest"] = committed["ingest"],
         \A b \in Batch : <<"ingest", b>> \in marks' => <<"ingest", b>> \in marks
  PROVE  MarkedInv'
<1>1. /\ committed["ingest"] \in Nat
      /\ log["ingest"] \in Seq(Batch) /\ Len(log["ingest"]) \in Nat
      /\ Len(log'["ingest"]) \in Nat
  <2>1. log'["ingest"] \in Seq(Batch)
    BY TypeStep DEF TypeOK, EventOf, Consumer
  <2> QED BY <2>1, LenProperties DEF Shape, TypeOK, Job, EventOf, Consumer
<1>2. \A i \in 1 .. committed["ingest"] : log'["ingest"][i] = log["ingest"][i]
  BY <1>1, Grown DEF MarkedInv, Consumer
<1>3. committed'["ingest"] <= Len(log'["ingest"])
  BY <1>1, Grown DEF MarkedInv, Consumer
<1>4. ASSUME NEW b \in Batch, Handled("ingest", b)' PROVE Done(b)'
  <2>1. Handled("ingest", b)
    BY <1>2, <1>4 DEF Handled
  <2> QED BY <2>1, DoneStays DEF MarkedInv
<1> QED BY <1>3, <1>4 DEF MarkedInv

\* All of them together: a step that changes no ingest delivery, offset or mark.
LEMMA StoredFrame ==
  ASSUME Shape, [Next]_vars, StoredInv,
         \A l \in Lane : job'[l]["ingest"] \in {job[l]["ingest"], Idle},
         committed'["ingest"] = committed["ingest"],
         \A b \in Batch : <<"ingest", b>> \in marks' => <<"ingest", b>> \in marks
  PROVE  StoredInv'
<1>1. MarkedInv'
  BY MarkedFrame DEF StoredInv
<1>2. ASSUME NEW l \in Lane
      PROVE  Progress(l)' /\ (Durable /\ job'[l]["ingest"].pc /= "idle" => Covered(l)')
  <2>1. CASE job'[l]["ingest"] = job[l]["ingest"]
    BY <2>1, ProgressFrame, CoveredFrame DEF StoredInv, ProgressInv
  <2>2. CASE job'[l]["ingest"] = Idle
    <3>1. Idle.pc = "idle" /\ Idle.fresh = <<>> /\ Idle.events = <<>>
      BY DEF Idle
    <3> QED BY <2>2, <3>1 DEF Progress
  <2> QED BY <2>1, <2>2
<1> QED BY <1>1, <1>2 DEF StoredInv, ProgressInv

\* A delivery that has written all the tables of its batch and published its triggers goes on to
\* the next batch, or has them all done.
LEMMA PublishedProgress ==
  ASSUME Shape, [Next]_vars, NEW l \in Lane, Progress(l), job'[l]["ingest"] = Published(job[l]["ingest"]),
         job[l]["ingest"].pc \in {"handle", "await"},
         job[l]["ingest"].written = Len(Tables[Head(job[l]["ingest"].todo)]),
         \/ ~Durable /\ \A e \in Range(Triggers(Head(job[l]["ingest"].todo))) : Shown(e)
         \/ /\ Durable
            /\ log' = [log EXCEPT !["rebuild"] = log["rebuild"] \o Triggers(Head(job[l]["ingest"].todo))]
  PROVE  Progress(l)'
<1> DEFINE j == job[l]["ingest"]
<1>1. /\ j \in Job("ingest") /\ j.todo \in Seq(Batch) /\ j.todo /= <<>> /\ j.fresh \in Seq(Batch)
  BY DEF Shape, JobsInv, GoodJob, Job, EventOf, Consumer
<1>0. PICK b \in Batch : b = Head(j.todo)
  BY <1>1, RangeHeadTail
<1>2. /\ Range(j.todo) = {b} \union Range(Tail(j.todo))
      /\ (Len(j.todo) > 1) <=> (Tail(j.todo) /= <<>>)
      /\ Range(j.fresh) \subseteq Batch
  BY <1>0, <1>1, RangeHeadTail, RangeOfSeq
<1>3. Done(b)'
  <2>1. Tables[b] \in Seq(Table) /\ Range(Tables[b]) \subseteq Table
    BY BatchAssumption, RangeOfSeq
  <2>2. Range(Tables[b]) = {Tables[b][i] : i \in 1 .. Len(Tables[b])}
    BY <2>1, RangeEquality
  <2>3. \A i \in 1 .. Len(Tables[b]) : stored[b][Tables[b][i]] > 0
    BY <1>0 DEF Progress
  <2>4. \A t \in Range(Tables[b]) : stored'[b][t] > 0
    BY <2>1, <2>2, <2>3, Grown
  <2>5. CASE ~Durable /\ \A e \in Range(Triggers(b)) : Shown(e)
    <3>1. \A e \in Range(Triggers(b)) : Shown(e)'
      BY <2>5, ShownStays
    <3> QED BY <2>4, <2>5, <3>1 DEF Done
  <2>6. CASE Durable /\ log' = [log EXCEPT !["rebuild"] = log["rebuild"] \o Triggers(b)]
    <3>1. /\ log["rebuild"] \in Seq(Trigger) /\ log \in [Consumer -> Seq(Batch \union Trigger)]
      BY DEF Shape, TypeOK, EventOf, Consumer
    <3>2. log'["rebuild"] = log["rebuild"] \o Triggers(b)
      BY <2>6, <3>1 DEF Consumer
    <3>3. Range(Triggers(b)) \subseteq Range(log'["rebuild"])
      <4> DEFINE r == log["rebuild"]
                 t == Triggers(b)
      <4>1. r \in Seq(Trigger) /\ t \in Seq(Trigger)
        BY <3>1, TriggersType
      <4>2. log'["rebuild"] = r \o t
        BY <3>2
      <4> HIDE DEF r, t
      <4>3. Range(r \o t) = Range(r) \union Range(t)
        BY <4>1, RangeConcatenation
      <4> QED BY <4>2, <4>3 DEF t
    <3> QED BY <2>4, <2>6, <3>3 DEF Done
  <2> QED BY <1>0, <2>5, <2>6
<1>4. \A a \in Range(j.fresh) : a \in Range(Tail(j.todo)) \/ Done(a)'
  BY <1>2, <1>3, DoneStays DEF Progress
<1>5. j.events = <<>>
  BY DEF Progress
<1>6. Range(<<>>) = {}
  BY DEF Range
<1>7. LET new == Published(j)
      IN /\ new.pc = IF Tail(j.todo) /= <<>> THEN "handle" ELSE "mark"
         /\ new.todo = Tail(j.todo) /\ new.written = 0 /\ new.fresh = j.fresh /\ new.events = <<>>
  BY <1>1, <1>2, <1>5, PublishedFields
<1>8. Tail(j.todo) /= <<>> => Len(Tables[Head(Tail(j.todo))]) \in Nat
  BY <1>1, HeadTailProperties, BatchAssumption, LenProperties
<1> DEFINE new == job'[l]["ingest"]
<1>9. /\ new.pc = IF Tail(j.todo) /= <<>> THEN "handle" ELSE "mark"
      /\ new.todo = Tail(j.todo) /\ new.written = 0 /\ new.fresh = j.fresh /\ new.events = <<>>
  BY <1>7
<1>10. CASE Tail(j.todo) /= <<>>
  <2>1. /\ new.pc = "handle" /\ new.written = 0
        /\ \A a \in Range(new.fresh) : a \in Range(new.todo) \/ Done(a)'
    BY <1>4, <1>9, <1>10
  <2>2. Len(Tables[Head(new.todo)]) \in Nat
    BY <1>8, <1>9, <1>10
  <2>3. new.written <= Len(Tables[Head(new.todo)]) /\ 1 .. new.written = {}
    BY <2>1, <2>2
  <2> QED BY <1>9, <2>1, <2>3 DEF Progress
<1>11. CASE Tail(j.todo) = <<>>
  <2>1. new.pc = "mark" /\ \A a \in Range(new.fresh) : Done(a)'
    BY <1>4, <1>6, <1>9, <1>11
  <2> QED BY <1>9, <2>1 DEF Progress
<1> QED BY <1>10, <1>11

\* Each step writes before it marks and commits.
LEMMA StoredStep ==
  ASSUME Shape, StoredInv, ~Durable => ShownInv, [Next]_vars
  PROVE  StoredInv'
<1> DEFINE j(l) == job[l]["ingest"]
<1>0. /\ \A l \in Lane : j(l) \in Job("ingest") /\ GoodJob("ingest", j(l))
      /\ Idle.pc = "idle"
      /\ committed["ingest"] \in Nat /\ log["ingest"] \in Seq(Batch) /\ Len(log["ingest"]) \in Nat
  BY LenProperties DEF Shape, JobsInv, TypeOK, EventOf, Consumer, GoodJob, Idle
<1>a. ASSUME NEW l \in Lane, Throw(l, "ingest"), UNCHANGED marks PROVE StoredInv'
  BY <1>a, ThrowEffect, StoredFrame DEF Throw, Consumer
<1>b. ASSUME NEW l \in Lane, Progress(l)', Durable /\ job'[l]["ingest"].pc /= "idle" => Covered(l)',
             \A m \in Lane : m /= l => job'[m]["ingest"] = job[m]["ingest"],
             committed'["ingest"] = committed["ingest"],
             MarkedInv'
      PROVE  StoredInv'
  <2>1. ASSUME NEW m \in Lane, m /= l
        PROVE  Progress(m)' /\ (Durable /\ job'[m]["ingest"].pc /= "idle" => Covered(m)')
    BY <1>b, <2>1, ProgressFrame, CoveredFrame DEF StoredInv, ProgressInv
  <2> QED BY <1>b, <2>1 DEF StoredInv, ProgressInv
<1>1. ASSUME NEW b \in Batch, NEW l \in Lane, PostInProcess(b, l) PROVE StoredInv'
  <2>1. <<b>> \in Seq(EventOf("ingest")) /\ <<b>> /= <<>>
    BY DEF EventOf
  <2>2. /\ job'[l]["ingest"] = Delivery(<<b>>) /\ ~Durable
        /\ \A m \in Lane : m /= l => job'[m]["ingest"] = job[m]["ingest"]
    BY <1>1, PutEffect DEF PostInProcess, Consumer
  <2>5. /\ Delivery(<<b>>).pc = "check" /\ Delivery(<<b>>).fresh = <<>>
        /\ Delivery(<<b>>).written = 0
    BY <2>1, DeliveryGood DEF Consumer
  <2>3. Progress(l)'
    BY <2>2, <2>5 DEF Progress
  <2>4. MarkedInv'
    BY <1>1, MarkedFrame DEF PostInProcess, StoredInv
  <2> QED BY <1>1, <1>b, <2>2, <2>3, <2>4 DEF PostInProcess
<1>2. ASSUME NEW b \in Batch, PostToBroker(b) \/ LoseRequest(b) PROVE StoredInv'
  BY <1>2, StoredFrame DEF PostToBroker, LoseRequest
<1>3. ASSUME NEW l \in Lane, Deliver(l, "ingest") PROVE StoredInv'
  <2> DEFINE from == committed["ingest"]
             all == log["ingest"]
  <2>1. PICK n \in 1 .. MaxPoll :
          /\ from + n <= Len(all)
          /\ Put(l, "ingest", Delivery(SubSeq(all, from + 1, from + n)))
    BY <1>3 DEF Deliver
  <2>2. n \in Nat \ {0} /\ \A i \in from + 1 .. from + n : all[i] \in Batch
    BY <1>0, <2>1, BoundAssumption, ElementOfSeq
  <2> DEFINE run == SubSeq(all, from + 1, from + n)
  <2>3. run \in Seq(Batch) /\ Len(run) = n /\ \A i \in 1 .. n : run[i] = all[from + i]
    <3>1. from \in Nat /\ all \in Seq(Batch) /\ n \in Nat /\ from + n <= Len(all)
      BY <1>0, <2>1, <2>2
    <3> HIDE DEF from, all
    <3> QED BY <3>1, SubSeqRun DEF run
  <2> HIDE DEF run
  <2>4. run /= <<>> /\ \A i \in from + 1 .. from + n : all[i] \in Range(run)
    <3>1. run /= <<>>
      BY <2>2, <2>3, EmptySeq
    <3>2. ASSUME NEW i \in from + 1 .. from + n PROVE all[i] \in Range(run)
      <4>1. i - from \in 1 .. n /\ run[i - from] = all[i]
        BY <1>0, <2>2, <2>3
      <4> QED BY <2>3, <4>1, RangeEquality
    <3> QED BY <3>1, <3>2
  <2>5. /\ job'[l]["ingest"] = Delivery(run)
        /\ \A m \in Lane : m /= l => job'[m]["ingest"] = job[m]["ingest"]
    BY <2>1, PutEffect DEF Consumer, run
  <2>6. /\ Delivery(run).pc = "check" /\ Delivery(run).events = run /\ Delivery(run).fresh = <<>>
        /\ Delivery(run).written = 0 /\ Delivery(run).size = n
    BY <2>3, <2>4, DeliveryGood DEF EventOf, Consumer
  <2>7. Progress(l)'
    BY <2>5, <2>6 DEF Progress
  <2>8. Covered(l)'
    BY <1>3, <2>1, <2>4, <2>5, <2>6 DEF Covered, Deliver
  <2>9. MarkedInv'
    BY <1>3, MarkedFrame DEF Deliver, StoredInv
  <2> QED BY <1>3, <1>b, <2>5, <2>7, <2>8, <2>9 DEF Deliver
<1>4. ASSUME NEW l \in Lane, Check(l, "ingest") PROVE StoredInv'
  <2> DEFINE e == Head(j(l).events)
             new == job'[l]["ingest"]
  <2>1. /\ j(l).events \in Seq(Batch) /\ j(l).events /= <<>> /\ j(l).fresh \in Seq(Batch)
        /\ j(l).pc = "check" /\ j(l).written = 0
    BY <1>0, <1>4 DEF GoodJob, Job, EventOf, Check, StoredInv, ProgressInv, Progress
  <2>2. /\ e \in Batch /\ Range(j(l).events) = {e} \union Range(Tail(j(l).events))
        /\ (Len(j(l).events) > 1) <=> (Tail(j(l).events) /= <<>>)
    BY <2>1, RangeHeadTail
  <2>3. /\ Unmoved(l, "ingest") /\ new.size = j(l).size /\ new.written = 0
        /\ new.events = Tail(j(l).events)
        /\ new.fresh = Filtered("ingest", j(l).fresh, e) /\ new.todo = new.fresh
        /\ new.pc = IF Len(j(l).events) > 1 THEN "check"
                    ELSE IF new.fresh = <<>> THEN "end" ELSE "handle"
    BY <1>4, <2>1, CheckEffect DEF Consumer
  <2>4. /\ Range(j(l).fresh) \subseteq Range(new.fresh)
        /\ e \in Range(new.fresh) \/ Handled("ingest", e)
    <3>1. CASE e \in Range(j(l).fresh) \/ <<"ingest", e>> \in marks
      BY <2>3, <3>1 DEF Filtered, Handled
    <3>2. CASE ~(e \in Range(j(l).fresh) \/ <<"ingest", e>> \in marks)
      <4>1. new.fresh = Append(j(l).fresh, e)
        BY <2>3, <3>2 DEF Filtered
      <4>2. Range(Append(j(l).fresh, e)) = Range(j(l).fresh) \union {e}
        <5>1. j(l).fresh \in Seq(Batch) /\ e \in Batch
          BY <2>1, <2>2
        <5> HIDE DEF j, e
        <5> QED BY <5>1, RangeAppend
      <4> QED BY <4>1, <4>2
    <3> QED BY <3>1, <3>2
  <2>5. Handled("ingest", e) => \A a \in Batch : a = e => Done(a)'
    BY <2>2, DoneStays DEF StoredInv, MarkedInv
  <2>6. new.pc = "handle" => Len(Tables[Head(new.todo)]) \in Nat
    <3>1. job'[l]["ingest"].todo \in Seq(Batch)
      BY JobsStep DEF JobsInv, GoodJob, Job, EventOf, Consumer
    <3> QED BY <2>3, <3>1, HeadTailProperties, BatchAssumption, LenProperties
  <2>7. Progress(l)'
    <3>1. CASE new.pc = "check"
      BY <2>3, <3>1 DEF Progress
    <3>2. CASE new.pc = "end"
      BY <2>2, <2>3, <3>2 DEF Progress
    <3>3. CASE new.pc = "handle"
      <4>1. new.events = <<>> /\ new.written = 0 /\ new.todo = new.fresh
        BY <2>2, <2>3, <3>3
      <4>2. new.written <= Len(Tables[Head(new.todo)]) /\ 1 .. new.written = {}
        BY <2>6, <3>3, <4>1
      <4> QED BY <3>3, <4>1, <4>2 DEF Progress
    <3> QED BY <2>3, <3>1, <3>2, <3>3
  <2>8. Durable => Covered(l)'
    <3>1. Durable => Covered(l)
      BY <2>1 DEF StoredInv, ProgressInv
    <3>2. \A a \in Batch : a \in Range(j(l).events) \union Range(j(l).fresh) =>
            a \in Range(new.events) \union Range(new.fresh) \/ Done(a)'
      BY <2>2, <2>3, <2>4, <2>5
    <3> QED BY <1>4, <2>3, <3>1, <3>2, CoveredFrame DEF Check
  <2>9. MarkedInv'
    BY <1>4, MarkedFrame DEF Check, StoredInv
  <2> QED BY <1>4, <1>b, <2>3, <2>7, <2>8, <2>9 DEF Check, Unmoved, Consumer
<1>5. ASSUME NEW l \in Lane, Mark(l, "ingest") PROVE StoredInv'
  <2> DEFINE new == job'[l]["ingest"]
  <2>1. j(l).fresh \in Seq(Batch) /\ j(l).fresh /= <<>> /\ j(l).pc = "mark" /\ j(l).events = <<>>
    BY <1>0, <1>5 DEF GoodJob, Job, EventOf, Mark, StoredInv, ProgressInv, Progress
  <2>2. PICK e \in Batch : e = Head(j(l).fresh)
    BY <2>1, RangeHeadTail
  <2>3. /\ Range(j(l).fresh) = {e} \union Range(Tail(j(l).fresh))
        /\ (Len(j(l).fresh) > 1) <=> (Tail(j(l).fresh) /= <<>>)
        /\ Range(j(l).fresh) \subseteq Batch
    BY <2>1, <2>2, RangeHeadTail, RangeOfSeq
  <2>4. /\ Unmoved(l, "ingest") /\ new.size = j(l).size /\ new.events = <<>>
        /\ new.fresh = Tail(j(l).fresh) /\ new.pc = IF Len(j(l).fresh) > 1 THEN "mark" ELSE "end"
    BY <1>5, <2>1, MarkEffect DEF Consumer
  <2>5. \A a \in Range(j(l).fresh) : Done(a)'
    BY <2>1, <2>3, DoneStays DEF StoredInv, ProgressInv, Progress
  <2>6. Progress(l)'
    BY <2>3, <2>4, <2>5 DEF Progress
  <2>7. Durable => Covered(l)'
    <3>1. Durable => Covered(l)
      BY <2>1 DEF StoredInv, ProgressInv
    <3>2. Range(<<>>) = {}
      BY DEF Range
    <3> QED BY <1>5, <2>1, <2>4, <2>5, <3>1, <3>2, CoveredFrame DEF Mark
  <2>8. MarkedInv'
    <3>1. /\ marks' = marks \union {<<"ingest", e>>} /\ log' = log /\ committed' = committed
      BY <1>5, <2>2 DEF Mark
    <3>2. Done(e)'
      BY <2>3, <2>5
    <3>3. ASSUME NEW b \in Batch, Handled("ingest", b)' PROVE Done(b)'
      <4>1. CASE b = e
        BY <3>2, <4>1
      <4>2. CASE b /= e
        <5>1. Handled("ingest", b)
          BY <3>1, <3>3, <4>2 DEF Handled
        <5> QED BY <5>1, DoneStays DEF StoredInv, MarkedInv
      <4> QED BY <4>1, <4>2
    <3> QED BY <3>1, <3>3 DEF StoredInv, MarkedInv
  <2> QED BY <1>5, <1>b, <2>4, <2>6, <2>7, <2>8 DEF Mark, Unmoved, Consumer
<1>6. ASSUME NEW l \in Lane, End(l, "ingest") PROVE StoredInv'
  <2>1. CASE ~Durable
    BY <1>6, <2>1, PutEffect, StoredFrame DEF End, Consumer
  <2>2. CASE Durable
    <3>1. /\ j(l).pc = "end" /\ j(l).fresh = <<>> /\ j(l).events = <<>> /\ Covered(l)
          /\ j(l).size \in Nat
      BY <1>0, <1>6, <2>2 DEF End, StoredInv, ProgressInv, Progress, Job
    <3>2. /\ committed'["ingest"] = committed["ingest"] + j(l).size
          /\ log' = log /\ marks' = marks /\ Put(l, "ingest", Idle)
      BY <1>6, <2>2 DEF End, Shape, TypeOK, Consumer
    <3>3. Range(<<>>) = {}
      BY DEF Range
    <3>4. \A i \in committed["ingest"] + 1 .. committed["ingest"] + j(l).size : Done(log["ingest"][i])
      BY <3>1, <3>3 DEF Covered
    <3>5. ASSUME NEW b \in Batch, Handled("ingest", b)' PROVE Done(b)'
      <4>1. Done(b)
        <5>1. CASE <<"ingest", b>> \in marks
          BY <5>1 DEF StoredInv, MarkedInv, Handled
        <5>2. CASE <<"ingest", b>> \notin marks
          <6>1. PICK i \in 1 .. committed["ingest"] + j(l).size : log["ingest"][i] = b
            BY <3>2, <3>5, <5>2 DEF Handled
          <6>2. CASE i <= committed["ingest"]
            <7>1. i \in 1 .. committed["ingest"]
              BY <1>0, <3>1, <6>1, <6>2
            <7> QED BY <6>1, <7>1 DEF StoredInv, MarkedInv, Handled
          <6>3. CASE i > committed["ingest"]
            BY <1>0, <3>1, <3>4, <6>1, <6>3
          <6> QED BY <1>0, <3>1, <6>2, <6>3
        <5> QED BY <5>1, <5>2
      <4> QED BY <4>1, DoneStays
    <3>6. MarkedInv'
      BY <3>1, <3>2, <3>5 DEF MarkedInv, Covered
    <3>7. \A m \in Lane : m = l
      BY <2>2, LaneAssumption
    <3>8. job'[l]["ingest"] = Idle
      BY <3>2, PutEffect DEF Consumer
    <3>9. Progress(l)'
      BY <1>0, <3>8 DEF Progress, Idle
    <3> QED BY <1>0, <3>6, <3>7, <3>8, <3>9 DEF StoredInv, ProgressInv
  <2> QED BY <2>1, <2>2
<1>7. ASSUME NEW l \in Lane, End(l, "rebuild") PROVE StoredInv'
  <2>1. CASE Durable
    <3>1. Put(l, "rebuild", Idle) /\ marks' = marks /\ committed'["ingest"] = committed["ingest"]
      BY <1>7, <2>1 DEF End, Shape, TypeOK, Consumer
    <3> QED BY <3>1, PutEffect, StoredFrame DEF Consumer
  <2>2. CASE ~Durable
    <3>1. j(l).pc = "await"
      BY <1>7, <2>2 DEF End, Shape, Nested
    <3>2. /\ job'[l]["ingest"] = Published(job[l]["ingest"])
          /\ \A m \in Lane : m /= l => job'[m]["ingest"] = job[m]["ingest"]
      BY <1>7, <2>2, PutBothEffect DEF End, Consumer
    <3>3. Progress(l) /\ j(l).written = Len(Tables[Head(j(l).todo)])
      BY <3>1 DEF StoredInv, ProgressInv, Progress
    <3>6. \A e \in Range(Triggers(Head(j(l).todo))) : Shown(e)
      <4>1. Awaits(l) /\ Inside(l) /\ job[l]["rebuild"].pc = "end"
        BY <1>7, <2>2 DEF ShownInv, AwaitsInv, End
      <4>2. Range(<<>>) = {}
        BY DEF Range
      <4> QED BY <3>1, <4>1, <4>2 DEF Awaits, Inside, At
    <3>4. Progress(l)'
      BY <2>2, <3>1, <3>2, <3>3, <3>6, PublishedProgress
    <3>5. MarkedInv'
      BY <1>7, <2>2, MarkedFrame DEF End, StoredInv
    <3> QED BY <1>7, <1>b, <2>2, <3>2, <3>4, <3>5 DEF End
  <2> QED BY <2>1, <2>2
<1>8. ASSUME NEW l \in Lane, NEW b \in Batch, Insert(l, b) PROVE StoredInv'
  <2> DEFINE new == job'[l]["ingest"]
             t == NextTable(l, b)
  <2>0. /\ j(l).written \in Nat /\ j(l).fresh \in Seq(Batch)
        /\ Tables[b] \in Seq(Table) /\ Len(Tables[b]) \in Nat
    BY <1>0, BatchAssumption, LenProperties DEF Job, EventOf
  <2>1. /\ b = Head(j(l).todo) /\ j(l).pc = "handle" /\ j(l).written \in Nat
        /\ j(l).written < Len(Tables[b]) /\ Len(Tables[b]) \in Nat /\ t \in Table
        /\ j(l).fresh \in Seq(Batch)
    <3>1. b = Head(j(l).todo) /\ j(l).pc = "handle" /\ j(l).written < Len(Tables[b])
      BY <1>8 DEF Insert, Writing
    <3>2. j(l).written + 1 \in 1 .. Len(Tables[b])
      BY <2>0, <3>1
    <3> QED BY <2>0, <3>1, <3>2, ElementOfSeq DEF NextTable
  <2>2. /\ Unmoved(l, "ingest") /\ new.written = j(l).written + 1 /\ new.pc = "handle"
        /\ new.fresh = j(l).fresh /\ new.todo = j(l).todo /\ new.events = j(l).events
        /\ new.size = j(l).size
    BY <1>8, <2>1, InsertEffect
  <2>3. stored'[b][t] > 0
    <3>1. stored \in [Batch -> [Table -> Nat]] /\ stored' = Copied(l, b)
      BY <1>8 DEF Insert, Shape, TypeOK
    <3>2. stored'[b][t] = IF stored[b][t] < CopyCap THEN stored[b][t] + 1 ELSE stored[b][t]
      BY <2>1, <3>1 DEF Copied
    <3>3. stored[b][t] \in Nat
      BY <2>1, <3>1
    <3> QED BY <3>2, <3>3, BoundAssumption DEF CopyCap
  <2>4. \A i \in 1 .. new.written : stored'[b][Tables[b][i]] > 0
    <3> TAKE i \in 1 .. new.written
    <3>1. CASE i = j(l).written + 1
      BY <2>3, <3>1 DEF NextTable
    <3>2. CASE i \in 1 .. j(l).written
      <4>1. stored[b][Tables[b][i]] > 0
        BY <2>1, <3>2 DEF StoredInv, ProgressInv, Progress
      <4>2. i \in 1 .. Len(Tables[b])
        BY <2>1, <3>2
      <4>3. Tables[b][i] \in Table
        BY <2>0, <4>2, ElementOfSeq
      <4> QED BY <4>1, <4>3, Grown
    <3>3. i = j(l).written + 1 \/ i \in 1 .. j(l).written
      BY <2>1, <2>2
    <3> QED BY <3>1, <3>2, <3>3
  <2>5. /\ \A a \in Range(new.fresh) : a \in Range(new.todo) \/ Done(a)'
        /\ new.events = <<>>
    BY <2>1, <2>2, RangeOfSeq, DoneStays DEF StoredInv, ProgressInv, Progress
  <2>6. Progress(l)'
    <3>1. new.written <= Len(Tables[b]) /\ b = Head(new.todo)
      BY <2>1, <2>2
    <3> HIDE DEF t
    <3> QED BY <2>2, <2>4, <2>5, <3>1 DEF Progress
  <2>7. Durable => Covered(l)'
    BY <1>8, <2>1, <2>2, CoveredFrame DEF StoredInv, ProgressInv, Insert
  <2>8. MarkedInv'
    BY <1>8, MarkedFrame DEF Insert, StoredInv
  <2> QED BY <1>8, <1>b, <2>2, <2>6, <2>7, <2>8 DEF Insert, Unmoved, Consumer
<1>9. ASSUME NEW l \in Lane, NEW b \in Batch,
             FailInsert(l, b) \/ FailPublish(l, b) \/ RefusePublish(l, b)
      PROVE  StoredInv'
  BY <1>a, <1>9 DEF FailInsert, FailPublish, RefusePublish
<1>10. ASSUME NEW l \in Lane, NEW b \in Batch, PublishTriggers(l, b) PROVE StoredInv'
  <2>1. /\ j(l).pc = "handle" /\ b = Head(j(l).todo) /\ j(l).written = Len(Tables[b])
        /\ \A m \in Lane : m /= l => job'[m]["ingest"] = job[m]["ingest"]
        /\ Progress(l) /\ (Durable => Covered(l))
    BY <1>10, PublishEffect DEF Consumer, StoredInv, ProgressInv
  <2>2. MarkedInv' /\ committed' = committed
    BY <1>10, MarkedFrame DEF PublishTriggers, StoredInv
  <2>3. CASE Durable
    <3>1. /\ job'[l]["ingest"] = Published(job[l]["ingest"])
          /\ log' = [log EXCEPT !["rebuild"] = log["rebuild"] \o Triggers(b)]
      BY <1>10, <2>3, PublishEffect
    <3>2. Progress(l)'
      BY <2>1, <2>3, <3>1, PublishedProgress
    <3>3. /\ Published(j(l)).size = j(l).size /\ Published(j(l)).fresh = j(l).fresh
          /\ Published(j(l)).events = j(l).events
      BY <1>0, PublishedFields
    <3>4. Covered(l)'
      BY <2>1, <2>2, <2>3, <3>1, <3>3, CoveredFrame
    <3> QED BY <1>b, <2>1, <2>2, <3>2, <3>4
  <2>4. CASE ~Durable
    <3>1. job'[l]["ingest"] = [j(l) EXCEPT !.pc = "await"]
      BY <1>10, <2>4, PublishEffect
    <3> DEFINE new == job'[l]["ingest"]
    <3>2. /\ new.pc = "await" /\ new.written = j(l).written /\ new.todo = j(l).todo
          /\ new.fresh = j(l).fresh /\ new.events = j(l).events
      BY <1>0, <3>1 DEF Job
    <3>3. /\ stored' = stored /\ log' = log
      BY <1>10, <2>4 DEF PublishTriggers
    <3>4. /\ j(l).events = <<>> /\ Len(Tables[b]) \in Nat
          /\ \A i \in 1 .. j(l).written : stored[b][Tables[b][i]] > 0
          /\ \A a \in Range(j(l).fresh) : a \in Range(j(l).todo) \/ Done(a)
      BY <2>1, BatchAssumption, LenProperties DEF Progress
    <3>5. \A a \in Range(j(l).fresh) : Done(a) => Done(a)'
      <4>1. Range(j(l).fresh) \subseteq Batch
        BY <1>0, RangeOfSeq DEF Job, EventOf
      <4> QED BY <4>1, DoneStays
    <3>6. Progress(l)'
      BY <2>1, <3>2, <3>3, <3>4, <3>5 DEF Progress
    <3> QED BY <1>b, <2>1, <2>2, <2>4, <3>6
  <2> QED BY <2>3, <2>4
<1>11. ASSUME NEW l \in Lane,
              \/ Deliver(l, "rebuild") \/ Check(l, "rebuild") \/ Mark(l, "rebuild") \/ Enqueue(l)
       PROVE  StoredInv'
  <2>1. \A m \in Lane : job'[m]["ingest"] = job[m]["ingest"]
    <3>1. \E r : Put(l, "rebuild", r)
      BY <1>11 DEF Deliver, Check, Mark, Enqueue
    <3> QED BY <3>1, PutEffect DEF Consumer
  <2>2. /\ committed' = committed
        /\ \A b \in Batch : <<"ingest", b>> \in marks' => <<"ingest", b>> \in marks
    BY <1>11 DEF Deliver, Check, Mark, Enqueue
  <2> QED BY <2>1, <2>2, StoredFrame
<1>12. ASSUME NEW k \in TraceKey, StartRebuild(k) PROVE StoredInv'
  BY <1>12, StoredFrame DEF StartRebuild
<1>13. ASSUME NEW k \in TraceKey, rebuilds[k].running
       PROVE  Waiter(k) \in Lane \union {Nobody}
  BY <1>13, QueueType
<1>14. ASSUME NEW k \in TraceKey, EndRebuild(k) PROVE StoredInv'
  <2>1. \A m \in Lane : job'[m]["ingest"] = job[m]["ingest"]
    <3>1. CASE Waiter(k) = Nobody
      BY <1>14, <3>1 DEF EndRebuild
    <3>2. CASE Waiter(k) /= Nobody
      <4>1. Waiter(k) \in Lane /\ \E r : Put(Waiter(k), "rebuild", r)
        BY <1>13, <1>14, <3>2 DEF EndRebuild
      <4> QED BY <4>1, PutEffect DEF Consumer
    <3> QED BY <3>1, <3>2
  <2> QED BY <1>14, <2>1, StoredFrame DEF EndRebuild
<1>15. ASSUME NEW k \in TraceKey, FailRebuild(k) PROVE StoredInv'
  <2>1. CASE Waiter(k) = Nobody
    BY <1>15, <2>1, StoredFrame DEF FailRebuild
  <2>2. CASE Waiter(k) /= Nobody
    <3>1. Waiter(k) \in Lane /\ Throw(Waiter(k), "rebuild") /\ marks' = marks
      BY <1>13, <1>15, <2>2 DEF FailRebuild
    <3>2. \A m \in Lane : job'[m]["ingest"] \in {job[m]["ingest"], Idle}
      BY <3>1, ThrowEffect DEF Consumer
    <3>3. committed' = committed
      BY <3>1 DEF Throw
    <3> QED BY <3>1, <3>2, <3>3, StoredFrame
  <2> QED BY <2>1, <2>2
<1>16. CASE Crash
  <2>1. \A m \in Lane : job'[m]["ingest"] = Idle
    BY <1>16 DEF Crash, Consumer
  <2> QED BY <1>16, <2>1, StoredFrame DEF Crash
<1>17. CASE Expire
  BY <1>17, StoredFrame DEF Expire
<1>18. CASE UNCHANGED vars
  BY <1>18, StoredFrame DEF vars
<1> QED BY <1>1, <1>2, <1>3, <1>4, <1>5, <1>6, <1>7, <1>8, <1>9, <1>10, <1>11, <1>12, <1>14,
           <1>15, <1>16, <1>17, <1>18 DEF Next, Request, Step, Break, Consumer

-----------------------------------------------------------------------------
(* What a delivery of triggers waits for. *)

\* The triggers of a batch are its own, one for each of its traces.
LEMMA OfOneBatch ==
  ASSUME NEW b \in Batch
  PROVE  /\ Range(Triggers(b)) \subseteq Trigger
         /\ \A e \in Range(Triggers(b)) : e[1] = b
         /\ \A e, f \in Range(Triggers(b)) : e[2] = f[2] => KeyOf(e) = KeyOf(f)
<1>1. Triggers(b) \in Seq(Trigger)
  BY TriggersType
<1>2. ASSUME NEW e \in Range(Triggers(b)) PROVE e[1] = b
  <2>1. PICK i \in DOMAIN Triggers(b) : e = Triggers(b)[i]
    BY DEF Range
  <2>2. Triggers(b)[i] = <<b, Traces[b][i]>>
    BY DEF Triggers
  <2> QED BY <2>1, <2>2
<1> QED BY <1>1, <1>2, RangeOfSeq DEF KeyOf

\* The rebuilds of the last triggers of each trace id are those of all, if a trace id has one owner.
LEMMA LastStandsForAll ==
  ASSUME NEW s \in Seq(Trigger), NEW e \in Range(s),
         \A f \in Range(s) : e[2] = f[2] => KeyOf(e) = KeyOf(f)
  PROVE  KeyOf(e) \in {KeyOf(f) : f \in LastPerTrace(s)}
<1>1. /\ Len(s) \in Nat /\ DOMAIN s = 1 .. Len(s) /\ Range(s) = {s[i] : i \in 1 .. Len(s)}
  BY LenProperties, RangeEquality
<1> DEFINE S == {Len(s) - i : i \in {i \in 1 .. Len(s) : s[i][2] = e[2]}}
<1>2. S \subseteq Nat /\ S /= {}
  BY <1>1
<1>3. PICK x \in S : \A y \in S : ~ (<<y, x>> \in OpToRel(<, Nat))
  <2>1. IsWellFoundedOn(OpToRel(<, Nat), Nat)
    BY NatLessThanWellFounded
  <2> HIDE DEF S
  <2> QED BY <1>2, <2>1, WFMin
<1>4. \A y \in S : ~ (y < x)
  <2>1. OpToRel(<, Nat) = {ss \in Nat \X Nat : ss[1] < ss[2]}
    BY Zenon DEF OpToRel
  <2> DEFINE less == OpToRel(<, Nat)
  <2>2. x \in Nat /\ \A y \in S : y \in Nat /\ ~ (<<y, x>> \in less)
    BY <1>2, <1>3
  <2>3. less = {ss \in Nat \X Nat : ss[1] < ss[2]}
    BY <2>1
  <2> HIDE DEF less, S
  <2> QED BY <2>2, <2>3
<1>5. PICK i \in 1 .. Len(s) : s[i][2] = e[2] /\ x = Len(s) - i
  OBVIOUS
<1>6. \A k \in 1 .. Len(s) : k > i => s[k][2] /= e[2]
  <2> SUFFICES ASSUME NEW k \in 1 .. Len(s), k > i, s[k][2] = e[2] PROVE FALSE
    OBVIOUS
  <2>1. Len(s) - k \in S
    OBVIOUS
  <2>2. Len(s) - k < x
    BY <1>1, <1>5
  <2> QED BY <1>4, <2>1, <2>2
<1>7. s[i] \in LastPerTrace(s) /\ s[i] \in Range(s)
  BY <1>1, <1>5, <1>6 DEF LastPerTrace
<1> QED BY <1>5, <1>7

\* The types of a delivery of triggers.
LEMMA AtType ==
  ASSUME Shape, NEW l \in Lane
  PROVE  /\ job[l]["rebuild"] \in Job("rebuild") /\ GoodJob("rebuild", job[l]["rebuild"])
         /\ job[l]["rebuild"].events \in Seq(Trigger) /\ job[l]["rebuild"].fresh \in Seq(Trigger)
         /\ At(l) \subseteq Trigger
<1>1. /\ job[l]["rebuild"] \in Job("rebuild") /\ GoodJob("rebuild", job[l]["rebuild"])
      /\ job[l]["rebuild"].events \in Seq(Trigger) /\ job[l]["rebuild"].fresh \in Seq(Trigger)
  BY DEF Shape, JobsInv, GoodJob, Job, EventOf, Consumer
<1> QED BY <1>1, RangeOfSeq DEF At

\* A delivery that is left alone keeps what it waits for.
LEMMA AwaitsFrame ==
  ASSUME Shape, [Next]_vars, NEW l \in Lane, Awaits(l), job'[l]["rebuild"] = job[l]["rebuild"]
  PROVE  Awaits(l)'
<1>1. At(l)' = At(l) /\ At(l) \subseteq Trigger /\ Range(job[l]["rebuild"].fresh) \subseteq At(l)
  BY AtType DEF At
<1>2. \A e \in At(l) : RowsStored(e)'
  BY <1>1, ShownStays DEF Awaits
<1>3. \A e \in Range(job[l]["rebuild"].fresh) : Shown(e) => Shown(e)'
  BY ShownStays
<1> QED BY <1>1, <1>2, <1>3 DEF Awaits

\* So does the batch around it.
LEMMA InsideFrame ==
  ASSUME Shape, [Next]_vars, NEW l \in Lane, Inside(l), job'[l]["rebuild"] = job[l]["rebuild"],
         job'[l]["ingest"].pc = "await" =>
           job[l]["ingest"].pc = "await" /\ job'[l]["ingest"].todo = job[l]["ingest"].todo
  PROVE  Inside(l)'
<1>1. At(l)' = At(l)
  BY DEF At
<1> QED BY <1>1, ShownStays DEF Inside

\* What was to be checked or was found fresh still is, unless it is shown.
LEMMA AnsweredFrame ==
  ASSUME Shape, [Next]_vars, NEW l \in Lane, Answered(l),
         committed'["rebuild"] = committed["rebuild"],
         job'[l]["rebuild"].size = job[l]["rebuild"].size,
         \A e \in At(l) : e \in At(l)' \/ Shown(e)'
  PROVE  Answered(l)'
<1> DEFINE from == committed["rebuild"]
           n == from + job[l]["rebuild"].size
<1>1. from \in Nat /\ job[l]["rebuild"].size \in Nat /\ Len(log["rebuild"]) \in Nat
  BY AtType, LenProperties DEF Shape, TypeOK, Job, EventOf, Consumer
<1>2. /\ Len(log["rebuild"]) <= Len(log'["rebuild"]) /\ Len(log'["rebuild"]) \in Nat
      /\ \A i \in 1 .. Len(log["rebuild"]) : log'["rebuild"][i] = log["rebuild"][i]
  <2>1. log'["rebuild"] \in Seq(Trigger)
    BY TypeStep DEF TypeOK, EventOf, Consumer
  <2> QED BY <2>1, Grown, LenProperties DEF Consumer
<1>3. n <= Len(log["rebuild"])
  BY DEF Answered
<1>4. ASSUME NEW i \in from + 1 .. n, NEW e, e = log["rebuild"][i]
      PROVE  e = log'["rebuild"][i] /\ (e \in At(l)' \/ RowsOf(e) \subseteq shown')
  <2>1. e = log'["rebuild"][i]
    BY <1>1, <1>2, <1>3, <1>4
  <2>2. e \in At(l) \/ RowsOf(e) \subseteq shown
    BY <1>4 DEF Answered, Shown
  <2>3. e \in At(l) => e \in At(l)' \/ RowsOf(e) \subseteq shown'
    BY DEF Shown
  <2> QED BY <2>1, <2>2, <2>3, ShownStays
<1>5. committed'["rebuild"] + job'[l]["rebuild"].size = n
  OBVIOUS
<1> HIDE DEF n, from
<1>6. \A i \in from + 1 .. n : \/ log'["rebuild"][i] \in At(l)'
                               \/ RowsOf(log'["rebuild"][i]) \subseteq shown'
  BY <1>4
<1>7. n <= Len(log'["rebuild"])
  BY <1>1, <1>2, <1>3 DEF n
<1> QED BY <1>5, <1>6, <1>7 DEF Answered, Shown, from

\* Where no trigger is marked and none committed, nothing more is handled.
LEMMA HandledFrame ==
  ASSUME Shape, [Next]_vars, HandledInv, committed'["rebuild"] = committed["rebuild"],
         \A e \in Trigger : <<"rebuild", e>> \in marks' => <<"rebuild", e>> \in marks
  PROVE  HandledInv'
<1>1. /\ committed["rebuild"] \in Nat /\ Len(log["rebuild"]) \in Nat
      /\ Len(log'["rebuild"]) \in Nat
  <2>1. log'["rebuild"] \in Seq(Trigger) /\ log["rebuild"] \in Seq(Trigger)
    BY TypeStep DEF Shape, TypeOK, EventOf, Consumer
  <2> QED BY <2>1, LenProperties DEF Shape, TypeOK, Consumer
<1>2. /\ committed'["rebuild"] <= Len(log'["rebuild"])
      /\ \A i \in 1 .. committed["rebuild"] : log'["rebuild"][i] = log["rebuild"][i]
  BY <1>1, Grown DEF HandledInv, Consumer
<1>3. ASSUME NEW e \in Trigger, Handled("rebuild", e)' PROVE RowsOf(e) \subseteq shown'
  <2>1. Handled("rebuild", e)
    BY <1>2, <1>3 DEF Handled
  <2> QED BY <2>1, ShownStays DEF HandledInv, HandledIsShown
<1> QED BY <1>2, <1>3 DEF HandledInv, HandledIsShown

\* The handler has written all the rows of the batch whose triggers it publishes.
LEMMA PublishedAreStored ==
  ASSUME Shape, StoredInv, NEW l \in Lane, NEW b \in Batch, Writing(l, b),
         job[l]["ingest"].written = Len(Tables[b])
  PROVE  \A e \in Range(Triggers(b)) : RowsStored(e)
<1>1. Tables[b] \in Seq(Table)
  BY BatchAssumption
<1>2. Range(Tables[b]) = {Tables[b][i] : i \in 1 .. Len(Tables[b])}
  BY <1>1, RangeEquality
<1>3. \A i \in 1 .. Len(Tables[b]) : stored[b][Tables[b][i]] > 0
  BY DEF Writing, StoredInv, ProgressInv, Progress
<1> QED BY <1>2, <1>3, OfOneBatch DEF RowsStored

\* A trigger joins the log behind the rows of its batch.
LEMMA LogStep ==
  ASSUME Shape, StoredInv, LogInv, [Next]_vars
  PROVE  LogInv'
<1>1. /\ log \in [Consumer -> Seq(Batch \union Trigger)] /\ log["rebuild"] \in Seq(Trigger)
      /\ Range(log["rebuild"]) \subseteq Trigger
  BY RangeOfSeq DEF Shape, TypeOK, EventOf, Consumer
<1>2. \/ log'["rebuild"] = log["rebuild"]
      \/ \E l \in Lane, b \in Batch : /\ Writing(l, b) /\ job[l]["ingest"].written = Len(Tables[b])
                                      /\ log' = [log EXCEPT !["rebuild"] = log["rebuild"] \o Triggers(b)]
  <2>1. CASE Request
    <3>1. ASSUME NEW b \in Batch, PostToBroker(b) PROVE log'["rebuild"] = log["rebuild"]
      BY <1>1, <3>1 DEF PostToBroker
    <3> QED BY <2>1, <3>1 DEF Request, PostInProcess, LoseRequest
  <2>2. CASE \E l \in Lane, c \in Consumer : Deliver(l, c) \/ Check(l, c) \/ Mark(l, c) \/ End(l, c)
    BY <2>2 DEF Deliver, Check, Mark, End
  <2>3. CASE \E l \in Lane, b \in Batch : Insert(l, b) \/ PublishTriggers(l, b) \/ RefusePublish(l, b)
    BY <2>3 DEF Insert, PublishTriggers, RefusePublish
  <2>4. CASE \E l \in Lane, b \in Batch : FailInsert(l, b) \/ FailPublish(l, b)
    BY <2>4 DEF FailInsert, FailPublish
  <2>5. CASE \/ \E l \in Lane : Enqueue(l)
             \/ \E k \in TraceKey : StartRebuild(k) \/ EndRebuild(k) \/ FailRebuild(k)
    BY <2>5 DEF Enqueue, StartRebuild, EndRebuild, FailRebuild
  <2>6. CASE Crash \/ Expire \/ UNCHANGED vars
    BY <2>6 DEF Crash, Expire, vars
  <2> QED BY <2>1, <2>2, <2>3, <2>4, <2>5, <2>6 DEF Next, Step, Break
<1>3. CASE log'["rebuild"] = log["rebuild"]
  BY <1>1, <1>3, ShownStays DEF LogInv
<1>4. ASSUME NEW l \in Lane, NEW b \in Batch,
             Writing(l, b), job[l]["ingest"].written = Len(Tables[b]),
             log' = [log EXCEPT !["rebuild"] = log["rebuild"] \o Triggers(b)]
      PROVE  LogInv'
  <2> DEFINE r == log["rebuild"]
             t == Triggers(b)
  <2>1. r \in Seq(Trigger) /\ t \in Seq(Trigger) /\ log'["rebuild"] = r \o t
    BY <1>1, <1>4, TriggersType DEF Consumer
  <2>2. \A e \in Range(t) : e \in Trigger /\ RowsStored(e)
    BY <1>4, PublishedAreStored, OfOneBatch
  <2>3. \A e \in Range(r) : e \in Trigger /\ RowsStored(e)
    BY <1>1 DEF LogInv
  <2> HIDE DEF r, t
  <2>4. Range(log'["rebuild"]) = Range(r) \union Range(t)
    BY <2>1, RangeConcatenation
  <2> QED BY <2>2, <2>3, <2>4, ShownStays DEF LogInv
<1> QED BY <1>2, <1>3, <1>4
\* The delivery at the head of the queue of a running rebuild waits.
LEMMA WaiterWaits ==
  ASSUME Shape, NEW k \in TraceKey, rebuilds[k].running
  PROVE  /\ rebuilds[k].queue \in Seq(Lane \union {Nobody}) /\ rebuilds[k].queue /= <<>>
         /\ Waiter(k) = rebuilds[k].queue[1] /\ 1 \in 1 .. Len(rebuilds[k].queue)
         /\ Waiter(k) /= Nobody => /\ Waiter(k) \in Lane
                                   /\ job[Waiter(k)]["rebuild"].pc = "await"
                                   /\ k \in job[Waiter(k)]["rebuild"].pending
<1>1. rebuilds[k].queue \in Seq(Lane \union {Nobody}) /\ rebuilds[k].queue /= <<>>
  BY QueueType
<1>2. /\ Waiter(k) = rebuilds[k].queue[1] /\ 1 \in 1 .. Len(rebuilds[k].queue)
      /\ Waiter(k) \in Lane \union {Nobody}
  BY <1>1, HeadTailProperties, EmptySeq DEF Waiter
<1> QED BY <1>1, <1>2 DEF Shape, Queued

\* What the end of a rebuild leaves of its entry and of the delivery that waits for it.
LEMMA EndEffect ==
  ASSUME Shape, NEW k \in TraceKey, EndRebuild(k)
  PROVE  /\ rebuilds[k].running /\ ~rebuilds'[k].running
         /\ \A m \in TraceKey : m /= k => rebuilds'[m] = rebuilds[m]
         /\ \A l \in Lane :
              /\ l /= Waiter(k) => job'[l]["rebuild"] = job[l]["rebuild"]
              /\ l = Waiter(k) =>
                   /\ job'[l]["rebuild"].pending = job[l]["rebuild"].pending \ {k}
                   /\ job'[l]["rebuild"].pc = IF job[l]["rebuild"].pending \ {k} = {}
                                              THEN "mark" ELSE "await"
                   /\ job'[l]["rebuild"].events = job[l]["rebuild"].events
                   /\ job'[l]["rebuild"].fresh = job[l]["rebuild"].fresh
                   /\ job'[l]["rebuild"].size = job[l]["rebuild"].size
         /\ \A l \in Lane : job'[l]["ingest"] = job[l]["ingest"]
<1> DEFINE w == Waiter(k)
<1>1. /\ rebuilds[k].running /\ ~rebuilds'[k].running
      /\ \A m \in TraceKey : m /= k => rebuilds'[m] = rebuilds[m]
  BY DEF EndRebuild, Dequeued, Shape, TypeOK
<1>2. CASE w = Nobody
  BY <1>1, <1>2, LaneAssumption DEF EndRebuild
<1>3. CASE w /= Nobody
  <2> DEFINE j == job[w]["rebuild"]
             left == j.pending \ {k}
             new == [j EXCEPT !.pending = left, !.pc = IF left = {} THEN "mark" ELSE "await"]
  <2>1. w \in Lane /\ j \in Job("rebuild")
    BY <1>1, <1>3, WaiterWaits DEF Shape, TypeOK, Consumer
  <2>2. Put(w, "rebuild", new)
    BY <1>3 DEF EndRebuild
  <2> HIDE DEF w, j
  <2>3. /\ new.pending = left /\ new.pc = IF left = {} THEN "mark" ELSE "await"
        /\ new.events = j.events /\ new.fresh = j.fresh /\ new.size = j.size
    BY <2>1 DEF Job
  <2> HIDE DEF left, new
  <2>4. \A l \in Lane, c \in Consumer :
          job'[l][c] = IF l = w /\ c = "rebuild" THEN new ELSE job[l][c]
    BY <2>1, <2>2, PutEffect DEF Consumer
  <2> QED BY <1>1, <2>3, <2>4 DEF left, j, w, Consumer
<1> QED BY <1>2, <1>3

\* What a failed rebuild leaves of the entries and of the deliveries: the one that waited for it
\* is forgotten in every queue.
LEMMA FailEffect ==
  ASSUME Shape, NEW k \in TraceKey, FailRebuild(k)
  PROVE  /\ rebuilds[k].running /\ ~rebuilds'[k].running
         /\ \A m \in TraceKey : m /= k =>
              /\ rebuilds'[m].running = rebuilds[m].running /\ rebuilds'[m].read = rebuilds[m].read
              /\ rebuilds[m].running =>
                   Waiter(m)' = IF Waiter(m) = Waiter(k) THEN Nobody ELSE Waiter(m)
         /\ \A l \in Lane, c \in Consumer :
              job'[l][c] = IF l = Waiter(k) /\ (c = "rebuild" \/ ~Durable) THEN Idle ELSE job[l][c]
         /\ Waiter(k) = Nobody => UNCHANGED <<sdk, committed, job>>
         /\ Waiter(k) /= Nobody => Waiter(k) \in Lane /\ Throw(Waiter(k), "rebuild")
<1> DEFINE w == Waiter(k)
           Forget(s) == [i \in DOMAIN s |-> IF s[i] = w THEN Nobody ELSE s[i]]
           rest(m) == IF m = k THEN Dequeued(k) ELSE rebuilds[m]
           Entry == [queue : Seq(Lane \union {Nobody}), running : BOOLEAN, read : SUBSET Row]
<1>1. /\ rebuilds[k].running
      /\ rebuilds' = [m \in TraceKey |-> [rest(m) EXCEPT !.queue = Forget(@)]]
  BY DEF FailRebuild
<1>2. /\ rest(k).running = FALSE /\ rest(k) = [queue |-> Tail(rebuilds[k].queue), running |-> FALSE, read |-> {}]
      /\ \A m \in TraceKey : m /= k => rest(m) = rebuilds[m] /\ rest(m) \in Entry
  BY DEF Dequeued, Shape, TypeOK
<1> HIDE DEF rest, w
<1>3. ~rebuilds'[k].running
  BY <1>1, <1>2
<1>4. ASSUME NEW m \in TraceKey, m /= k
      PROVE  /\ rebuilds'[m].running = rebuilds[m].running /\ rebuilds'[m].read = rebuilds[m].read
             /\ rebuilds'[m].queue = Forget(rebuilds[m].queue)
  BY <1>1, <1>2, <1>4
<1>5. ASSUME NEW m \in TraceKey, m /= k, rebuilds[m].running
      PROVE  Waiter(m)' = IF Waiter(m) = w THEN Nobody ELSE Waiter(m)
  <2> DEFINE q == rebuilds[m].queue
  <2>1. q \in Seq(Lane \union {Nobody}) /\ Waiter(m) = q[1] /\ 1 \in 1 .. Len(q)
    BY <1>5, WaiterWaits
  <2>2. rebuilds'[m].queue = Forget(q)
    BY <1>4, <1>5
  <2> HIDE DEF q
  <2>3. DOMAIN q = 1 .. Len(q) /\ Len(q) \in Nat
    BY <2>1, LenProperties
  <2>4. Forget(q) \in Seq(Lane \union {Nobody}) /\ Forget(q) /= <<>>
    <3>1. \A i \in 1 .. Len(q) : q[i] \in Lane \union {Nobody}
      BY <2>1, ElementOfSeq
    <3>2. Forget(q) \in [1 .. Len(q) -> Lane \union {Nobody}]
      BY <2>3, <3>1
    <3>3. Forget(q) \in Seq(Lane \union {Nobody})
      BY <2>3, <3>2
    <3>4. DOMAIN Forget(q) = 1 .. Len(q)
      BY <2>3
    <3>5. Len(Forget(q)) = Len(q)
      BY <2>3, <3>4
    <3> QED BY <2>1, <3>3, <3>5, EmptySeq
  <2>5. Head(Forget(q)) = Forget(q)[1]
    BY <2>4, HeadTailProperties
  <2>6. Forget(q)[1] = IF q[1] = w THEN Nobody ELSE q[1]
    BY <2>1, <2>3
  <2> QED BY <2>1, <2>2, <2>5, <2>6 DEF Waiter
<1>6. /\ w = Nobody => UNCHANGED <<sdk, committed, job>>
      /\ w /= Nobody => w \in Lane /\ Throw(w, "rebuild")
  BY <1>1, WaiterWaits DEF FailRebuild, w
<1>7. \A l \in Lane, c \in Consumer :
        job'[l][c] = IF l = w /\ (c = "rebuild" \/ ~Durable) THEN Idle ELSE job[l][c]
  <2>1. CASE w = Nobody
    BY <1>6, <2>1, LaneAssumption
  <2>2. CASE w /= Nobody
    BY <1>6, <2>2, ThrowEffect DEF Consumer
  <2> QED BY <2>1, <2>2
<1> QED BY <1>1, <1>3, <1>4, <1>5, <1>6, <1>7 DEF w

\* A rebuild begins after the delivery that waits for it has been queued, and reads all its rows.
LEMMA ReadStep ==
  ASSUME Shape, AwaitsInv, ReadInv, [Next]_vars
  PROVE  ReadInv'
<1>1. ASSUME UNCHANGED rebuilds,
             \A m \in Lane : job[m]["rebuild"].pc = "await" => job'[m]["rebuild"] = job[m]["rebuild"]
      PROVE  ReadInv'
  <2>1. \A k \in TraceKey : Waiter(k)' = Waiter(k)
    BY <1>1 DEF Waiter
  <2>2. \A k \in TraceKey : rebuilds[k].running /\ Waiter(k) /= Nobody =>
          job'[Waiter(k)]["rebuild"] = job[Waiter(k)]["rebuild"]
    BY <1>1, WaiterWaits
  <2> QED BY <1>1, <2>1, <2>2 DEF ReadInv
<1>2. ASSUME NEW l \in Lane, Enqueue(l) PROVE ReadInv'
  <2>1. \A m \in Lane : job'[m]["rebuild"].fresh = job[m]["rebuild"].fresh
    <3> DEFINE j == job[l]["rebuild"]
               keys == {KeyOf(e) : e \in LastPerTrace(j.fresh)}
               new == [j EXCEPT !.pending = keys, !.pc = "await"]
    <3>1. Put(l, "rebuild", new) /\ j \in Job("rebuild")
      BY <1>2, AtType DEF Enqueue
    <3> HIDE DEF keys, j
    <3>2. new.fresh = j.fresh
      BY <3>1 DEF Job
    <3> HIDE DEF new
    <3> QED BY <3>1, <3>2, PutEffect DEF Consumer, j
  <2>2. ASSUME NEW k \in TraceKey, rebuilds'[k].running
        PROVE  /\ rebuilds[k].running /\ rebuilds'[k].read = rebuilds[k].read
               /\ Waiter(k)' = Waiter(k)
    <3>1. /\ rebuilds[k] \in [queue : Seq(Lane \union {Nobody}), running : BOOLEAN, read : SUBSET Row]
          /\ rebuilds'[k] \in {rebuilds[k], [rebuilds[k] EXCEPT !.queue = Append(@, l)]}
      BY <1>2 DEF Enqueue, Shape, TypeOK
    <3>2. /\ rebuilds[k].running /\ rebuilds'[k].read = rebuilds[k].read
          /\ rebuilds'[k].queue \in {rebuilds[k].queue, Append(rebuilds[k].queue, l)}
      BY <2>2, <3>1
    <3> DEFINE q == rebuilds[k].queue
    <3>3. q \in Seq(Lane \union {Nobody}) /\ 1 \in 1 .. Len(q) /\ Waiter(k) = q[1]
      BY <3>2, WaiterWaits
    <3> HIDE DEF q
    <3>4. /\ Append(q, l) \in Seq(Lane \union {Nobody}) /\ Append(q, l)[1] = q[1]
          /\ Append(q, l) /= <<>>
      BY <3>3, AppendProperties
    <3>5. Head(Append(q, l)) = q[1]
      BY <3>4, HeadTailProperties
    <3> QED BY <3>2, <3>3, <3>5 DEF Waiter, q
  <2>3. ASSUME NEW k \in TraceKey, rebuilds'[k].running, Waiter(k)' /= Nobody,
               NEW e \in Range(job'[Waiter(k)']["rebuild"].fresh), KeyOf(e) = k
        PROVE  RowsOf(e) \subseteq rebuilds'[k].read
    <3>1. rebuilds[k].running /\ Waiter(k) /= Nobody /\ Waiter(k)' = Waiter(k) /\ Waiter(k) \in Lane
      BY <2>2, <2>3, WaiterWaits
    <3>2. e \in Range(job[Waiter(k)]["rebuild"].fresh)
      BY <2>1, <2>3, <3>1
    <3> QED BY <2>2, <2>3, <3>1, <3>2 DEF ReadInv
  <2> QED BY <2>3 DEF ReadInv
<1>3. ASSUME NEW k \in TraceKey, StartRebuild(k) PROVE ReadInv'
  <2> DEFINE rows == {row \in Row : KeyOf(row) = k /\ stored[row[1]][row[3]] > 0}
  <2>1. /\ \A m \in TraceKey : m /= k => rebuilds'[m] = rebuilds[m]
        /\ rebuilds'[k].queue = rebuilds[k].queue /\ rebuilds'[k].read = rows /\ rebuilds[k].queue /= <<>>
        /\ job' = job
    BY <1>3 DEF StartRebuild, Shape, TypeOK
  <2> HIDE DEF rows
  <2>2. \A m \in TraceKey : Waiter(m)' = Waiter(m)
    BY <2>1 DEF Waiter
  <2>3. Waiter(k) /= Nobody => Waiter(k) \in Lane
    <3>1. rebuilds[k].queue \in Seq(Lane \union {Nobody})
      BY QueueType
    <3> QED BY <2>1, <3>1, HeadTailProperties DEF Waiter
  <2>4. ASSUME NEW l \in Lane, NEW e \in Range(job[l]["rebuild"].fresh), KeyOf(e) = k
        PROVE  RowsOf(e) \subseteq rows
    <3>1. e \in Trigger /\ RowsStored(e)
      BY AtType DEF AwaitsInv, Awaits, At
    <3>2. RowsOf(e) \subseteq Row
      BY <3>1 DEF Row
    <3>3. ASSUME NEW row \in RowsOf(e) PROVE KeyOf(row) = k /\ stored[row[1]][row[3]] > 0
      <4>1. PICK t \in Range(Tables[e[1]]) : row = <<e[1], e[2], t>>
        BY DEF RowsOf
      <4>2. row[1] = e[1] /\ row[2] = e[2] /\ row[3] = t
        BY <4>1
      <4> QED BY <2>4, <3>1, <4>2 DEF KeyOf, RowsStored
    <3> QED BY <3>2, <3>3 DEF rows
  <2>5. ASSUME NEW m \in TraceKey, rebuilds'[m].running, Waiter(m) /= Nobody,
               NEW e \in Range(job[Waiter(m)]["rebuild"].fresh), KeyOf(e) = m
        PROVE  RowsOf(e) \subseteq rebuilds'[m].read
    <3>1. CASE m = k
      BY <2>1, <2>3, <2>4, <2>5, <3>1
    <3>2. CASE m /= k
      BY <2>1, <2>5, <3>2 DEF ReadInv
    <3> QED BY <3>1, <3>2
  <2> QED BY <2>1, <2>2, <2>5 DEF ReadInv
<1>4. ASSUME NEW k \in TraceKey, EndRebuild(k) PROVE ReadInv'
  <2>1. ASSUME NEW m \in TraceKey, rebuilds'[m].running, Waiter(m)' /= Nobody,
               NEW e \in Range(job'[Waiter(m)']["rebuild"].fresh), KeyOf(e) = m
        PROVE  RowsOf(e) \subseteq rebuilds'[m].read
    <3>1. m /= k /\ rebuilds'[m] = rebuilds[m]
      BY <1>4, <2>1, EndEffect
    <3>2. Waiter(m)' = Waiter(m)
      BY <3>1 DEF Waiter
    <3>3. Waiter(m) \in Lane /\ rebuilds[m].running
      BY <2>1, <3>1, <3>2, WaiterWaits
    <3>4. job'[Waiter(m)]["rebuild"].fresh = job[Waiter(m)]["rebuild"].fresh
      BY <1>4, <3>3, EndEffect
    <3> QED BY <2>1, <3>1, <3>2, <3>3, <3>4 DEF ReadInv
  <2> QED BY <2>1 DEF ReadInv
<1>5. ASSUME NEW k \in TraceKey, FailRebuild(k) PROVE ReadInv'
  <2>1. ASSUME NEW m \in TraceKey, rebuilds'[m].running, Waiter(m)' /= Nobody,
               NEW e \in Range(job'[Waiter(m)']["rebuild"].fresh), KeyOf(e) = m
        PROVE  RowsOf(e) \subseteq rebuilds'[m].read
    <3>1. m /= k /\ rebuilds[m].running /\ rebuilds'[m].read = rebuilds[m].read
      BY <1>5, <2>1, FailEffect
    <3>2. Waiter(m)' = Waiter(m) /\ Waiter(m) /= Waiter(k)
      BY <1>5, <2>1, <3>1, FailEffect
    <3>3. Waiter(m) \in Lane
      BY <2>1, <3>1, <3>2, WaiterWaits
    <3>4. job'[Waiter(m)]["rebuild"] = job[Waiter(m)]["rebuild"]
      BY <1>5, <3>2, <3>3, FailEffect DEF Consumer
    <3> QED BY <2>1, <3>1, <3>2, <3>4 DEF ReadInv
  <2> QED BY <2>1 DEF ReadInv
<1>6. CASE Crash
  BY <1>6 DEF Crash, NoRebuild, ReadInv
<1> QED BY WaitingUnmoved, <1>1, <1>2, <1>3, <1>4, <1>5, <1>6
\* An idle delivery waits for nothing.
LEMMA IdleAwaits ==
  ASSUME NEW l \in Lane, job[l]["rebuild"] = Idle, job[l]["ingest"].pc /= "await"
  PROVE  Awaits(l) /\ Inside(l) /\ job[l]["rebuild"].pc = "idle"
<1>1. Idle.pc = "idle" /\ Idle.events = <<>> /\ Idle.fresh = <<>>
  BY DEF Idle
<1>2. Range(<<>>) = {}
  BY DEF Range
<1>3. At(l) = {}
  BY <1>1, <1>2 DEF At
<1> QED BY <1>1, <1>3 DEF Awaits, Inside

\* Where every delivery of triggers is left alone or dropped, nothing more is waited for.
LEMMA AwaitsKept ==
  ASSUME Shape, [Next]_vars, AwaitsInv, committed'["rebuild"] = committed["rebuild"],
         NEW L \in SUBSET Lane,
         \A m \in L :
           \/ /\ job'[m]["rebuild"] = job[m]["rebuild"]
              /\ job'[m]["ingest"] = job[m]["ingest"] \/ job'[m]["ingest"].pc /= "await"
           \/ job'[m]["rebuild"] = Idle /\ job'[m]["ingest"].pc /= "await"
  PROVE  \A m \in L : /\ Awaits(m)' /\ Inside(m)'
                      /\ Durable /\ job'[m]["rebuild"].pc /= "idle" => Answered(m)'
<1> TAKE m \in L
<1>1. CASE /\ job'[m]["rebuild"] = job[m]["rebuild"]
           /\ job'[m]["ingest"] = job[m]["ingest"] \/ job'[m]["ingest"].pc /= "await"
  <2>1. At(m)' = At(m)
    BY <1>1 DEF At
  <2>2. Durable /\ job'[m]["rebuild"].pc /= "idle" => Answered(m)'
    BY <1>1, <2>1, AnsweredFrame DEF AwaitsInv
  <2> QED BY <1>1, <2>2, AwaitsFrame, InsideFrame DEF AwaitsInv
<1>2. CASE job'[m]["rebuild"] = Idle /\ job'[m]["ingest"].pc /= "await"
  <2>1. Idle.pc = "idle" /\ Idle.events = <<>> /\ Idle.fresh = <<>>
    BY DEF Idle
  <2>2. Range(<<>>) = {}
    BY DEF Range
  <2>3. At(m)' = {}
    BY <1>2, <2>1, <2>2 DEF At
  <2> QED BY <1>2, <2>1, <2>3 DEF Awaits, Inside
<1> QED BY <1>1, <1>2

\* The check of a trigger: what is dropped is in the delivery already, or shown.
LEMMA CheckAwaits ==
  ASSUME Shape, AwaitsInv, HandledInv, [Next]_vars, NEW l \in Lane, Check(l, "rebuild")
  PROVE  /\ Awaits(l)' /\ Inside(l)'
         /\ Durable => Answered(l)'
<1> DEFINE j == job[l]["rebuild"]
           e == Head(j.events)
           new == job'[l]["rebuild"]
<1>1. /\ j.events \in Seq(Trigger) /\ j.events /= <<>> /\ j.fresh \in Seq(Trigger)
      /\ j.pc = "check" /\ At(l) \subseteq Trigger
  BY AtType DEF GoodJob, Check
<1>2. /\ e \in Trigger /\ Range(j.events) = {e} \union Range(Tail(j.events))
      /\ (Len(j.events) > 1) <=> (Tail(j.events) /= <<>>)
  BY <1>1, RangeHeadTail
<1>3. /\ Unmoved(l, "rebuild") /\ new.size = j.size
      /\ new.events = Tail(j.events)
      /\ new.fresh = Filtered("rebuild", j.fresh, e)
      /\ new.pc = IF Len(j.events) > 1 THEN "check"
                  ELSE IF new.fresh = <<>> THEN "end" ELSE "handle"
  BY <1>1, CheckEffect DEF Consumer
<1>4. /\ Range(j.fresh) \subseteq Range(new.fresh) /\ Range(new.fresh) \subseteq Range(j.fresh) \union {e}
      /\ e \in Range(new.fresh) \/ Handled("rebuild", e)
  <2>1. CASE e \in Range(j.fresh) \/ <<"rebuild", e>> \in marks
    BY <1>3, <2>1 DEF Filtered, Handled
  <2>2. CASE ~(e \in Range(j.fresh) \/ <<"rebuild", e>> \in marks)
    <3>1. new.fresh = Append(j.fresh, e)
      BY <1>3, <2>2 DEF Filtered
    <3>2. Range(Append(j.fresh, e)) = Range(j.fresh) \union {e}
      <4>1. j.fresh \in Seq(Trigger) /\ e \in Trigger
        BY <1>1, <1>2
      <4> HIDE DEF j, e
      <4> QED BY <4>1, RangeAppend
    <3> QED BY <3>1, <3>2
  <2> QED BY <2>1, <2>2
<1>5. Handled("rebuild", e) => Shown(e)
  BY <1>2 DEF HandledInv, HandledIsShown, Shown
<1>6. At(l)' = Range(new.events) \union Range(new.fresh)
  BY DEF At
<1>7. At(l) = Range(j.events) \union Range(j.fresh)
  BY DEF At
<1> HIDE DEF j, e, new
<1>8. At(l)' \subseteq At(l) /\ \A f \in At(l) : f \in At(l)' \/ Shown(f)
  BY <1>2, <1>3, <1>4, <1>5, <1>6, <1>7
<1>9. \A f \in At(l) : Shown(f) => Shown(f)'
  BY ShownStays
<1>10. Awaits(l)'
  <2>1. \A f \in At(l)' : RowsStored(f)'
    BY <1>1, <1>8, ShownStays DEF AwaitsInv, Awaits
  <2>2. \A f, g \in At(l)' : f[2] = g[2] => KeyOf(f) = KeyOf(g)
    BY <1>8 DEF AwaitsInv, Awaits
  <2>3. new.pc \in {"check", "end", "handle"} /\ (new.pc /= "check" => new.events = <<>>)
        /\ (new.pc = "end" => new.fresh = <<>>)
    BY <1>2, <1>3
  <2> QED BY <2>1, <2>2, <2>3 DEF Awaits, new
<1>11. Inside(l)'
  <2>1. job'[l]["ingest"] = job[l]["ingest"]
    BY <1>3 DEF Unmoved, Consumer
  <2> QED BY <1>8, <1>9, <2>1, ShownStays DEF Inside, AwaitsInv
<1>12. Durable => Answered(l)'
  <2>1. Durable => Answered(l)
    BY <1>1 DEF AwaitsInv, j
  <2>2. committed' = committed
    BY DEF Check
  <2> QED BY <1>3, <1>8, <1>9, <2>1, <2>2, AnsweredFrame DEF j, new
<1> QED BY <1>10, <1>11, <1>12

\* The mark of a trigger: its rows are shown by then.
LEMMA MarkAwaits ==
  ASSUME Shape, AwaitsInv, HandledInv, [Next]_vars, NEW l \in Lane, Mark(l, "rebuild")
  PROVE  /\ Awaits(l)' /\ Inside(l)' /\ HandledInv'
         /\ Durable => Answered(l)'
<1> DEFINE j == job[l]["rebuild"]
           new == job'[l]["rebuild"]
<1>1. /\ j.fresh \in Seq(Trigger) /\ j.fresh /= <<>> /\ j.pc = "mark" /\ j.events = <<>>
      /\ At(l) \subseteq Trigger /\ \A f \in Range(j.fresh) : Shown(f)
  BY AtType DEF GoodJob, Mark, AwaitsInv, Awaits
<1>2. PICK e \in Trigger : e = Head(j.fresh)
  BY <1>1, RangeHeadTail
<1>3. /\ Range(j.fresh) = {e} \union Range(Tail(j.fresh))
      /\ (Len(j.fresh) > 1) <=> (Tail(j.fresh) /= <<>>)
  BY <1>1, <1>2, RangeHeadTail
<1>4. /\ Unmoved(l, "rebuild") /\ new.size = j.size /\ new.events = <<>>
      /\ new.fresh = Tail(j.fresh) /\ new.pc = IF Len(j.fresh) > 1 THEN "mark" ELSE "end"
  BY <1>1, MarkEffect DEF Consumer
<1>5. Range(<<>>) = {}
  BY DEF Range
<1>6. /\ At(l) = Range(j.fresh) /\ At(l)' = Range(Tail(j.fresh))
  BY <1>1, <1>4, <1>5 DEF At
<1>7. /\ marks' = marks \union {<<"rebuild", e>>} /\ log' = log /\ committed' = committed /\ shown' = shown
  BY <1>2 DEF Mark
<1> HIDE DEF j, new
<1>8. At(l)' \subseteq At(l) /\ \A f \in At(l) : Shown(f) /\ Shown(f)'
  BY <1>1, <1>3, <1>6, ShownStays
<1>9. Awaits(l)'
  <2>1. \A f \in At(l)' : RowsStored(f)'
    BY <1>1, <1>8, ShownStays DEF AwaitsInv, Awaits
  <2>2. \A f, g \in At(l)' : f[2] = g[2] => KeyOf(f) = KeyOf(g)
    BY <1>8 DEF AwaitsInv, Awaits
  <2>3. /\ new.pc \in {"mark", "end"} /\ new.events = <<>> /\ (new.pc = "end" => new.fresh = <<>>)
        /\ Range(new.fresh) \subseteq At(l)
    BY <1>3, <1>4, <1>6, <1>8
  <2> QED BY <1>8, <2>1, <2>2, <2>3 DEF Awaits, new
<1>10. Inside(l)'
  <2>1. job'[l]["ingest"] = job[l]["ingest"]
    BY <1>4 DEF Unmoved, Consumer
  <2> QED BY <1>8, <2>1, ShownStays DEF Inside, AwaitsInv
<1>11. Durable => Answered(l)'
  <2>1. Durable => Answered(l)
    BY <1>1 DEF AwaitsInv, j
  <2> QED BY <1>4, <1>7, <1>8, <2>1, AnsweredFrame DEF j, new
<1>12. HandledInv'
  <2>1. RowsOf(e) \subseteq shown
    BY <1>3, <1>6, <1>8 DEF Shown
  <2>2. ASSUME NEW f \in Trigger, Handled("rebuild", f)' PROVE RowsOf(f) \subseteq shown'
    <3>1. CASE f = e
      BY <1>7, <2>1, <3>1
    <3>2. CASE f /= e
      <4>1. Handled("rebuild", f)
        BY <1>7, <2>2, <3>2 DEF Handled
      <4> QED BY <1>7, <4>1 DEF HandledInv, HandledIsShown
    <3> QED BY <3>1, <3>2
  <2> QED BY <1>7, <2>2 DEF HandledInv, HandledIsShown
<1> QED BY <1>9, <1>10, <1>11, <1>12
\* A step that touches one lane only has to answer for that lane.
LEMMA AwaitsOthers ==
  ASSUME Shape, [Next]_vars, AwaitsInv, committed'["rebuild"] = committed["rebuild"], NEW l \in Lane,
         \A m \in Lane, c \in Consumer : m /= l => job'[m][c] = job[m][c],
         Awaits(l)', Inside(l)', Durable /\ job'[l]["rebuild"].pc /= "idle" => Answered(l)'
  PROVE  AwaitsInv'
<1>1. \A m \in Lane \ {l} : /\ job'[m]["rebuild"] = job[m]["rebuild"]
                            /\ job'[m]["ingest"] = job[m]["ingest"]
  BY DEF Consumer
<1>2. Lane \ {l} \in SUBSET Lane
  OBVIOUS
<1>3. \A m \in Lane \ {l} : /\ Awaits(m)' /\ Inside(m)'
                            /\ Durable /\ job'[m]["rebuild"].pc /= "idle" => Answered(m)'
  <2> DEFINE L == Lane \ {l}
  <2>1. L \in SUBSET Lane /\ \A m \in L : /\ job'[m]["rebuild"] = job[m]["rebuild"]
                                         /\ job'[m]["ingest"] = job[m]["ingest"]
    BY <1>1
  <2> HIDE DEF L
  <2>2. \A m \in L : /\ Awaits(m)' /\ Inside(m)'
                     /\ Durable /\ job'[m]["rebuild"].pc /= "idle" => Answered(m)'
    BY <2>1, AwaitsKept
  <2> QED BY <2>2 DEF L
<1> QED BY <1>3 DEF AwaitsInv

\* The broker delivers triggers of the log, whose rows are stored.
LEMMA DeliverAwaits ==
  ASSUME OneOwner, Shape, AwaitsInv, LogInv, HandledInv, [Next]_vars, NEW l \in Lane,
         Deliver(l, "rebuild")
  PROVE  AwaitsInv' /\ HandledInv'
<1> DEFINE from == committed["rebuild"]
           all == log["rebuild"]
<1>1. PICK n \in 1 .. MaxPoll :
        /\ from + n <= Len(all)
        /\ Put(l, "rebuild", Delivery(SubSeq(all, from + 1, from + n)))
  BY DEF Deliver
<1>2. /\ Durable /\ UNCHANGED <<log, committed, marks, stored, shown>>
      /\ from \in Nat /\ all \in Seq(Trigger) /\ n \in Nat \ {0} /\ Len(all) \in Nat
  BY <1>1, BoundAssumption, LenProperties DEF Deliver, Shape, TypeOK, EventOf, Consumer
<1> DEFINE run == SubSeq(all, from + 1, from + n)
<1>3. run \in Seq(Trigger) /\ Len(run) = n /\ \A i \in 1 .. n : run[i] = all[from + i]
  <2>1. from \in Nat /\ all \in Seq(Trigger) /\ n \in Nat /\ from + n <= Len(all)
    BY <1>1, <1>2
  <2> HIDE DEF from, all
  <2> QED BY <2>1, SubSeqRun DEF run
<1>4. Put(l, "rebuild", Delivery(run))
  BY <1>1
<1> HIDE DEF run
<1>5. /\ run /= <<>> /\ Range(run) \subseteq Range(all) /\ Range(run) \subseteq Trigger
      /\ \A i \in from + 1 .. from + n : all[i] \in Range(run)
  <2>1. run /= <<>>
    BY <1>2, <1>3, EmptySeq
  <2>2. /\ Range(run) = {run[i] : i \in 1 .. n} /\ Range(all) = {all[i] : i \in 1 .. Len(all)}
        /\ Range(run) \subseteq Trigger
    BY <1>2, <1>3, RangeEquality, RangeOfSeq
  <2>3. ASSUME NEW i \in from + 1 .. from + n PROVE all[i] \in Range(run)
    <3>1. i - from \in 1 .. n /\ run[i - from] = all[i]
      BY <1>2, <1>3
    <3> QED BY <2>2, <3>1
  <2>4. ASSUME NEW i \in 1 .. n PROVE run[i] \in Range(all)
    <3>1. from + i \in 1 .. Len(all) /\ run[i] = all[from + i]
      BY <1>1, <1>2, <1>3
    <3> QED BY <2>2, <3>1
  <2> QED BY <2>1, <2>2, <2>3, <2>4
<1>6. /\ job'[l]["rebuild"] = Delivery(run)
      /\ \A m \in Lane, c \in Consumer : ~(m = l /\ c = "rebuild") => job'[m][c] = job[m][c]
  BY <1>4, PutEffect DEF Consumer
<1>7. /\ Delivery(run).pc = "check" /\ Delivery(run).events = run /\ Delivery(run).fresh = <<>>
      /\ Delivery(run).size = n
  BY <1>3, <1>5, DeliveryGood DEF EventOf, Consumer
<1>8. At(l)' = Range(run)
  <2>1. Range(<<>>) = {}
    BY DEF Range
  <2> QED BY <1>6, <1>7, <2>1 DEF At
<1>9. Awaits(l)'
  <2>1. \A e \in Range(run) : RowsStored(e)'
    BY <1>5, ShownStays DEF LogInv
  <2>2. \A e, f \in Range(run) : e[2] = f[2] => KeyOf(e) = KeyOf(f)
    BY <1>2, <1>5 DEF OneOwner
  <2> QED BY <1>6, <1>7, <1>8, <2>1, <2>2 DEF Awaits
<1>10. Inside(l)'
  <2>1. job[l]["ingest"].pc /= "await" /\ job'[l]["ingest"] = job[l]["ingest"]
    BY <1>2, <1>6 DEF Shape, Nested, Consumer
  <2> QED BY <2>1 DEF Inside
<1>11. Answered(l)'
  <2>1. /\ committed'["rebuild"] = from /\ log'["rebuild"] = all /\ job'[l]["rebuild"].size = n
        /\ from + n <= Len(all)
    BY <1>1, <1>2, <1>6, <1>7
  <2> HIDE DEF from, all
  <2> QED BY <1>5, <1>8, <2>1 DEF Answered
<1> QED BY <1>2, <1>6, <1>9, <1>10, <1>11, AwaitsOthers, HandledFrame DEF Consumer

\* The end of a delivery of triggers: the broker's offset passes what is shown, and in the
\* process the ingest handler goes on.
LEMMA EndAwaits ==
  ASSUME Shape, AwaitsInv, HandledInv, [Next]_vars, NEW l \in Lane, End(l, "rebuild")
  PROVE  AwaitsInv' /\ HandledInv'
<1> DEFINE j == job[l]["rebuild"]
<1>1. j.pc = "end" /\ marks' = marks /\ log' = log /\ shown' = shown
  BY DEF End
<1>2. At(l) = {}
  <2>1. Range(<<>>) = {}
    BY DEF Range
  <2> QED BY <1>1, <2>1 DEF At, Awaits, AwaitsInv
<1>3. CASE Durable
  <2>1. /\ committed'["rebuild"] = committed["rebuild"] + j.size /\ Put(l, "rebuild", Idle)
        /\ committed["rebuild"] \in Nat /\ j.size \in Nat
    BY <1>3, AtType DEF End, Shape, TypeOK, Job, Consumer
  <2>2. Answered(l)
    BY <1>1, <1>3 DEF AwaitsInv
  <2>3. /\ committed'["rebuild"] <= Len(log'["rebuild"])
        /\ \A i \in committed["rebuild"] + 1 .. committed'["rebuild"] : Shown(log["rebuild"][i])
    BY <1>1, <1>2, <2>1, <2>2 DEF Answered
  <2>4. ASSUME NEW e \in Trigger, Handled("rebuild", e)' PROVE RowsOf(e) \subseteq shown'
    <3>1. CASE <<"rebuild", e>> \in marks
      BY <1>1, <3>1 DEF HandledInv, HandledIsShown, Handled
    <3>2. CASE <<"rebuild", e>> \notin marks
      <4>1. PICK i \in 1 .. committed'["rebuild"] : log["rebuild"][i] = e
        BY <1>1, <2>4, <3>2 DEF Handled
      <4>2. CASE i <= committed["rebuild"]
        <5>1. i \in 1 .. committed["rebuild"]
          BY <2>1, <4>1, <4>2
        <5> QED BY <1>1, <4>1, <5>1 DEF HandledInv, HandledIsShown, Handled
      <4>3. CASE i > committed["rebuild"]
        <5>1. i \in committed["rebuild"] + 1 .. committed'["rebuild"]
          BY <2>1, <4>1, <4>3
        <5> QED BY <1>1, <2>3, <4>1, <5>1 DEF Shown
      <4> QED BY <2>1, <4>2, <4>3
    <3> QED BY <3>1, <3>2
  <2>5. \A m \in Lane : m = l
    BY <1>3, LaneAssumption
  <2>6. /\ job'[l]["rebuild"] = Idle /\ job'[l]["ingest"] = job[l]["ingest"]
        /\ job[l]["ingest"].pc /= "await"
    BY <1>3, <2>1, PutEffect DEF Consumer, Shape, Nested
  <2>7. Awaits(l)' /\ Inside(l)' /\ job'[l]["rebuild"].pc = "idle"
    <3>1. Idle.pc = "idle" /\ Idle.events = <<>> /\ Idle.fresh = <<>>
      BY DEF Idle
    <3>2. Range(<<>>) = {}
      BY DEF Range
    <3>3. At(l)' = {}
      BY <2>6, <3>1, <3>2 DEF At
    <3> QED BY <2>6, <3>1, <3>3 DEF Awaits, Inside
  <2> QED BY <2>3, <2>4, <2>5, <2>7 DEF AwaitsInv, HandledInv, HandledIsShown
<1>4. CASE ~Durable
  <2>1. /\ committed' = committed /\ PutBoth(l, Published(job[l]["ingest"]), Idle)
    BY <1>4 DEF End
  <2>2. Published(job[l]["ingest"]).pc \in {"handle", "mark"}
    BY PublishedFields DEF Shape, TypeOK, Consumer
  <2>3. \A m \in Lane : \/ m /= l /\ \A c \in Consumer : job'[m][c] = job[m][c]
                        \/ job'[m]["rebuild"] = Idle /\ job'[m]["ingest"].pc /= "await"
    BY <2>1, <2>2, PutBothEffect DEF Consumer
  <2>4. AwaitsInv'
    <3>1. \A m \in Lane : \/ /\ job'[m]["rebuild"] = job[m]["rebuild"]
                             /\ job'[m]["ingest"] = job[m]["ingest"] \/ job'[m]["ingest"].pc /= "await"
                          \/ job'[m]["rebuild"] = Idle /\ job'[m]["ingest"].pc /= "await"
      BY <2>3 DEF Consumer
    <3>2. Lane \in SUBSET Lane
      OBVIOUS
    <3> QED BY <2>1, <3>1, <3>2, AwaitsKept DEF AwaitsInv
  <2> QED BY <1>1, <2>1, <2>4, HandledFrame
<1> QED BY <1>3, <1>4

\* The triggers of a batch are published behind its rows, in the process inside its handler.
LEMMA PublishAwaits ==
  ASSUME Shape, StoredInv, AwaitsInv, HandledInv, [Next]_vars, NEW l \in Lane, NEW b \in Batch,
         PublishTriggers(l, b)
  PROVE  AwaitsInv' /\ HandledInv'
<1> DEFINE i == job[l]["ingest"]
<1>1. committed' = committed /\ marks' = marks
  BY DEF PublishTriggers
<1>2. HandledInv'
  BY <1>1, HandledFrame
<1>3. /\ \A m \in Lane, c \in Consumer : m /= l => job'[m][c] = job[m][c]
      /\ i.pc = "handle" /\ b = Head(i.todo) /\ i.written = Len(Tables[b]) /\ i \in Job("ingest")
  BY PublishEffect DEF Shape, TypeOK, Consumer
<1>4. CASE Durable
  <2>1. job'[l]["ingest"].pc /= "await" /\ job'[l]["rebuild"] = job[l]["rebuild"]
    BY <1>3, <1>4, PublishEffect, PublishedFields
  <2>2. \A m \in Lane : /\ job'[m]["rebuild"] = job[m]["rebuild"]
                        /\ job'[m]["ingest"] = job[m]["ingest"] \/ job'[m]["ingest"].pc /= "await"
    BY <1>3, <2>1 DEF Consumer
  <2>3. Lane \in SUBSET Lane
    OBVIOUS
  <2> QED BY <1>1, <1>2, <2>2, <2>3, AwaitsKept DEF AwaitsInv
<1>5. CASE ~Durable
  <2>1. job'[l]["ingest"] = [i EXCEPT !.pc = "await"] /\ job'[l]["rebuild"] = Delivery(Triggers(b))
    BY <1>5, PublishEffect
  <2>2. job'[l]["ingest"].pc = "await" /\ Head(job'[l]["ingest"].todo) = b
    BY <1>3, <2>1 DEF Job
  <2> DEFINE t == Triggers(b)
  <2>3. t \in Seq(EventOf("rebuild")) /\ t /= <<>>
    BY TriggersType DEF EventOf
  <2>4. /\ \A e \in Range(t) : RowsStored(e) /\ e \in Trigger
        /\ \A e, f \in Range(t) : e[2] = f[2] => KeyOf(e) = KeyOf(f)
    BY <1>3, PublishedAreStored, OfOneBatch DEF PublishTriggers
  <2>5. job'[l]["rebuild"] = Delivery(t)
    BY <2>1
  <2>6. \A e : Shown(e)' = (RowsOf(e) \subseteq shown')
    BY DEF Shown
  <2>7. job'[l]["ingest"].pc = "await" =>
          Range(Triggers(Head(job'[l]["ingest"].todo))) = Range(t)
    BY <2>2
  <2> HIDE DEF t
  <2>8. Delivery(t).pc = "check" /\ Delivery(t).events = t /\ Delivery(t).fresh = <<>>
    BY <2>3, DeliveryGood DEF Consumer
  <2>9. At(l)' = Range(t)
    <3>1. Range(<<>>) = {}
      BY DEF Range
    <3> QED BY <2>5, <2>8, <3>1 DEF At
  <2>10. Awaits(l)'
    <3>1. \A e \in Range(t) : RowsStored(e)'
      BY <2>4, ShownStays
    <3> QED BY <2>4, <2>5, <2>8, <2>9, <3>1 DEF Awaits
  <2>11. Inside(l)'
    BY <2>7, <2>9 DEF Inside
  <2> QED BY <1>1, <1>2, <1>3, <1>5, <2>10, <2>11, AwaitsOthers
<1> QED BY <1>4, <1>5

\* The delivery queues the rebuild of every trigger it found fresh: the last one of a trace id
\* asks for what the others ask for.
LEMMA EnqueueAwaits ==
  ASSUME Shape, AwaitsInv, HandledInv, [Next]_vars, NEW l \in Lane, Enqueue(l)
  PROVE  AwaitsInv' /\ HandledInv'
<1> DEFINE j == job[l]["rebuild"]
           keys == {KeyOf(e) : e \in LastPerTrace(j.fresh)}
           new == [j EXCEPT !.pending = keys, !.pc = "await"]
<1>1. /\ j.pc = "handle" /\ j \in Job("rebuild") /\ Put(l, "rebuild", new)
      /\ committed' = committed /\ marks' = marks
  BY AtType DEF Enqueue
<1>2. j.events = <<>> /\ \A e \in At(l) : RowsStored(e) /\ e \in Trigger
  BY <1>1, AtType DEF AwaitsInv, Awaits
<1>3. \A e \in Range(j.fresh) : KeyOf(e) \in keys
  <2> TAKE e \in Range(j.fresh)
  <2>1. j.fresh \in Seq(Trigger)
    BY AtType
  <2>2. \A f \in Range(j.fresh) : e[2] = f[2] => KeyOf(e) = KeyOf(f)
    BY DEF AwaitsInv, Awaits, At
  <2> QED BY <2>1, <2>2, LastStandsForAll
<1> HIDE DEF j, keys
<1>4. /\ new.pending = keys /\ new.pc = "await" /\ new.events = j.events /\ new.fresh = j.fresh
      /\ new.size = j.size
  BY <1>1 DEF Job
<1> HIDE DEF new
<1>5. /\ job'[l]["rebuild"] = new /\ job'[l]["ingest"] = job[l]["ingest"]
      /\ \A m \in Lane, c \in Consumer : m /= l => job'[m][c] = job[m][c]
  BY <1>1, PutEffect DEF Consumer
<1>6. At(l)' = At(l)
  BY <1>4, <1>5 DEF At, j
<1>7. Awaits(l)'
  <2>1. \A e \in At(l)' : RowsStored(e)'
    BY <1>2, <1>6, ShownStays
  <2>2. \A e, f \in At(l)' : e[2] = f[2] => KeyOf(e) = KeyOf(f)
    BY <1>6 DEF AwaitsInv, Awaits
  <2> QED BY <1>2, <1>3, <1>4, <1>5, <2>1, <2>2 DEF Awaits
<1>8. Inside(l)'
  BY <1>5, <1>6, ShownStays DEF Inside, AwaitsInv
<1>9. Durable => Answered(l)'
  <2>1. Durable => Answered(l)
    BY <1>1 DEF AwaitsInv, j
  <2> QED BY <1>1, <1>4, <1>5, <1>6, <2>1, AnsweredFrame DEF j
<1> QED BY <1>1, <1>5, <1>7, <1>8, <1>9, AwaitsOthers, HandledFrame

\* The end of a rebuild shows the triggers that its delivery queued it for.
LEMMA RebuildAwaits ==
  ASSUME Shape, AwaitsInv, ReadInv, HandledInv, [Next]_vars, NEW k \in TraceKey, EndRebuild(k)
  PROVE  AwaitsInv' /\ HandledInv'
<1>1. committed' = committed /\ marks' = marks /\ shown' = shown \union rebuilds[k].read
  BY DEF EndRebuild
<1>2. HandledInv'
  BY <1>1, HandledFrame
<1>3. CASE Waiter(k) = Nobody
  <2>1. \A m \in Lane : job'[m]["rebuild"] = job[m]["rebuild"] /\ job'[m]["ingest"] = job[m]["ingest"]
    BY <1>3, EndEffect, LaneAssumption
  <2>2. Lane \in SUBSET Lane
    OBVIOUS
  <2> QED BY <1>1, <1>2, <2>1, <2>2, AwaitsKept DEF AwaitsInv
<1>4. CASE Waiter(k) /= Nobody
  <2>1. PICK l \in Lane : l = Waiter(k)
    BY <1>4, EndEffect, WaiterWaits
  <2> DEFINE j == job[l]["rebuild"]
             new == job'[l]["rebuild"]
             left == j.pending \ {k}
  <2>2. /\ j.pc = "await" /\ rebuilds[k].running
        /\ new.pending = left /\ new.pc = IF left = {} THEN "mark" ELSE "await"
        /\ new.events = j.events /\ new.fresh = j.fresh /\ new.size = j.size
        /\ job'[l]["ingest"] = job[l]["ingest"]
        /\ \A m \in Lane, c \in Consumer : m /= l => job'[m][c] = job[m][c]
    BY <1>4, <2>1, EndEffect, WaiterWaits DEF Consumer
  <2>3. At(l)' = At(l)
    BY <2>2 DEF At
  <2>4. \A e \in Range(j.fresh) : KeyOf(e) \in left \/ Shown(e)'
    <3> TAKE e \in Range(j.fresh)
    <3>1. CASE KeyOf(e) = k
      <4>1. RowsOf(e) \subseteq rebuilds[k].read
        BY <1>4, <2>1, <2>2, <3>1 DEF ReadInv
      <4> QED BY <1>1, <4>1 DEF Shown
    <3>2. CASE KeyOf(e) /= k
      <4>1. KeyOf(e) \in j.pending \/ Shown(e)
        BY <2>2 DEF AwaitsInv, Awaits
      <4> QED BY <3>2, <4>1, ShownStays
    <3> QED BY <3>1, <3>2
  <2>5. Awaits(l)'
    <3>1. \A e \in At(l)' : RowsStored(e)'
      BY <2>3, AtType, ShownStays DEF AwaitsInv, Awaits
    <3>2. \A e, f \in At(l)' : e[2] = f[2] => KeyOf(e) = KeyOf(f)
      BY <2>3 DEF AwaitsInv, Awaits
    <3>3. new.events = <<>>
      BY <2>2 DEF AwaitsInv, Awaits
    <3>4. /\ new.pc \in {"mark", "await"}
          /\ new.pc = "await" => \A e \in Range(new.fresh) : KeyOf(e) \in new.pending \/ Shown(e)'
          /\ new.pc = "mark" => \A e \in Range(new.fresh) : Shown(e)'
      BY <2>2, <2>4
    <3> HIDE DEF j, left
    <3> QED BY <3>1, <3>2, <3>3, <3>4 DEF Awaits
  <2>6. Inside(l)'
    BY <2>2, <2>3, ShownStays DEF Inside, AwaitsInv
  <2>7. Durable => Answered(l)'
    BY <1>1, <2>2, <2>3, AnsweredFrame DEF AwaitsInv
  <2> QED BY <1>1, <1>2, <2>2, <2>5, <2>6, <2>7, AwaitsOthers
<1> QED BY <1>3, <1>4

\* Each step leaves the deliveries of triggers with what they wait for.
LEMMA AwaitsStep ==
  ASSUME OneOwner, Shape, StoredInv, ShownInv, [Next]_vars
  PROVE  AwaitsInv' /\ HandledInv'
<1>0. AwaitsInv /\ ReadInv /\ LogInv /\ HandledInv
  BY DEF ShownInv
<1>a. ASSUME committed'["rebuild"] = committed["rebuild"],
             \A e \in Trigger : <<"rebuild", e>> \in marks' => <<"rebuild", e>> \in marks,
             \A m \in Lane :
               \/ /\ job'[m]["rebuild"] = job[m]["rebuild"]
                  /\ job'[m]["ingest"] = job[m]["ingest"] \/ job'[m]["ingest"].pc /= "await"
               \/ job'[m]["rebuild"] = Idle /\ job'[m]["ingest"].pc /= "await"
      PROVE  AwaitsInv' /\ HandledInv'
  <2>1. Lane \in SUBSET Lane
    OBVIOUS
  <2>2. \A m \in Lane : /\ Awaits(m)' /\ Inside(m)'
                        /\ Durable /\ job'[m]["rebuild"].pc /= "idle" => Answered(m)'
    BY <1>0, <1>a, <2>1, AwaitsKept
  <2> QED BY <1>0, <1>a, <2>2, HandledFrame DEF AwaitsInv
<1>b. ASSUME NEW l \in Lane, NEW c \in Consumer, Throw(l, c), marks' = marks
      PROVE  AwaitsInv' /\ HandledInv'
  <2>1. Idle.pc = "idle" /\ committed' = committed
    BY <1>b DEF Idle, Throw
  <2>2. \A m \in Lane : Durable => job[m]["ingest"].pc /= "await"
    BY DEF Shape, Nested
  <2>3. \A m \in Lane :
          \/ /\ job'[m]["rebuild"] = job[m]["rebuild"]
             /\ job'[m]["ingest"] = job[m]["ingest"] \/ job'[m]["ingest"].pc /= "await"
          \/ job'[m]["rebuild"] = Idle /\ job'[m]["ingest"].pc /= "await"
    BY <1>b, <2>1, <2>2, ThrowEffect DEF Consumer
  <2> QED BY <1>a, <1>b, <2>1, <2>3
<1>1. ASSUME NEW b \in Batch, NEW l \in Lane, PostInProcess(b, l) PROVE AwaitsInv' /\ HandledInv'
  <2>1. Delivery(<<b>>).pc = "check"
    BY DEF Delivery, Idle
  <2> QED BY <1>1, <1>a, <2>1, PutEffect DEF PostInProcess, Consumer
<1>2. ASSUME NEW b \in Batch, PostToBroker(b) \/ LoseRequest(b) PROVE AwaitsInv' /\ HandledInv'
  BY <1>2, <1>a DEF PostToBroker, LoseRequest
<1>3. ASSUME NEW l \in Lane, Deliver(l, "ingest") PROVE AwaitsInv' /\ HandledInv'
  <2>1. PICK n \in 1 .. MaxPoll :
          Put(l, "ingest", Delivery(SubSeq(log["ingest"], committed["ingest"] + 1, committed["ingest"] + n)))
    BY <1>3 DEF Deliver
  <2>2. \A e : Delivery(e).pc = "check"
    BY DEF Delivery, Idle
  <2> QED BY <1>3, <1>a, <2>1, <2>2, PutEffect DEF Deliver, Consumer
<1>4. ASSUME NEW l \in Lane, Check(l, "ingest") PROVE AwaitsInv' /\ HandledInv'
  <2>1. Unmoved(l, "ingest") /\ job'[l]["ingest"].pc /= "await"
    BY <1>4, CheckEffect DEF Consumer
  <2> QED BY <1>4, <1>a, <2>1 DEF Check, Unmoved, Consumer
<1>5. ASSUME NEW l \in Lane, Mark(l, "ingest") PROVE AwaitsInv' /\ HandledInv'
  <2>1. Unmoved(l, "ingest") /\ job'[l]["ingest"].pc /= "await"
    BY <1>5, MarkEffect DEF Consumer
  <2>2. \A e \in Trigger : <<"rebuild", e>> \in marks' => <<"rebuild", e>> \in marks
    BY <1>5 DEF Mark
  <2> QED BY <1>5, <1>a, <2>1, <2>2 DEF Mark, Unmoved, Consumer
<1>6. ASSUME NEW l \in Lane, End(l, "ingest") PROVE AwaitsInv' /\ HandledInv'
  <2>1. Put(l, "ingest", Idle) /\ marks' = marks /\ committed'["rebuild"] = committed["rebuild"]
    BY <1>6 DEF End, Shape, TypeOK, Consumer
  <2>2. Idle.pc = "idle"
    BY DEF Idle
  <2> QED BY <1>a, <2>1, <2>2, PutEffect DEF Consumer
<1>7. ASSUME NEW l \in Lane, NEW b \in Batch, Insert(l, b) PROVE AwaitsInv' /\ HandledInv'
  <2>1. Unmoved(l, "ingest") /\ job'[l]["ingest"].pc /= "await"
    BY <1>7, InsertEffect DEF Insert, Writing
  <2> QED BY <1>7, <1>a, <2>1 DEF Insert, Unmoved, Consumer
<1>8. ASSUME NEW l \in Lane, NEW b \in Batch,
             FailInsert(l, b) \/ FailPublish(l, b) \/ RefusePublish(l, b)
      PROVE  AwaitsInv' /\ HandledInv'
  BY <1>8, <1>b DEF FailInsert, FailPublish, RefusePublish, Consumer
<1>9. ASSUME NEW l \in Lane, Check(l, "rebuild") \/ Mark(l, "rebuild")
      PROVE  AwaitsInv' /\ HandledInv'
  <2>1. Unmoved(l, "rebuild") /\ committed' = committed
    BY <1>9, CheckEffect, MarkEffect DEF Consumer, Check, Mark
  <2>2. \A m \in Lane, c \in Consumer : m /= l => job'[m][c] = job[m][c]
    BY <2>1 DEF Unmoved
  <2>3. Check(l, "rebuild") => HandledInv'
    BY <1>0, HandledFrame DEF Check
  <2> QED BY <1>0, <1>9, <2>1, <2>2, <2>3, CheckAwaits, MarkAwaits, AwaitsOthers
<1>10. ASSUME NEW k \in TraceKey, StartRebuild(k) PROVE AwaitsInv' /\ HandledInv'
  BY <1>10, <1>a DEF StartRebuild
<1>11. ASSUME NEW k \in TraceKey, FailRebuild(k) PROVE AwaitsInv' /\ HandledInv'
  <2>1. CASE Waiter(k) = Nobody
    BY <1>11, <1>a, <2>1 DEF FailRebuild
  <2>2. CASE Waiter(k) /= Nobody
    BY <1>11, <1>b, <2>2, FailEffect DEF FailRebuild, Consumer
  <2> QED BY <2>1, <2>2
<1>12. CASE Crash
  <2>1. Idle.pc = "idle"
    BY DEF Idle
  <2> QED BY <1>12, <1>a, <2>1 DEF Crash, Consumer
<1>13. CASE Expire \/ UNCHANGED vars
  BY <1>13, <1>a DEF Expire, vars
<1> QED BY <1>0, <1>1, <1>2, <1>3, <1>4, <1>5, <1>6, <1>7, <1>8, <1>9, <1>10, <1>11, <1>12, <1>13,
           DeliverAwaits, EndAwaits, PublishAwaits, EnqueueAwaits, RebuildAwaits
        DEF Next, Request, Step, Break, Consumer

-----------------------------------------------------------------------------
(* What a request of the in-process bus waits for. *)

\* Where the deliveries keep the batches they hold, or show them, the requests that are left
\* alone keep what they wait for.
LEMMA RequestFrame ==
  ASSUME Shape, RequestInv, [Next]_vars,
         \A b \in Batch, l \in Lane : b \in Held(l) =>
           b \in Held(l)' \/ sdk'[b].via /= l \/ \A e \in Range(Triggers(b)) : Shown(e),
         \A b \in Batch :
           \/ sdk'[b] = sdk[b]
           \/ /\ sdk'[b].via = Nobody
              /\ sdk'[b].state = "acked" => \A e \in Range(Triggers(b)) : Shown(e)
  PROVE  RequestInv'
<1> DEFINE Due(b) == \A e \in Range(Triggers(b)) : RowsOf(e) \subseteq shown
           Ev(l) == Range(job[l]["ingest"].events) \union Range(job[l]["ingest"].fresh)
           NewEv(l) == Range(job'[l]["ingest"].events) \union Range(job'[l]["ingest"].fresh)
<1>1. /\ \A b \in Batch : Due(b) => \A e \in Range(Triggers(b)) : RowsOf(e) \subseteq shown'
      /\ \A b \in Batch : sdk[b].via \in Lane \union {Nobody}
  BY ShownStays DEF Shape, TypeOK
<1>2. \A b \in Batch, l \in Lane : b \in Ev(l) => b \in NewEv(l) \/ sdk'[b].via /= l \/ Due(b)
  BY DEF Held, Shown
<1>3. \A b \in Batch : \/ sdk'[b] = sdk[b]
                       \/ sdk'[b].via = Nobody /\ (sdk'[b].state = "acked" => Due(b))
  BY DEF Shown
<1>4. ~Durable => \A b \in Batch :
        /\ sdk[b].via /= Nobody => sdk[b].state = "waiting" /\ (b \in Ev(sdk[b].via) \/ Due(b))
        /\ sdk[b].state = "acked" => Due(b)
  BY DEF RequestInv, Held, Shown
<1> HIDE DEF Due, Ev, NewEv
<1>5. ASSUME ~Durable, NEW b \in Batch
      PROVE  /\ sdk'[b].via /= Nobody =>
                  sdk'[b].state = "waiting" /\ (b \in NewEv(sdk'[b].via) \/ Due(b))
             /\ sdk'[b].state = "acked" => Due(b)
  <2>1. CASE sdk'[b] = sdk[b]
    BY <1>1, <1>2, <1>4, <1>5, <2>1
  <2>2. CASE sdk'[b].via = Nobody /\ (sdk'[b].state = "acked" => Due(b))
    BY <2>2
  <2> QED BY <1>3, <2>1, <2>2
<1>6. ASSUME ~Durable, NEW b \in Batch
      PROVE  /\ sdk'[b].via /= Nobody =>
                  /\ sdk'[b].state = "waiting"
                  /\ b \in NewEv(sdk'[b].via) \/ \A e \in Range(Triggers(b)) : RowsOf(e) \subseteq shown'
             /\ sdk'[b].state = "acked" => \A e \in Range(Triggers(b)) : RowsOf(e) \subseteq shown'
  BY <1>1, <1>5, <1>6
<1> QED BY <1>6 DEF NewEv, RequestInv, Held, Shown

\* What the requests that waited for a lane learn.
LEMMA ReplyFields ==
  ASSUME Shape, NEW l \in Lane, NEW state
  PROVE  \A b \in Batch :
           /\ sdk[b].via = l => Reply(l, state)[b].state = state /\ Reply(l, state)[b].via = Nobody
           /\ sdk[b].via /= l => Reply(l, state)[b] = sdk[b]
  BY DEF Shape, TypeOK, Reply

\* Each step keeps the requests of the in-process bus with what they wait for.
LEMMA RequestStep ==
  ASSUME Shape, StoredInv, RequestInv, [Next]_vars
  PROVE  RequestInv'
<1>0. ASSUME NEW l \in Lane
      PROVE  /\ job[l]["ingest"] \in Job("ingest") /\ GoodJob("ingest", job[l]["ingest"])
             /\ job[l]["ingest"].events \in Seq(Batch) /\ job[l]["ingest"].fresh \in Seq(Batch)
             /\ Progress(l)
  BY DEF Shape, JobsInv, GoodJob, Job, EventOf, Consumer, StoredInv, ProgressInv
<1>e. Range(<<>>) = {}
  BY DEF Range
<1>h. ASSUME NEW l \in Lane, job[l]["ingest"].pc \in {"idle", "end"} PROVE Held(l) = {}
  BY <1>0, <1>e, <1>h DEF Held, Progress
<1>d. CASE Durable
  BY <1>d DEF RequestInv
<1>a. ASSUME \A l \in Lane : /\ job'[l]["ingest"].events = job[l]["ingest"].events
                             /\ job'[l]["ingest"].fresh = job[l]["ingest"].fresh,
             \A b \in Batch : sdk'[b] = sdk[b] \/ (sdk'[b].via = Nobody /\ sdk'[b].state /= "acked")
      PROVE  RequestInv'
  <2>1. \A l \in Lane : Held(l)' = Held(l)
    BY <1>a DEF Held
  <2> QED BY <1>a, <2>1, RequestFrame
<1>t. ASSUME NEW l \in Lane, NEW c \in Consumer, Throw(l, c), ~Durable PROVE RequestInv'
  <2>1. /\ \A m \in Lane : m /= l => job'[m]["ingest"] = job[m]["ingest"]
        /\ sdk' = Reply(l, "failed")
    BY <1>t, ThrowEffect DEF Throw, Consumer
  <2>2. \A b \in Batch : \/ sdk'[b] = sdk[b] /\ sdk[b].via /= l
                         \/ sdk'[b].via = Nobody /\ sdk'[b].state /= "acked"
    BY <2>1, ReplyFields
  <2>3. \A m \in Lane : m /= l => Held(m)' = Held(m)
    BY <2>1 DEF Held
  <2>4. \A b \in Batch : sdk'[b].via /= l
    BY <2>2, LaneAssumption
  <2> QED BY <2>2, <2>3, <2>4, RequestFrame
<1>1. ASSUME NEW b \in Batch, NEW l \in Lane, PostInProcess(b, l) PROVE RequestInv'
  <2>1. <<b>> \in Seq(EventOf("ingest")) /\ <<b>> /= <<>> /\ Range(<<b>>) = {b}
    BY DEF EventOf, Range
  <2>2. /\ job'[l]["ingest"] = Delivery(<<b>>) /\ job[l]["ingest"].pc = "idle" /\ shown' = shown
        /\ \A m \in Lane : m /= l => job'[m]["ingest"] = job[m]["ingest"]
    BY <1>1, PutEffect DEF PostInProcess, Consumer
  <2>3. /\ sdk'[b].state = "waiting" /\ sdk'[b].via = l
        /\ \A a \in Batch : a /= b => sdk'[a] = sdk[a]
    BY <1>1 DEF PostInProcess, Shape, TypeOK
  <2>4. Delivery(<<b>>).events = <<b>> /\ Delivery(<<b>>).fresh = <<>>
    BY <2>1, DeliveryGood DEF Consumer
  <2> DEFINE Ev(m) == Range(job[m]["ingest"].events) \union Range(job[m]["ingest"].fresh)
             NewEv(m) == Range(job'[m]["ingest"].events) \union Range(job'[m]["ingest"].fresh)
             Due(a) == \A e \in Range(Triggers(a)) : RowsOf(e) \subseteq shown
  <2>5. /\ NewEv(l) = {b} /\ Ev(l) = {} /\ \A m \in Lane : m /= l => NewEv(m) = Ev(m)
    BY <1>e, <1>h, <2>1, <2>2, <2>4 DEF Held
  <2>6. ~Durable => \A a \in Batch :
          /\ sdk[a].via /= Nobody => sdk[a].state = "waiting" /\ (a \in Ev(sdk[a].via) \/ Due(a))
          /\ sdk[a].state = "acked" => Due(a)
    BY DEF RequestInv, Held, Shown
  <2>7. \A a \in Batch : sdk[a].via \in Lane \union {Nobody}
    BY DEF Shape, TypeOK
  <2> HIDE DEF Ev, NewEv, Due
  <2>8. ~Durable => \A a \in Batch :
          /\ sdk'[a].via /= Nobody => sdk'[a].state = "waiting" /\ (a \in NewEv(sdk'[a].via) \/ Due(a))
          /\ sdk'[a].state = "acked" => Due(a)
    BY <2>3, <2>5, <2>6, <2>7
  <2> QED BY <2>2, <2>8 DEF Ev, NewEv, Due, RequestInv, Held, Shown
<1>2. ASSUME NEW b \in Batch, LoseRequest(b) PROVE RequestInv'
  <2>1. \A a \in Batch : sdk'[a] = sdk[a] \/ (sdk'[a].via = Nobody /\ sdk'[a].state /= "acked")
    BY <1>2 DEF LoseRequest, Shape, TypeOK
  <2> QED BY <1>2, <1>a, <2>1 DEF LoseRequest
<1>3. ASSUME NEW b \in Batch, PostToBroker(b) PROVE RequestInv'
  BY <1>3, <1>d DEF PostToBroker
<1>4. ASSUME NEW l \in Lane, NEW c \in Consumer, Deliver(l, c) PROVE RequestInv'
  BY <1>4, <1>d DEF Deliver
<1>5. ASSUME NEW l \in Lane, Check(l, "ingest"), ~Durable PROVE RequestInv'
  <2> DEFINE j == job[l]["ingest"]
             e == Head(j.events)
             new == job'[l]["ingest"]
  <2>1. /\ j.events \in Seq(Batch) /\ j.events /= <<>> /\ j.fresh \in Seq(Batch)
    BY <1>0, <1>5 DEF GoodJob, Check
  <2>2. e \in Batch /\ Range(j.events) = {e} \union Range(Tail(j.events))
    BY <2>1, RangeHeadTail
  <2>3. /\ Unmoved(l, "ingest") /\ new.events = Tail(j.events)
        /\ new.fresh = Filtered("ingest", j.fresh, e)
    BY <1>5, CheckEffect DEF Consumer
  <2>4. /\ Range(j.fresh) \subseteq Range(new.fresh)
        /\ e \in Range(new.fresh) \/ Handled("ingest", e)
    <3>1. CASE e \in Range(j.fresh) \/ <<"ingest", e>> \in marks
      BY <2>3, <3>1 DEF Filtered, Handled
    <3>2. CASE ~(e \in Range(j.fresh) \/ <<"ingest", e>> \in marks)
      <4>1. new.fresh = Append(j.fresh, e)
        BY <2>3, <3>2 DEF Filtered
      <4>2. j.fresh \in Seq(Batch) /\ e \in Batch
        BY <2>1, <2>2
      <4>3. Range(Append(j.fresh, e)) = Range(j.fresh) \union {e}
        <5> HIDE DEF j, e
        <5> QED BY <4>2, RangeAppend
      <4> QED BY <4>1, <4>3
    <3> QED BY <3>1, <3>2
  <2>5. Handled("ingest", e) => \A f \in Range(Triggers(e)) : Shown(f)
    BY <1>5, <2>2 DEF StoredInv, MarkedInv, Done
  <2>6. /\ Held(l) = Range(j.events) \union Range(j.fresh)
        /\ Held(l)' = Range(new.events) \union Range(new.fresh)
    BY DEF Held
  <2>7. sdk' = sdk /\ \A m \in Lane : m /= l => Held(m)' = Held(m)
    BY <1>5, <2>3 DEF Check, Unmoved, Held, Consumer
  <2> HIDE DEF j, e, new
  <2>8. \A b \in Batch : b \in Held(l) => b \in Held(l)' \/ \A f \in Range(Triggers(b)) : Shown(f)
    BY <2>2, <2>3, <2>4, <2>5, <2>6
  <2> QED BY <2>7, <2>8, RequestFrame
<1>6. ASSUME NEW l \in Lane, Mark(l, "ingest"), ~Durable PROVE RequestInv'
  <2>1. /\ job[l]["ingest"].pc = "mark" /\ Unmoved(l, "ingest")
    BY <1>6, MarkEffect DEF Consumer
  <2>2. \A b \in Held(l) : \A e \in Range(Triggers(b)) : Shown(e)
    BY <1>0, <1>6, <1>e, <2>1 DEF Progress, Held, Done
  <2>3. sdk' = sdk /\ \A m \in Lane : m /= l => Held(m)' = Held(m)
    BY <1>6, <2>1 DEF Mark, Unmoved, Held, Consumer
  <2> QED BY <2>2, <2>3, RequestFrame
<1>7. ASSUME NEW l \in Lane, End(l, "ingest"), ~Durable PROVE RequestInv'
  <2>1. /\ Held(l) = {} /\ sdk' = Reply(l, "acked")
        /\ \A m \in Lane : m /= l => Held(m)' = Held(m)
    BY <1>7, <1>h, PutEffect DEF End, Consumer, Held
  <2>2. \A b \in Batch : sdk[b].via = l => \A e \in Range(Triggers(b)) : Shown(e)
    BY <1>7, <2>1, LaneAssumption DEF RequestInv
  <2>3. \A b \in Batch :
          \/ sdk'[b] = sdk[b]
          \/ /\ sdk'[b].via = Nobody
             /\ sdk'[b].state = "acked" => \A e \in Range(Triggers(b)) : Shown(e)
    BY <2>1, <2>2, ReplyFields
  <2> QED BY <2>1, <2>3, RequestFrame
<1>8. ASSUME NEW l \in Lane, End(l, "rebuild"), ~Durable PROVE RequestInv'
  <2>1. PutBoth(l, Published(job[l]["ingest"]), Idle) /\ sdk' = sdk
    BY <1>8 DEF End
  <2>2. /\ Published(job[l]["ingest"]).events = job[l]["ingest"].events
        /\ Published(job[l]["ingest"]).fresh = job[l]["ingest"].fresh
    BY <1>0, PublishedFields
  <2> QED BY <1>a, <2>1, <2>2, PutBothEffect DEF Consumer
<1>9. ASSUME NEW l \in Lane, Check(l, "rebuild") \/ Mark(l, "rebuild") \/ Enqueue(l) PROVE RequestInv'
  <2>1. \E r : Put(l, "rebuild", r)
    BY <1>9 DEF Check, Mark, Enqueue
  <2>2. sdk' = sdk /\ \A m \in Lane : job'[m]["ingest"] = job[m]["ingest"]
    BY <1>9, <2>1, PutEffect DEF Check, Mark, Enqueue, Consumer
  <2> QED BY <1>a, <2>2
<1>10. ASSUME NEW l \in Lane, NEW b \in Batch, Insert(l, b) PROVE RequestInv'
  BY <1>10, <1>a, InsertEffect DEF Insert, Unmoved, Consumer
<1>11. ASSUME NEW l \in Lane, NEW b \in Batch, PublishTriggers(l, b), ~Durable PROVE RequestInv'
  <2> DEFINE j == job[l]["ingest"]
             new == [j EXCEPT !.pc = "await"]
  <2>1. /\ job'[l]["ingest"] = new /\ sdk' = sdk
        /\ \A m \in Lane : m /= l => job'[m]["ingest"] = job[m]["ingest"]
    BY <1>11, PublishEffect DEF PublishTriggers, Consumer
  <2>2. j \in Job("ingest")
    BY <1>0
  <2> HIDE DEF j
  <2>3. new.events = j.events /\ new.fresh = j.fresh
    BY <2>2 DEF Job
  <2> HIDE DEF new
  <2> QED BY <1>a, <2>1, <2>3 DEF j
<1>12. ASSUME NEW l \in Lane, NEW b \in Batch,
              FailInsert(l, b) \/ FailPublish(l, b) \/ RefusePublish(l, b), ~Durable
       PROVE  RequestInv'
  BY <1>12, <1>t DEF FailInsert, FailPublish, RefusePublish, Consumer
<1>13. ASSUME NEW k \in TraceKey, StartRebuild(k) PROVE RequestInv'
  BY <1>13, <1>a DEF StartRebuild
<1>14. ASSUME NEW k \in TraceKey, EndRebuild(k) PROVE RequestInv'
  BY <1>14, <1>a, EndEffect DEF EndRebuild
<1>15. ASSUME NEW k \in TraceKey, FailRebuild(k), ~Durable PROVE RequestInv'
  <2>1. CASE Waiter(k) = Nobody
    BY <1>15, <1>a, <2>1, FailEffect
  <2>2. CASE Waiter(k) /= Nobody
    BY <1>15, <1>t, <2>2, FailEffect DEF Consumer
  <2> QED BY <2>1, <2>2
<1>16. CASE Crash /\ ~Durable
  <2>1. \A b \in Batch : \/ sdk[b].state = "waiting" /\ sdk'[b].via = Nobody /\ sdk'[b].state = "failed"
                         \/ sdk[b].state /= "waiting" /\ sdk'[b] = sdk[b]
    BY <1>16 DEF Crash, Shape, TypeOK
  <2>2. \A b \in Batch : sdk'[b].via = Nobody
    BY <1>16, <2>1 DEF RequestInv
  <2> QED BY <2>1, <2>2, LaneAssumption, RequestFrame
<1>17. CASE Expire \/ UNCHANGED vars
  BY <1>17, <1>a DEF Expire, vars
<1> QED BY <1>d, <1>1, <1>2, <1>3, <1>4, <1>5, <1>6, <1>7, <1>8, <1>9, <1>10, <1>11, <1>12, <1>13,
           <1>14, <1>15, <1>16, <1>17 DEF Next, Request, Step, Break, Consumer

-----------------------------------------------------------------------------
(* The theorems. *)

\* The invariant that the theorems follow from.
IngestInv == Shape /\ StoredInv /\ (OneOwner => ShownInv)

\* In the first state nothing is delivered, marked, committed or waited for.
LEMMA InitIngest == Init => IngestInv
<1> SUFFICES ASSUME Init PROVE IngestInv
  OBVIOUS
<1>1. Shape
  BY InitShape
<1>2. \A l \in Lane : job[l]["ingest"] = Idle /\ job[l]["rebuild"] = Idle
  BY DEF Init, Consumer
<1>3. Idle.pc = "idle" /\ Idle.fresh = <<>> /\ Idle.events = <<>> /\ Range(<<>>) = {}
  BY DEF Idle, Range
<1>4. ProgressInv
  BY <1>2, <1>3 DEF ProgressInv, Progress
<1>5. /\ \A c \in Consumer : log[c] = <<>> /\ committed[c] = 0
      /\ marks = {} /\ Len(<<>>) = 0
  BY EmptySeq DEF Init, Consumer
<1>6. MarkedInv
  BY <1>5 DEF MarkedInv, Handled, Consumer
<1>7. AwaitsInv
  BY <1>2, <1>3, IdleAwaits DEF AwaitsInv
<1>8. ReadInv
  BY DEF Init, NoRebuild, ReadInv
<1>9. LogInv /\ HandledInv
  BY <1>3, <1>5 DEF LogInv, HandledInv, HandledIsShown, Handled, Consumer
<1>10. RequestInv
  BY DEF Init, RequestInv
<1> QED BY <1>1, <1>4, <1>6, <1>7, <1>8, <1>9, <1>10 DEF IngestInv, StoredInv, ShownInv

\* Each step keeps the invariant.
LEMMA IngestStep == IngestInv /\ [Next]_vars => IngestInv'
<1> SUFFICES ASSUME IngestInv, [Next]_vars PROVE IngestInv'
  OBVIOUS
<1>1. Shape /\ StoredInv /\ (OneOwner => ShownInv) /\ (~Durable => OneOwner)
  BY DEF IngestInv, OneOwner
<1>2. Shape'
  BY <1>1, ShapeStep
<1>3. StoredInv'
  BY <1>1, StoredStep
<1>4. ASSUME OneOwner PROVE ShownInv'
  <2>1. /\ ShownInv /\ AwaitsInv /\ ReadInv /\ LogInv /\ RequestInv
    BY <1>1, <1>4 DEF ShownInv
  <2>2. AwaitsInv' /\ HandledInv'
    BY <1>1, <1>4, <2>1, AwaitsStep
  <2>3. ReadInv' /\ LogInv' /\ RequestInv'
    BY <1>1, <2>1, ReadStep, LogStep, RequestStep
  <2> QED BY <2>2, <2>3 DEF ShownInv
<1>5. OneOwner' <=> OneOwner
  BY DEF OneOwner
<1> QED BY <1>2, <1>3, <1>4, <1>5 DEF IngestInv

\* A batch that the bus will not deliver again has all of its rows, and on the broker its
\* triggers: on either bus, for any batches and requests, however often a call fails or the
\* process dies.
THEOREM HandledBatchesAreStored == Spec => []HandledIsStored
<1>1. IngestInv => HandledIsStored
  BY DEF IngestInv, StoredInv, MarkedInv, HandledIsStored, Done
<1> QED BY InitIngest, IngestStep, <1>1, PTL DEF Spec

\* A trigger that the bus will not deliver again is shown: on either bus, however the rebuilds of
\* its trace are coalesced, queued, failed and forgotten; on the broker as long as no two users
\* share a trace id.
THEOREM HandledTriggersAreShown ==
  ASSUME OneOwner
  PROVE  Spec => []HandledIsShown
<1>1. IngestInv => HandledIsShown
  BY DEF IngestInv, ShownInv, HandledInv
<1> QED BY InitIngest, IngestStep, <1>1, PTL DEF Spec

\* On the in-process bus a batch whose request was answered with success can be read, for any
\* number of requests at once, given up, retried or failing in the middle.
THEOREM AckedBatchesAreShown ==
  ASSUME ~Durable
  PROVE  Spec => []AckedIsShown
<1>1. OneOwner
  BY DEF OneOwner
<1>2. IngestInv => AckedIsShown
  BY <1>1 DEF IngestInv, ShownInv, RequestInv, AckedIsShown, Shown
<1> QED BY InitIngest, IngestStep, <1>2, PTL DEF Spec
=============================================================================
