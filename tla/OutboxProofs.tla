---------------------------- MODULE OutboxProofs ----------------------------
(***************************************************************************)
(* Theorems about Outbox, for any set of rows and relays, any batch size,  *)
(* lock expiry and number of failures; and about RelayLifecycle, for any   *)
(* signals, delays and number of failures.                                 *)
(***************************************************************************)
EXTENDS Outbox, RelayLifecycle, TLAPS

-----------------------------------------------------------------------------
\* Types hold in every reachable state.
THEOREM TypeCorrect == Spec => []TypeOK
<1> USE OutboxAssumption DEF TypeOK, Status, Step, CopyCap
<1>1. Init => TypeOK
  BY DEF Init
<1>2. TypeOK /\ [Next]_vars => TypeOK'
  <2> SUFFICES ASSUME TypeOK, [Next]_vars PROVE TypeOK'
    OBVIOUS
  <2> USE DEF SetStatus, Handed, Goto, PollEnds, Fault, TakeRows
  <2>1. ASSUME NEW S \in SUBSET Events, Save(S) PROVE TypeOK'
    BY <2>1 DEF Save
  <2>2. CASE Tick
    BY <2>2 DEF Tick
  <2>3. ASSUME NEW r \in Relays, Poll(r) PROVE TypeOK'
    <3>1. CASE RecoverStuck(r)
      BY <3>1 DEF RecoverStuck
    <3>2. CASE ClaimNothing(r)
      BY <3>2 DEF ClaimNothing
    <3>3. CASE SelectPending(r)
      BY <3>3 DEF SelectPending, Claimable, Available, Pending
    <3>4. CASE Publish(r)
      BY <3>4 DEF Publish
    <3>5. CASE MarkSent(r)
      BY <3>5 DEF MarkSent
    <3>6. CASE MarkFailed(r)
      BY <3>6 DEF MarkFailed
    <3>7. CASE CommitClaim(r)
      BY <3>7 DEF CommitClaim, TakeRows
    <3> QED BY <2>3, <3>1, <3>2, <3>3, <3>4, <3>5, <3>6, <3>7 DEF Poll
  <2>4. ASSUME NEW r \in Relays, Failure(r) PROVE TypeOK'
    <3>1. CASE RecoverStuckFails(r)
      BY <3>1 DEF RecoverStuckFails
    <3>2. CASE ClaimPendingFails(r)
      BY <3>2 DEF ClaimPendingFails
    <3>3. CASE PublishFails(r)
      BY <3>3 DEF PublishFails
    <3>4. CASE MarkSentFails(r)
      BY <3>4 DEF MarkSentFails
    <3>5. CASE MarkFailedFails(r)
      BY <3>5 DEF MarkFailedFails
    <3>6. CASE Crash(r)
      BY <3>6 DEF Crash
    <3> QED BY <2>4, <3>1, <3>2, <3>3, <3>4, <3>5, <3>6 DEF Failure
  <2>5. CASE UNCHANGED vars
    BY <2>5 DEF vars
  <2> QED BY <2>1, <2>2, <2>3, <2>4, <2>5 DEF Next
<1> QED BY <1>1, <1>2, PTL DEF Spec

-----------------------------------------------------------------------------
(* The inductive invariant, in three parts.                                *)

\* What a relay holds: rows of the table, only during a poll, and handed to
\* the bus before they are marked sent.
HoldInv ==
  /\ \A r \in Relays : pc[r] \in {"idle", "claim"} => claimed[r] = {}
  /\ \A r \in Relays : claimed[r] \subseteq Rows
  /\ \A r \in Relays : pc[r] = "markSent" => \A e \in claimed[r] : copies[e] >= 1
  /\ SentWasPublished

\* Until a row is old its claim is exclusive: while the claim's transaction is open
\* its lock keeps others off, and after the commit no query can make the row
\* 'pending' under the relay that holds it.
ClaimInv ==
  /\ \A r \in Relays : \A e \in claimed[r] :
       ~Old(e) => IF pc[r] = "commit" THEN status[e] = "pending"
                                      ELSE status[e] \in {"processing", "sent"}
  /\ SharedClaimIsOld

\* While nothing has failed, a young row that can still be handed over has not
\* been handed over yet.
CopyInv ==
  /\ \A r \in Relays : pc[r] = "markFailed" => faults > 0
  /\ \A e \in Events : status[e] = "absent" => copies[e] = 0
  /\ \A e \in Events :
       ~Old(e) /\ faults = 0 /\ status[e] = "pending" => copies[e] = 0
  /\ \A r \in Relays : \A e \in claimed[r] :
       ~Old(e) /\ faults = 0 /\ pc[r] = "publish" => copies[e] = 0
  /\ OneCopyWhileYoung

IInv == TypeOK /\ HoldInv /\ ClaimInv /\ CopyInv

\* A step keeps what a relay holds in order.
LEMMA HoldStep ==
  ASSUME TypeOK, HoldInv, [Next]_vars
  PROVE  HoldInv'
<1> USE OutboxAssumption DEF TypeOK, Status, Step, CopyCap
<1> USE DEF SetStatus, Goto, PollEnds, Fault, HoldInv, SentWasPublished, Rows
<1>1. ASSUME NEW S \in SUBSET Events, Save(S) PROVE HoldInv'
  BY <1>1 DEF Save
<1>2. CASE Tick
  BY <1>2 DEF Tick
<1>3. ASSUME NEW r \in Relays, Poll(r) PROVE HoldInv'
  <2>1. CASE RecoverStuck(r)
    BY <2>1 DEF RecoverStuck, Expired, Processing
  <2>2. CASE ClaimNothing(r)
    BY <2>2 DEF ClaimNothing
  <2>3. CASE SelectPending(r)
    BY <2>3 DEF SelectPending, Claimable, Available, Pending
  <2>4. CASE Publish(r)
    BY <2>4 DEF Publish, Handed
  <2>5. CASE MarkSent(r)
    BY <2>5 DEF MarkSent
  <2>6. CASE MarkFailed(r)
    BY <2>6 DEF MarkFailed
  <2>7. CASE CommitClaim(r)
    BY <2>7 DEF CommitClaim, TakeRows
  <2> QED BY <1>3, <2>1, <2>2, <2>3, <2>4, <2>5, <2>6, <2>7 DEF Poll
<1>4. ASSUME NEW r \in Relays, Failure(r) PROVE HoldInv'
  <2>1. CASE RecoverStuckFails(r)
    BY <2>1 DEF RecoverStuckFails, Expired, Processing
  <2>2. CASE ClaimPendingFails(r)
    BY <2>2 DEF ClaimPendingFails, TakeRows
  <2>3. CASE PublishFails(r)
    BY <2>3 DEF PublishFails, Handed
  <2>4. CASE MarkSentFails(r)
    BY <2>4 DEF MarkSentFails
  <2>5. CASE MarkFailedFails(r)
    BY <2>5 DEF MarkFailedFails
  <2>6. CASE Crash(r)
    BY <2>6 DEF Crash
  <2> QED BY <1>4, <2>1, <2>2, <2>3, <2>4, <2>5, <2>6 DEF Failure
<1>5. CASE UNCHANGED vars
  BY <1>5 DEF vars
<1> QED BY <1>1, <1>2, <1>3, <1>4, <1>5 DEF Next

\* A step keeps the claims on young rows exclusive.
LEMMA ClaimStep ==
  ASSUME TypeOK, HoldInv, ClaimInv, [Next]_vars
  PROVE  ClaimInv'
<1> USE OutboxAssumption DEF TypeOK, Status, Step, CopyCap
<1> USE DEF SetStatus, Goto, PollEnds, Fault, HoldInv, ClaimInv, SharedClaimIsOld, Rows, Old
<1>1. ASSUME NEW S \in SUBSET Events, Save(S) PROVE ClaimInv'
  BY <1>1 DEF Save
<1>2. CASE Tick
  BY <1>2 DEF Tick
<1>3. ASSUME NEW r \in Relays, Poll(r) PROVE ClaimInv'
  <2>1. CASE RecoverStuck(r)
    BY <2>1 DEF RecoverStuck, Expired, Processing
  <2>2. CASE ClaimNothing(r)
    BY <2>2 DEF ClaimNothing
  <2>3. CASE SelectPending(r)
    <3>1. PICK S \in Claimable : claimed' = [claimed EXCEPT ![r] = S]
      BY <2>3 DEF SelectPending
    <3>2. S \subseteq Available
      BY DEF Claimable
    <3>3. \A q \in Relays : \A e \in S \cap claimed[q] : pc[q] # "commit"
      BY <3>2 DEF Available, Locked
    <3>4. \A e \in S : e \in Events /\ status[e] = "pending"
      BY <3>2 DEF Available, Pending
    <3>5. pc' = [pc EXCEPT ![r] = "commit"] /\ UNCHANGED <<status, created, now>>
      BY <2>3 DEF SelectPending
    <3>6. \A q \in Relays : \A e \in S \cap claimed[q] : Old(e)
      BY <3>3, <3>4
    <3> HIDE DEF Claimable
    <3> QED BY <3>1, <3>4, <3>5, <3>6
  <2>4. CASE Publish(r)
    BY <2>4 DEF Publish, Handed
  <2>5. CASE MarkSent(r)
    BY <2>5 DEF MarkSent
  <2>6. CASE MarkFailed(r)
    BY <2>6 DEF MarkFailed
  <2>7. CASE CommitClaim(r)
    BY <2>7 DEF CommitClaim, TakeRows
  <2> QED BY <1>3, <2>1, <2>2, <2>3, <2>4, <2>5, <2>6, <2>7 DEF Poll
<1>4. ASSUME NEW r \in Relays, Failure(r) PROVE ClaimInv'
  <2>1. CASE RecoverStuckFails(r)
    BY <2>1 DEF RecoverStuckFails, Expired, Processing
  <2>2. CASE ClaimPendingFails(r)
    BY <2>2 DEF ClaimPendingFails, TakeRows
  <2>3. CASE PublishFails(r)
    BY <2>3 DEF PublishFails, Handed
  <2>4. CASE MarkSentFails(r)
    BY <2>4 DEF MarkSentFails
  <2>5. CASE MarkFailedFails(r)
    BY <2>5 DEF MarkFailedFails
  <2>6. CASE Crash(r)
    BY <2>6 DEF Crash
  <2> QED BY <1>4, <2>1, <2>2, <2>3, <2>4, <2>5, <2>6 DEF Failure
<1>5. CASE UNCHANGED vars
  BY <1>5 DEF vars
<1> QED BY <1>1, <1>2, <1>3, <1>4, <1>5 DEF Next

\* A step hands a young row over at most once unless something failed.
LEMMA CopyStep ==
  ASSUME TypeOK, HoldInv, ClaimInv, CopyInv, [Next]_vars
  PROVE  CopyInv'
<1> USE OutboxAssumption DEF TypeOK, Status, Step, CopyCap
<1> USE DEF SetStatus, Goto, PollEnds, Fault, HoldInv, ClaimInv, SharedClaimIsOld, CopyInv, OneCopyWhileYoung, Rows, Old
<1>1. ASSUME NEW S \in SUBSET Events, Save(S) PROVE CopyInv'
  BY <1>1 DEF Save
<1>2. CASE Tick
  BY <1>2 DEF Tick
<1>3. ASSUME NEW r \in Relays, Poll(r) PROVE CopyInv'
  <2>1. CASE RecoverStuck(r)
    BY <2>1 DEF RecoverStuck, Expired, Processing
  <2>2. CASE ClaimNothing(r)
    BY <2>2 DEF ClaimNothing
  <2>3. CASE SelectPending(r)
    BY <2>3 DEF SelectPending, Claimable, Available, Pending
  <2>4. CASE Publish(r)
    BY <2>4 DEF Publish, Handed
  <2>5. CASE MarkSent(r)
    BY <2>5 DEF MarkSent
  <2>6. CASE MarkFailed(r)
    BY <2>6 DEF MarkFailed
  <2>7. CASE CommitClaim(r)
    BY <2>7 DEF CommitClaim, TakeRows
  <2> QED BY <1>3, <2>1, <2>2, <2>3, <2>4, <2>5, <2>6, <2>7 DEF Poll
<1>4. ASSUME NEW r \in Relays, Failure(r) PROVE CopyInv'
  <2>1. CASE RecoverStuckFails(r)
    BY <2>1 DEF RecoverStuckFails, Expired, Processing
  <2>2. CASE ClaimPendingFails(r)
    BY <2>2 DEF ClaimPendingFails, TakeRows
  <2>3. CASE PublishFails(r)
    BY <2>3 DEF PublishFails, Handed
  <2>4. CASE MarkSentFails(r)
    BY <2>4 DEF MarkSentFails
  <2>5. CASE MarkFailedFails(r)
    BY <2>5 DEF MarkFailedFails
  <2>6. CASE Crash(r)
    BY <2>6 DEF Crash
  <2> QED BY <1>4, <2>1, <2>2, <2>3, <2>4, <2>5, <2>6 DEF Failure
<1>5. CASE UNCHANGED vars
  BY <1>5 DEF vars
<1> QED BY <1>1, <1>2, <1>3, <1>4, <1>5 DEF Next

\* The inductive invariant holds in every reachable state.
THEOREM Inductive == Spec => []IInv
<1>1. Init => HoldInv /\ ClaimInv /\ CopyInv
  BY DEF Init, HoldInv, ClaimInv, CopyInv, SentWasPublished, SharedClaimIsOld,
         OneCopyWhileYoung
<1>2. TypeOK /\ HoldInv /\ ClaimInv /\ CopyInv /\ [Next]_vars
        => HoldInv' /\ ClaimInv' /\ CopyInv'
  BY HoldStep, ClaimStep, CopyStep
<1> QED BY <1>1, <1>2, TypeCorrect, PTL DEF Spec, IInv

\* No order of polls, recoveries, failures and crashes marks a row 'sent' that
\* was never handed to the bus.
THEOREM SentRowsWerePublished == Spec => []SentWasPublished
<1>1. IInv => SentWasPublished
  BY DEF IInv, HoldInv
<1> QED BY <1>1, Inductive, PTL

\* Two relays hold the same row only after it has outlived the lock expiry.
THEOREM ClaimsAreExclusiveWhileYoung == Spec => []SharedClaimIsOld
<1>1. IInv => SharedClaimIsOld
  BY DEF IInv, ClaimInv
<1> QED BY <1>1, Inductive, PTL

\* A second copy of a row needs a failed call or a row older than the lock expiry.
THEOREM DuplicatesNeedAgeOrFault == Spec => []OneCopyWhileYoung
<1>1. IInv => OneCopyWhileYoung
  BY DEF IInv, CopyInv
<1> QED BY <1>1, Inductive, PTL

-----------------------------------------------------------------------------
(* Refinement: the outbox implements AtLeastOnce, step by step.            *)

\* Saving rows is acceptance; the clock and the claims are invisible.
LEMMA SaveAccepts ==
  ASSUME IInv, NEW S \in SUBSET Events, Save(S)
  PROVE  Promise!Accept(S)
BY DEF IInv, TypeOK, HoldInv, Save, SetStatus, Rows, Promise!Accept

\* Each call of a poll, failing or not, delivers, settles or changes nothing.
LEMMA PollRefines ==
  ASSUME IInv, NEW r \in Relays, Poll(r) \/ Failure(r)
  PROVE  Promise!Next \/ UNCHANGED Promise!abstractVars
<1> USE DEF IInv, TypeOK, HoldInv, SentWasPublished, Status, Rows, Promise!Next,
            Promise!abstractVars
<1> DEFINE sentAfter == {e \in Events : status'[e] = "sent"}
<1>1. claimed[r] \in SUBSET Events
  OBVIOUS
<1>2. ASSUME NEW S \in SUBSET claimed[r], copies' = Handed(S), UNCHANGED status
      PROVE  Promise!Deliver(S)
  BY <1>1, <1>2 DEF Promise!Deliver, Handed, CopyCap
<1>3. CASE Publish(r) \/ PublishFails(r)
  <2>1. PICK S \in SUBSET claimed[r] : copies' = Handed(S)
    BY <1>3 DEF Publish, PublishFails
  <2>2. UNCHANGED status
    BY <1>3 DEF Publish, PublishFails
  <2> QED BY <1>1, <1>2, <2>1, <2>2
<1>4. CASE ~(Publish(r) \/ PublishFails(r))
  <2>1. /\ UNCHANGED copies
        /\ Rows' = Rows
        /\ sentAfter \subseteq {e \in Events : copies[e] > 0}
    <3> USE DEF SetStatus, PollEnds, TakeRows, Claimable, Available, Pending, Expired, Processing
    <3>1. CASE Poll(r)
      BY <1>4, <3>1 DEF Poll, RecoverStuck, ClaimNothing, SelectPending, CommitClaim,
                        MarkSent, MarkFailed
    <3>2. CASE Failure(r)
      BY <1>4, <3>2 DEF Failure, RecoverStuckFails, ClaimPendingFails, MarkSentFails,
                        MarkFailedFails, Crash
    <3> QED BY <3>1, <3>2
  <2>2. PICK S \in SUBSET Events : S = sentAfter
    OBVIOUS
  <2>3. Promise!Settle(S)
    BY <2>1, <2>2 DEF Promise!Settle
  <2> QED BY <2>3
<1> QED BY <1>3, <1>4

\* Every behaviour of the outbox is one the promise allows (its safety part).
THEOREM ImplementsAtLeastOnce == Spec => Promise!Spec
<1>1. Init => Promise!Init
  BY DEF Init, Promise!Init, Rows
<1>2. IInv /\ [Next]_vars => [Promise!Next]_(Promise!abstractVars)
  <2> SUFFICES ASSUME IInv, [Next]_vars
               PROVE  Promise!Next \/ UNCHANGED Promise!abstractVars
    OBVIOUS
  <2>1. ASSUME NEW S \in SUBSET Events, Save(S) PROVE Promise!Next
    BY <2>1, SaveAccepts DEF Promise!Next
  <2>2. CASE Tick \/ UNCHANGED vars
    BY <2>2 DEF Tick, vars, Promise!abstractVars, Rows
  <2> QED BY <2>1, <2>2, PollRefines DEF Next
<1> QED BY <1>1, <1>2, Inductive, PTL DEF Spec, Promise!Spec

-----------------------------------------------------------------------------
(* The life of a relay.                                                    *)

\* Only an active relay has a timer, and a poll that outlives its relay has somebody waiting.
RelayInv ==
  /\ ~booted => ~isActive /\ ~isPolling
  /\ armed => isActive
  /\ isPolling /\ ~isActive => resolver /= {}

LEMMA InitRelay == LifecycleInit => RelayInv
BY DEF LifecycleInit, RelayInv

LEMMA NextRelay == RelayInv /\ [LifecycleNext]_lifecycleVars => RelayInv'
<1> SUFFICES ASSUME RelayInv, [LifecycleNext]_lifecycleVars PROVE RelayInv'
  OBVIOUS
<1>1. CASE Start
  BY <1>1 DEF RelayInv, Start, ScheduleNext
<1>2. CASE PollBegins
  BY <1>2 DEF RelayInv, PollBegins
<1>3. ASSUME NEW success \in BOOLEAN, PollSettles(success) PROVE RelayInv'
  <2>1. CASE isActive
    BY <1>3, <2>1 DEF RelayInv, PollSettles, ScheduleNext
  <2>2. CASE ~isActive
    BY <1>3, <2>2 DEF RelayInv, PollSettles
  <2> QED
    BY <2>1, <2>2
<1>4. ASSUME NEW h \in Handlers, Signal(h) PROVE RelayInv'
  <2>1. CASE isActive
    <3>1. ~isActive' /\ ~armed' /\ isPolling' = isPolling /\ booted' = booted
      BY <1>4, <2>1 DEF Signal, StopPolling
    <3>2. isPolling => resolver' = {h}
      BY <1>4, <2>1 DEF Signal, StopPolling
    <3> QED
      BY <2>1, <3>1, <3>2 DEF RelayInv
  <2>2. CASE ~isActive
    BY <1>4, <2>2 DEF RelayInv, Signal
  <2> QED
    BY <2>1, <2>2
<1>5. ASSUME NEW h \in Handlers, Shutdown(h) PROVE RelayInv'
  BY <1>5 DEF RelayInv, Shutdown, CloseBus, ClosePool, Exit, relay
<1>6. CASE UNCHANGED lifecycleVars
  BY <1>6 DEF RelayInv, lifecycleVars
<1> QED
  BY <1>1, <1>2, <1>3, <1>4, <1>5, <1>6 DEF LifecycleNext

\* Math.min of two or more values: the least of them.
LEMMA LesserOfTwo ==
  ASSUME NEW x \in Nat, NEW y \in Nat
  PROVE  Min({x, y}) = IF x <= y THEN x ELSE y
<1> DEFINE m == IF x <= y THEN x ELSE y
<1>1. m \in {x, y} /\ \A z \in {x, y} : m <= z
  OBVIOUS
<1>2. \A n \in {x, y} : (\A z \in {x, y} : n <= z) => n = m
  OBVIOUS
<1> QED BY <1>1, <1>2 DEF Min

LEMMA LargerOfTwo ==
  ASSUME NEW x \in Nat, NEW y \in Nat
  PROVE  Max({x, y}) = IF x <= y THEN y ELSE x
<1> DEFINE m == IF x <= y THEN y ELSE x
<1>1. m \in {x, y} /\ \A z \in {x, y} : m >= z
  OBVIOUS
<1>2. \A n \in {x, y} : (\A z \in {x, y} : n >= z) => n = m
  OBVIOUS
<1> QED BY <1>1, <1>2 DEF Max

\* A delay is never below the poll interval nor above the cap, unless the cap is the lower.
Allowed == Min({Interval, MaxBackoff}) .. Max({Interval, MaxBackoff})

LEMMA AllowedDelays == Interval \in Allowed /\ \A f \in Nat : Delays(f) \subseteq Allowed
<1>1. Interval \in Nat \ {0} /\ MaxBackoff \in Nat \ {0}
  BY LifecycleAssumption
<1>2. /\ Min({Interval, MaxBackoff}) = IF Interval <= MaxBackoff THEN Interval ELSE MaxBackoff
      /\ Max({Interval, MaxBackoff}) = IF Interval <= MaxBackoff THEN MaxBackoff ELSE Interval
  BY <1>1, LesserOfTwo, LargerOfTwo
<1>3. Interval \in Allowed
  BY <1>1, <1>2 DEF Allowed
<1>4. ASSUME NEW f \in Nat, NEW d \in Delays(f) PROVE d \in Allowed
  <2>1. CASE f = 0
    BY <1>3, <1>4, <2>1 DEF Delays
  <2>2. CASE f /= 0
    <3> DEFINE backoff == Interval * Factor(f)
    <3>1. Factor(f) \in Nat /\ Factor(f) >= 1
      <4>1. CASE f > 5
        BY <4>1 DEF Factor
      <4>2. CASE f \in 1 .. 5
        <5>1. 2 ^ 0 = 1 /\ 2 ^ 1 = 2 /\ 2 ^ 2 = 4 /\ 2 ^ 3 = 8 /\ 2 ^ 4 = 16
          OBVIOUS
        <5>2. Factor(f) = 2 ^ (f - 1)
          BY <4>2 DEF Factor
        <5>3. f - 1 = 0 \/ f - 1 = 1 \/ f - 1 = 2 \/ f - 1 = 3 \/ f - 1 = 4
          BY <4>2
        <5>4. 2 ^ (f - 1) \in {1, 2, 4, 8, 16}
          BY <5>1, <5>3, Zenon
        <5> QED BY <5>2, <5>4
      <4> QED BY <2>2, <4>1, <4>2
    <3>2. backoff \in Nat /\ backoff >= Interval
      <4>1. \A x \in Nat \ {0}, y \in Nat : y >= 1 => x * y \in Nat /\ x * y >= x
        OBVIOUS
      <4> QED BY <1>1, <3>1, <4>1
    <3> HIDE DEF backoff
    <3>3. (backoff * 3) \div 10 \in Nat
      BY <3>2
    <3>4. PICK jitter \in {0, (backoff * 3) \div 10} : d = Min({backoff + jitter, MaxBackoff})
      BY <1>4, <2>2 DEF Delays, backoff
    <3>5. backoff + jitter \in Nat /\ backoff + jitter >= Interval
      BY <1>1, <3>2, <3>3, <3>4
    <3>6. d = IF backoff + jitter <= MaxBackoff THEN backoff + jitter ELSE MaxBackoff
      BY <1>1, <3>4, <3>5, LesserOfTwo
    <3> QED BY <1>1, <1>2, <3>5, <3>6 DEF Allowed
  <2> QED BY <2>1, <2>2
<1> QED BY <1>3, <1>4

\* Types hold in every reachable state; the backoff keeps to its bounds whatever the delays.
THEOREM LifecycleTypes == LifecycleSpec => []LifecycleTypeOK
<1>1. LifecycleInit => LifecycleTypeOK
  <2> SUFFICES ASSUME LifecycleInit PROVE LifecycleTypeOK
    OBVIOUS
  <2>1. delay \in Min({Interval, MaxBackoff}) .. Max({Interval, MaxBackoff})
    BY AllowedDelays DEF LifecycleInit, Allowed
  <2>2. failureCount \in 0 .. MaxFailures
    BY LifecycleAssumption DEF LifecycleInit
  <2> QED BY <2>1, <2>2 DEF LifecycleInit, LifecycleTypeOK, HandlerStep
<1>2. LifecycleTypeOK /\ [LifecycleNext]_lifecycleVars => LifecycleTypeOK'
  <2> SUFFICES ASSUME LifecycleTypeOK, [LifecycleNext]_lifecycleVars PROVE LifecycleTypeOK'
    OBVIOUS
  <2>0. MaxFailures \in Nat /\ failureCount \in Nat
    BY LifecycleAssumption DEF LifecycleTypeOK
  <2>1. ASSUME NEW f \in 0 .. MaxFailures, ScheduleNext(f)
        PROVE  armed' \in BOOLEAN /\ delay' \in Min({Interval, MaxBackoff}) .. Max({Interval, MaxBackoff})
    BY <2>0, <2>1, AllowedDelays DEF ScheduleNext, Allowed
  <2> USE DEF LifecycleTypeOK, HandlerStep
  <2>2. CASE Start
    BY <2>1, <2>2 DEF Start
  <2>3. CASE PollBegins
    BY <2>3 DEF PollBegins
  <2>4. ASSUME NEW success \in BOOLEAN, PollSettles(success) PROVE LifecycleTypeOK'
    <3>1. failureCount' \in 0 .. MaxFailures
      <4>1. Min({failureCount + 1, MaxFailures}) \in 0 .. MaxFailures
        BY <2>0, LesserOfTwo
      <4> QED BY <2>0, <2>4, <4>1 DEF PollSettles
    <3>2. CASE isActive
      BY <2>1, <2>4, <3>1, <3>2 DEF PollSettles
    <3>3. CASE ~isActive
      BY <2>4, <3>1, <3>3 DEF PollSettles
    <3> QED BY <3>2, <3>3
  <2>5. ASSUME NEW h \in Handlers, Signal(h) PROVE LifecycleTypeOK'
    BY <2>5 DEF Signal, StopPolling
  <2>6. ASSUME NEW h \in Handlers, Shutdown(h) PROVE LifecycleTypeOK'
    BY <2>6 DEF Shutdown, CloseBus, ClosePool, Exit, relay
  <2>7. CASE UNCHANGED lifecycleVars
    BY <2>7 DEF lifecycleVars
  <2> QED BY <2>2, <2>3, <2>4, <2>5, <2>6, <2>7 DEF LifecycleNext
<1> QED BY <1>1, <1>2, PTL DEF LifecycleSpec

\* When no stop() waits any more, a stopped relay polls nothing and will not begin to: the pool
\* can be closed (OutboxRelay.stop, pollNext's finally block, handleGracefulShutdown).
THEOREM StoppedRelaysAreQuiet == LifecycleSpec => []StopQuiesces
<1>1. RelayInv => StopQuiesces
  BY DEF RelayInv, StopQuiesces
<1> QED
  BY <1>1, InitRelay, NextRelay, PTL DEF LifecycleSpec
=============================================================================
