------------------------------- MODULE Outbox -------------------------------
(***************************************************************************)
(* The transactional outbox: the outbox_events table (PgOutboxStore, and   *)
(* InMemoryOutboxStore with the same semantics) and the OutboxRelay of     *)
(* every backend instance that polls it.                                   *)
(*                                                                         *)
(* A poll is a sequence of awaited calls: recoverStuck, claimPending, the  *)
(* publish, then markSent or markFailed.  A call is one atomic action (it  *)
(* is one SQL statement), except claimPending, a transaction of two: its   *)
(* SELECT locks rows, its UPDATE and commit release them.  Between two     *)
(* actions other relays, new rows, the clock and crashes interleave.       *)
(***************************************************************************)
EXTENDS Naturals, FiniteSets

CONSTANTS
  Events,     \* rows that may ever be saved
  Relays,     \* backend instances, one OutboxRelay each
  BatchSize,  \* OUTBOX_BATCH_SIZE
  Expiry,     \* OUTBOX_LOCK_EXPIRY_MS, in ticks of the clock
  MaxTime,    \* bound: the clock stops here
  MaxFaults   \* bound: failures and crashes in a behaviour

ASSUME OutboxAssumption ==
  /\ BatchSize \in Nat \ {0}
  /\ Expiry \in Nat
  /\ MaxTime \in Nat
  /\ MaxFaults \in Nat

VARIABLES
  status,     \* status column; "absent" before the row is inserted
  created,    \* created_at column
  now,        \* the database clock
  pc,         \* where each relay's poll is
  claimed,    \* each relay's poll: the rows its claim selected, claimedEvents
  copies,     \* history: how often the bus was handed the row (saturates)
  claimedAt,  \* history: when the row last became 'processing'
  faults      \* failures so far

vars == <<status, created, now, pc, claimed, copies, claimedAt, faults>>

Status == {"absent", "pending", "processing", "sent"}
Step   == {"idle", "claim", "commit", "publish", "markSent", "markFailed"}
CopyCap == 2   \* bound: one copy and more than one are told apart, no more

Rows       == {e \in Events : status[e] # "absent"}
Pending    == {e \in Events : status[e] = "pending"}
Processing == {e \in Events : status[e] = "processing"}

\* Rows that the SELECT ... FOR UPDATE of an open claim has locked.
Locked == UNION {claimed[r] : r \in {q \in Relays : pc[q] = "commit"}}

SetStatus(S, new) == [e \in Events |-> IF e \in S THEN new ELSE status[e]]

\* Hand the rows of S to the bus once more.
Handed(S) ==
  [e \in Events |-> IF e \in S /\ copies[e] < CopyCap THEN copies[e] + 1 ELSE copies[e]]

Goto(r, step) == pc' = [pc EXCEPT ![r] = step]

\* The end of a poll: pollNext's finally, and the poll's local claimedEvents gone.
PollEnds(r) == /\ Goto(r, "idle")
               /\ claimed' = [claimed EXCEPT ![r] = {}]

Fault == /\ faults < MaxFaults
         /\ faults' = faults + 1

-----------------------------------------------------------------------------
Init ==
  /\ status    = [e \in Events |-> "absent"]
  /\ created   = [e \in Events |-> 0]
  /\ now       = 0
  /\ pc        = [r \in Relays |-> "idle"]
  /\ claimed   = [r \in Relays |-> {}]
  /\ copies    = [e \in Events |-> 0]
  /\ claimedAt = [e \in Events |-> 0]
  /\ faults    = 0

(***************************************************************************)
(* The transaction of a caller that published with { tx } commits: its     *)
(* rows appear together, with created_at = NOW() of that transaction.      *)
(* Bound: rows are saved only while the clock can still move far enough    *)
(* for recoverStuck to see them expire.                                    *)
(***************************************************************************)
Save(S) ==
  /\ S # {}
  /\ S \cap Rows = {}
  /\ now + Expiry < MaxTime
  /\ status'  = SetStatus(S, "pending")
  /\ created' = [e \in Events |-> IF e \in S THEN now ELSE created[e]]
  /\ UNCHANGED <<now, pc, claimed, copies, claimedAt, faults>>

Tick ==
  /\ now < MaxTime
  /\ now' = now + 1
  /\ UNCHANGED <<status, created, pc, claimed, copies, claimedAt, faults>>

-----------------------------------------------------------------------------
(* A poll, call by call.                                                   *)

\* Mutant: the comparison with the cutoff the wrong way round.
Expired_Inverted == {e \in Processing : created[e] + Expiry > now}

\* What recoverStuck selects: it looks at created_at, not at the time of the claim.
Expired == {e \in Processing : created[e] + Expiry < now}

RecoverStuck(r) ==
  /\ pc[r] = "idle"
  /\ status' = SetStatus(Expired, "pending")
  /\ Goto(r, "claim")
  /\ UNCHANGED <<created, now, claimed, copies, claimedAt, faults>>

\* Mutant: the SELECT without FOR UPDATE SKIP LOCKED.
Available_NoLocks == Pending

\* SKIP LOCKED: rows of another open claim are passed over.
Available == Pending \ Locked

\* The sets a claim may select: the oldest available rows, at most BatchSize of them.
Claimable ==
  {S \in SUBSET Available :
     /\ Cardinality(S) <= BatchSize
     /\ Cardinality(S) < BatchSize => S = Available
     /\ \A e \in S, f \in Available \ S : created[e] <= created[f]}

ClaimNothing(r) ==
  /\ pc[r] = "claim"
  /\ Available = {}
  /\ PollEnds(r)
  /\ UNCHANGED <<status, created, now, copies, claimedAt, faults>>

\* The claim's SELECT.
SelectPending(r) ==
  /\ pc[r] = "claim"
  /\ \E S \in Claimable \ {{}} : claimed' = [claimed EXCEPT ![r] = S]
  /\ Goto(r, "commit")
  /\ UNCHANGED <<status, created, now, copies, claimedAt, faults>>

\* Mutant: a claim that reads the rows and leaves them 'pending'.
TakeRows_ReadOnly(S) ==
  /\ UNCHANGED status
  /\ claimedAt' = [e \in Events |-> IF e \in S THEN now ELSE claimedAt[e]]

\* The claim's UPDATE.
TakeRows(S) ==
  /\ status'    = SetStatus(S, "processing")
  /\ claimedAt' = [e \in Events |-> IF e \in S THEN now ELSE claimedAt[e]]

CommitClaim(r) ==
  /\ pc[r] = "commit"
  /\ TakeRows(claimed[r])
  /\ Goto(r, "publish")
  /\ UNCHANGED <<created, now, claimed, copies, faults>>

Publish(r) ==
  /\ pc[r] = "publish"
  /\ copies' = Handed(claimed[r])
  /\ Goto(r, "markSent")
  /\ UNCHANGED <<status, created, now, claimed, claimedAt, faults>>

\* An UPDATE waits for the row locks of open claims.
Unlocked(S) == S \cap Locked = {}

MarkSent(r) ==
  /\ pc[r] = "markSent"
  /\ Unlocked(claimed[r])
  /\ status' = SetStatus(claimed[r], "sent")
  /\ PollEnds(r)
  /\ UNCHANGED <<created, now, copies, claimedAt, faults>>

\* Mutant: the 'failed' status of the OutboxEvent type, which no query selects.
MarkFailed_Failed(r) ==
  /\ pc[r] = "markFailed"
  /\ Unlocked(claimed[r])
  /\ status' = SetStatus(claimed[r], "failed")
  /\ PollEnds(r)
  /\ UNCHANGED <<created, now, copies, claimedAt, faults>>

\* Mutant: no retry, the batch is written off when its publish fails.
MarkFailed_WriteOff(r) ==
  /\ pc[r] = "markFailed"
  /\ Unlocked(claimed[r])
  /\ status' = SetStatus(claimed[r], "sent")
  /\ PollEnds(r)
  /\ UNCHANGED <<created, now, copies, claimedAt, faults>>

MarkFailed(r) ==
  /\ pc[r] = "markFailed"
  /\ Unlocked(claimed[r])
  /\ status' = SetStatus(claimed[r], "pending")
  /\ PollEnds(r)
  /\ UNCHANGED <<created, now, copies, claimedAt, faults>>

-----------------------------------------------------------------------------
(* Failures.  A call that fails may or may not have taken effect: the      *)
(* connection can be lost before the statement or after its commit.        *)

\* recoverStuck throws: the outer catch ends the poll.
RecoverStuckFails(r) ==
  /\ pc[r] = "idle" /\ Fault
  /\ \E S \in {{}, Expired} : status' = SetStatus(S, "pending")
  /\ UNCHANGED <<created, now, pc, claimed, copies, claimedAt>>

\* claimPending throws, its transaction committed or not: the outer catch ends the
\* poll and forgets the rows.
ClaimPendingFails(r) ==
  /\ pc[r] \in {"claim", "commit"} /\ Fault
  /\ \E S \in {{}, claimed[r]} : TakeRows(S)
  /\ PollEnds(r)
  /\ UNCHANGED <<created, now, copies>>

\* The publish throws after handing over some of the rows (topic by topic).
PublishFails(r) ==
  /\ pc[r] = "publish" /\ Fault
  /\ \E S \in SUBSET claimed[r] : copies' = Handed(S)
  /\ Goto(r, "markFailed")
  /\ UNCHANGED <<status, created, now, claimed, claimedAt>>

\* markSent throws inside the inner try: its catch reverts the batch.
MarkSentFails(r) ==
  /\ pc[r] = "markSent" /\ Fault
  /\ \E S \in {{}, claimed[r]} : Unlocked(S) /\ status' = SetStatus(S, "sent")
  /\ Goto(r, "markFailed")
  /\ UNCHANGED <<created, now, claimed, copies, claimedAt>>

\* markFailed throws inside the catch: the outer catch ends the poll.
MarkFailedFails(r) ==
  /\ pc[r] = "markFailed" /\ Fault
  /\ \E S \in {{}, claimed[r]} : Unlocked(S) /\ status' = SetStatus(S, "pending")
  /\ PollEnds(r)
  /\ UNCHANGED <<created, now, copies, claimedAt>>

\* The process dies and is restarted; the poll's memory is gone, the table stays.
Crash(r) ==
  /\ pc[r] # "idle" /\ Fault
  /\ PollEnds(r)
  /\ UNCHANGED <<status, created, now, copies, claimedAt>>

-----------------------------------------------------------------------------
Poll(r) ==
  \/ RecoverStuck(r)
  \/ ClaimNothing(r)
  \/ SelectPending(r)
  \/ CommitClaim(r)
  \/ Publish(r)
  \/ MarkSent(r)
  \/ MarkFailed(r)

Failure(r) ==
  \/ RecoverStuckFails(r)
  \/ ClaimPendingFails(r)
  \/ PublishFails(r)
  \/ MarkSentFails(r)
  \/ MarkFailedFails(r)
  \/ Crash(r)

Next ==
  \/ \E S \in SUBSET Events : Save(S)
  \/ Tick
  \/ \E r \in Relays : Poll(r) \/ Failure(r)

Spec == Init /\ [][Next]_vars

(***************************************************************************)
(* Fairness: the relay's setTimeout chain always schedules the next poll   *)
(* and every awaited call settles, so each relay keeps polling; time       *)
(* passes.  Nothing is assumed of callers or of failures.                  *)
(***************************************************************************)
FairSpec == Spec /\ WF_vars(Tick) /\ \A r \in Relays : WF_vars(Poll(r))

-----------------------------------------------------------------------------
TypeOK ==
  /\ status    \in [Events -> Status]
  /\ created   \in [Events -> Nat]
  /\ now       \in Nat
  /\ pc        \in [Relays -> Step]
  /\ claimed   \in [Relays -> SUBSET Events]
  /\ copies    \in [Events -> 0..CopyCap]
  /\ claimedAt \in [Events -> Nat]
  /\ faults    \in 0..MaxFaults

-----------------------------------------------------------------------------
(* Properties.                                                             *)

\* The row has outlived the lock expiry, whoever holds it.
Old(e) == created[e] + Expiry < now

\* A row is 'sent' only if some relay handed it to the bus first: no order of
\* claims, recoveries, reverts and crashes of several relays marks an event
\* as sent that was never published.
SentWasPublished ==
  \A e \in Events : status[e] = "sent" => copies[e] >= 1

\* Two relays work on the same row only after it has outlived the lock expiry:
\* until then the claim is exclusive, through every failure of either relay.
SharedClaimIsOld ==
  \A r1, r2 \in Relays : \A e \in claimed[r1] \cap claimed[r2] :
    r1 # r2 => Old(e)

\* As long as no call fails, a row younger than the lock expiry reaches the bus
\* at most once, however many relays poll.
OneCopyWhileYoung ==
  \A e \in Events : copies[e] > 1 => Old(e) \/ faults > 0

\* The promise to callers: at-least-once hand-over of what was committed.
Promise == INSTANCE AtLeastOnce WITH
  accepted   <- Rows,
  delivered  <- {e \in Events : copies[e] > 0},
  writtenOff <- {e \in Events : status[e] = "sent"}

\* The outbox implements that promise, its liveness included: a claim lost in a crash, a failed
\* markFailed or a claim whose answer was lost is taken up again, the relays do not keep undoing
\* each other's work, and every saved row is handed over and then sent for good.
DeliversAtLeastOnce == Promise!LiveSpec
=============================================================================
