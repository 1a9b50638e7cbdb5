---------------------------- MODULE AtLeastOnce ----------------------------
(***************************************************************************)
(* What an outbox promises its callers, and no more: whatever was accepted *)
(* is handed to the event bus at least once, and only what was handed over *)
(* is written off.  An event may be handed over again at any time, so      *)
(* consumers have to deduplicate.                                          *)
(***************************************************************************)
CONSTANT Events

VARIABLES
  accepted,    \* events whose transaction committed
  delivered,   \* events handed to the bus at least once
  writtenOff   \* events nobody will hand over again unless they are reopened

abstractVars == <<accepted, delivered, writtenOff>>

Init ==
  /\ accepted = {}
  /\ delivered = {}
  /\ writtenOff = {}

Accept(S) ==
  /\ accepted' = accepted \cup S
  /\ UNCHANGED <<delivered, writtenOff>>

Deliver(S) ==
  /\ S \subseteq accepted
  /\ delivered' = delivered \cup S
  /\ UNCHANGED <<accepted, writtenOff>>

\* Writing events off, or reopening some after a failure.
Settle(S) ==
  /\ S \subseteq delivered
  /\ writtenOff' = S
  /\ UNCHANGED <<accepted, delivered>>

Next ==
  \E S \in SUBSET Events : Accept(S) \/ Deliver(S) \/ Settle(S)

Spec == Init /\ [][Next]_abstractVars

\* Every accepted event is handed over and, in the end, written off for good.
LiveSpec == Spec /\ \A e \in Events : e \in accepted ~> [](e \in writtenOff)
=============================================================================
