------------------------------ MODULE EventSink ------------------------------
(***************************************************************************)
(* What an application can count on from an SDK: an event it records is    *)
(* held until it is settled - answered by the backend, or dropped with a   *)
(* report - and nothing is settled that was not recorded.  Events are lost *)
(* without a word only once the sink is closed: by the SDK's shutdown, or  *)
(* by the end of the process.                                              *)
(***************************************************************************)
CONSTANT Event

VARIABLES
  recorded, settled, lost, closed,
  driven   \* something - the interval, the end of the process - will make it send what it holds

vars == <<recorded, settled, lost, closed>>

Held == recorded \ (settled \cup lost)

Init == recorded = {} /\ settled = {} /\ lost = {} /\ closed = FALSE

Record ==
  /\ recorded \subseteq recorded' /\ recorded' \subseteq Event
  /\ UNCHANGED <<settled, lost, closed>>

Settle ==
  /\ settled \subseteq settled' /\ settled' \subseteq settled \cup Held
  /\ UNCHANGED <<recorded, lost, closed>>

\* A step of a closed sink, or the one that closes it, may settle some events and lose others.
Close ==
  /\ closed' = TRUE
  /\ settled \subseteq settled' /\ lost \subseteq lost'
  /\ (settled' \ settled) \cup (lost' \ lost) \subseteq Held
  /\ (settled' \ settled) \cap (lost' \ lost) = {}
  /\ UNCHANGED recorded

Next == Record \/ Settle \/ Close

Spec == Init /\ [][Next]_vars

\* A sink that stays driven empties itself again and again.
LiveSpec == Spec /\ []<>(Held = {} \/ ~driven)
=============================================================================
