----------------------------- MODULE ReadView ------------------------------
(***************************************************************************)
(* What the read model of a trace promises its readers: a view of the raw  *)
(* event log that shows an event only when everything the event needs is   *)
(* in the log too, that never takes back what it has shown, and that in    *)
(* the end shows every event whose needs are met.                          *)
(***************************************************************************)
CONSTANTS
  Event,
  Needs   \* event -> the events without which it cannot be shown

VARIABLES log, view
viewVars == <<log, view>>

Due == {e \in log : Needs[e] \subseteq log}

Init == log = {} /\ view = {}

Append == /\ \E e \in Event \ log : log' = log \cup {e}
          /\ UNCHANGED view

Advance == /\ \E S \in SUBSET (Due \ view) : view' = view \cup S
           /\ UNCHANGED log

Next == Append \/ Advance
Spec == Init /\ [][Next]_viewVars

\* Every event whose needs are met is shown in the end.  The events of a trace are finitely
\* many, and neither the log nor the view takes one back, so the last is shown for good.
AllShown == <>[](Due \subseteq view)
LiveSpec == Spec /\ AllShown
=============================================================================
