---------------------------- MODULE MCReadModel -----------------------------
(* Traces of up to three nodes, and the projection of every page.           *)
EXTENDS FlowProjection, TLC

MCNone == 0
MCFrom == 12 :> 1 @@ 23 :> 2 @@ 31 :> 3 @@ 32 :> 3
MCTo   == 12 :> 2 @@ 23 :> 3 @@ 31 :> 1 @@ 32 :> 2

Times(a, b, c) == 1 :> a @@ 2 :> b @@ 3 :> c
Made(t) == [e \in {12, 23, 31, 32} |-> t]

\* Node 2 has two causes, whose clocks are ahead of its own; when they arrive, the one that
\* started later first, its events are older than the lookback.
LateCauses == [batches |-> <<{2}, {1, 12}, {3, 32}>>,
               start |-> Times(5, 1, 4), end |-> Times(6, 2, 6), made |-> Made(5)]

\* All within the lookback; a node that starts first arrives last, older than the newest.
LateNode == [batches |-> <<{2, 3}, {1}>>,
             start |-> Times(1, 2, 2), end |-> Times(2, 3, 3), made |-> Made(2)]

\* A chain whose clocks run backwards, closed to a cycle by the last batch.
Cycle == [batches |-> <<{1, 2, 3, 12, 23}, {31}>>,
          start |-> Times(3, 2, 1), end |-> Times(3, 3, 4), made |-> Made(3)]

MCTraces == {LateCauses, LateNode, Cycle}

\* 2 belongs to the group of 1, 3 to that of 2; 1 and 3 are of layer 7, between them 2 of 8.
MCImportance  == Times(1, 2, 2)
MCGroupParent == Times(MCNone, 1, 2)
MCLayerOf     == Times(7, 8, 7)

\* Any groups collapsed; or one of the layers, with group 2 or without.
MCViews == {v \in [threshold : 0 .. 1, groups : SUBSET {1, 2}, layers : {{}, {7}, {8}}] :
            v.layers = {} \/ v.groups \subseteq {2}}
=============================================================================
