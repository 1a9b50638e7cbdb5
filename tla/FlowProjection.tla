--------------------------- MODULE FlowProjection ---------------------------
(***************************************************************************)
(* LogFlowProjector.project: the nodes of one page, in flow order, become  *)
(* normal nodes, ghosts (runs of consecutive nodes above the importance    *)
(* threshold), collapsed groups and collapsed layers; the edges are        *)
(* snapped to what their ends became.  It is given the page of a walk and  *)
(* the edges that are read for it.  Types, times and labels of the         *)
(* placeholders are left out.                                              *)
(***************************************************************************)
EXTENDS ReadModel

CONSTANTS
  Importance,     \* node -> importanceLevel
  GroupParent,    \* node -> groupParentId, or None
  LayerOf,        \* node -> layer key, or None
  None,
  Views           \* [threshold, groups, layers]: what a client may ask to see

\* A page is a sequence of rows [id, order].

\* The k-th group ancestor of n, as far as its chain is on the page.
Ancestor(n, page) ==
  LET up[k \in 0 .. Len(page)] ==
        IF k = 0 THEN n
        ELSE LET child == up[k - 1]
             IN  IF child /= None /\ GroupParent[child] \in PageNodes(page) THEN GroupParent[child]
                 ELSE None
  IN  up

\* findCollapsedGroupId: the nearest collapsed ancestor, the node itself included.
CollapsedGroup(n, view, page) ==
  LET up == Ancestor(n, page)
      at == {k \in DOMAIN up : up[k] \in view.groups}
  IN  IF at = {} THEN None ELSE up[CHOOSE k \in at : \A j \in at : k <= j]

\* The id a node gets unless it goes into a ghost.
Target(n, view, page) ==
  LET group == CollapsedGroup(n, view, page)
  IN  IF LayerOf[n] \in view.layers THEN <<"layer", LayerOf[n]>>
      ELSE IF group /= None THEN <<"group", group>>
      ELSE <<"normal", n>>

IsHidden(n, view, page) ==
  Target(n, view, page)[1] = "normal" /\ Importance[n] > view.threshold

\* finalizeHiddenRun: the run of hidden rows becomes a ghost, named by its flow orders.
FinalizeHiddenRun(acc) ==
  IF acc.run = <<>> THEN acc
  ELSE [placed |-> Append(acc.placed,
          [id      |-> <<"ghost", Head(acc.run).order, Last(acc.run).order>>,
           members |-> PageNodes(acc.run)]),
        run |-> <<>>]

\* A collapsed node joins its placeholder, which stands where its first node was.
AddNodeToCollapsed(p, n) == [p EXCEPT !.members = @ \cup {n}]

Put(acc, id, n) ==
  LET at == {i \in DOMAIN acc.placed : acc.placed[i].id = id}
  IN  IF at = {} THEN [acc EXCEPT !.placed = Append(@, [id |-> id, members |-> {n}])]
      ELSE [acc EXCEPT !.placed = [i \in DOMAIN @ |->
              IF i \in at THEN AddNodeToCollapsed(@[i], n) ELSE @[i]]]

\* Mutant: a collapsed group or layer does not end the run of hidden nodes before it.
Place_KeepsRun(acc, row, view, page) ==
  IF IsHidden(row.id, view, page) THEN [acc EXCEPT !.run = Append(@, row)]
  ELSE IF Target(row.id, view, page)[1] = "normal"
       THEN Put(FinalizeHiddenRun(acc), Target(row.id, view, page), row.id)
       ELSE Put(acc, Target(row.id, view, page), row.id)

Place(acc, row, view, page) ==
  IF IsHidden(row.id, view, page) THEN [acc EXCEPT !.run = Append(@, row)]
  ELSE Put(FinalizeHiddenRun(acc), Target(row.id, view, page), row.id)

\* The loop over the rows: what is placed, and the run that is open, after the first k.
Scan(view, page) ==
  LET acc[k \in 0 .. Len(page)] ==
        IF k = 0 THEN [placed |-> <<>>, run |-> <<>>]
        ELSE Place(acc[k - 1], page[k], view, page)
  IN  acc

\* The projected nodes, in the order they are returned.
Projected(view, page) == FinalizeHiddenRun(Scan(view, page)[Len(page)]).placed

\* nodeProjectionById
ProjectionOf(placed, n) == (CHOOSE p \in Range(placed) : n \in p.members).id

\* The edges of a page that became something else than a projected edge: those with an end
\* that is not loaded (omittedEdgeCount), those inside one placeholder (its hiddenEdgeCount).
Omitted(es, page) == {e \in es : ~({From[e], To[e]} \subseteq PageNodes(page))}

Inside(es, placed, page, p) ==
  {e \in es \ Omitted(es, page) : /\ ProjectionOf(placed, From[e]) = p.id
                                  /\ ProjectionOf(placed, To[e]) = p.id
                                  /\ p.id[1] /= "normal"}

\* The projected edges, each with the edges its edgeCount counts.
Aggregated(es, placed, page) ==
  LET ends == [e \in es \ Omitted(es, page) |->
                 <<ProjectionOf(placed, From[e]), ProjectionOf(placed, To[e])>>]
      kept == {e \in DOMAIN ends : ends[e][1] /= ends[e][2]}
  IN  {{f \in kept : ends[f] = ends[e]} : e \in kept}

\* The counts that are returned with the page.
Metadata(placed, page, es) ==
  LET count(kind) == Cardinality({k \in DOMAIN placed : placed[k].id[1] = kind})
  IN  [returnedNodes |-> Len(placed), returnedEdges |-> Cardinality(Aggregated(es, placed, page)),
       visible |-> count("normal"), ghosts |-> count("ghost"),
       groups |-> count("group"), layers |-> count("layer"),
       omittedEdges |-> Cardinality(Omitted(es, page))]

-----------------------------------------------------------------------------
(* What a reader may conclude from a projection.                           *)

Total(S) == Cardinality(UNION S)

\* Every node of the page is in one placeholder; a ghost is a longest run: two hidden nodes
\* share one exactly if all nodes between them are hidden too; and each placeholder has a name
\* of its own, unless rows of two saves share a flow order: then two ghosts may have one name.
NodesAccounted(placed, hidden, page) ==
  LET in == [i \in DOMAIN page |-> {k \in DOMAIN placed : page[i].id \in placed[k].members}]
      OneSave == \A i, j \in DOMAIN page : page[i].order = page[j].order => i = j
  IN  /\ OneSave => \A k, l \in DOMAIN placed : placed[k].id = placed[l].id => k = l
      /\ \A i \in DOMAIN page : Cardinality(in[i]) = 1
      /\ \A i, j \in hidden : i < j => (in[i] = in[j] <=> i .. j \subseteq hidden)

\* Every edge of the page is in one projected edge, hidden in one placeholder, or omitted;
\* only an edge from a visible node to itself is not told of.
EdgesAccounted(placed, page, es, m) ==
  LET kept   == Aggregated(es, placed, page)
      inside == {Inside(es, placed, page, p) : p \in Range(placed)}
      loops  == {e \in es : From[e] = To[e] /\ \E p \in Range(placed) : p.id = <<"normal", From[e]>>}
  IN  Total(kept) + Total(inside) + m.omittedEdges + Cardinality(loops)
        = Cardinality(es)

\* The counts tell of every node returned, and no less than what they stand for: the nodes of the
\* page that are not visible are in the ghosts, groups and layers counted.
CountsAgree(placed, page, es, m) ==
  LET inPlaceholders == UNION {placed[k].members : k \in {j \in DOMAIN placed : placed[j].id[1] /= "normal"}}
  IN  /\ m.visible + m.ghosts + m.groups + m.layers = m.returnedNodes
      /\ m.visible + Cardinality(inPlaceholders) = Cardinality(PageNodes(page))
      /\ m.returnedEdges + m.omittedEdges <= Cardinality(es)

Accounted(view, page, es) ==
  LET placed == Projected(view, page)
      m == Metadata(placed, page, es)
      hidden == {i \in DOMAIN page : IsHidden(page[i].id, view, page)}
  IN  /\ NodesAccounted(placed, hidden, page)
      /\ EdgesAccounted(placed, page, es, m) /\ CountsAgree(placed, page, es, m)

\* Whatever the view, a page tells of each of its nodes and edges once, though its rows may
\* come from two saves (LogFlowProjector.project).
ProjectionConserves ==
  walk.step = "edges" =>
    \A view \in Views : Accounted(view, walk.page, Touching(PageNodes(walk.page)))
=============================================================================
