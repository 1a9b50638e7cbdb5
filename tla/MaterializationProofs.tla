------------------------ MODULE MaterializationProofs ------------------------
(***************************************************************************)
(* Theorems about Materialization, for any trace, lookback and number of   *)
(* requests and failures.  The types, and that the read model shows only   *)
(* what can be folded, hold for any number of workers.  That nothing is    *)
(* skipped, that the read model catches up and that it never takes back    *)
(* what it showed are theorems for one worker: with two, the slower one    *)
(* overwrites what the other saved.                                        *)
(***************************************************************************)
EXTENDS Materialization, FiniteSetTheorems, WellFoundedInduction, TLAPS

-----------------------------------------------------------------------------
(* The inductive invariant for any number of workers.                      *)

Busy == {v \in Workers : job[v].step # "idle"}

\* newest is the time of the newest event, an idle worker holds nothing, and every running
\* rebuild has a trigger of its own.
BaseInv ==
  /\ TypeOK
  /\ \A e \in raw : at[e] <= newest
  /\ \A w \in Workers : job[w].step = "idle" => job[w] = Idle
  /\ requests >= Cardinality(Busy)

\* A row of m has events of its own entity, the start among them, and a version.
Sound(m) ==
  \A x \in Entities :
    \/ m[x] = NoRow
    \/ /\ Start(x) \in m[x].folded /\ m[x].folded \subseteq {Start(x), End(x)}
       /\ m[x].ver > 0

NoOrphans(m) ==
  \A x \in Edges : m[x].folded # {} => m[From[x]].folded # {} /\ m[To[x]].folded # {}

\* No map has an edge without its nodes: neither what a rebuild folded, nor what it has saved so
\* far, for it saves the nodes first.
RowsInv ==
  /\ Sound(rows) /\ NoOrphans(rows)
  /\ \A w \in Workers :
       /\ Sound(job[w].base) /\ Sound(job[w].model) /\ NoOrphans(job[w].model)
       /\ job[w].step = "rows" =>
            /\ \A x \in Entities \cap job[w].todo : job[w].model[x].folded # {}
            /\ \A n \in Nodes \ job[w].todo : job[w].model[n].folded # {} => rows[n].folded # {}

-----------------------------------------------------------------------------
(* The inductive invariant for one worker, w.                              *)

TableOf(e) == IF e[1] \in Nodes THEN "node" ELSE "edge"
Missing == Due \ Shown

\* The query of the raw events of table k is behind w, the fold is not.
Asked(w, k) == \/ job[w].step = "raw" /\ k \notin job[w].todo
               \/ job[w].step = "fold"

\* e is no further back than the rebuild after this one will look.
InReach(w, e) == at[e] >= NextTime(w, TableOf(e)) - Lookback

\* What w has loaded of the checkpoint, the read model and the raw events is current.
LoadedInv(w) ==
  /\ job[w].step # "idle" => job[w].cp = LoadCheckpoint
  /\ job[w].step \in {"model", "raw"} => job[w].todo \subseteq Tables
  /\ \A x \in Entities :
       \/ job[w].step = "model" /\ TableOf(<<x, 0>>) \notin job[w].todo
       \/ job[w].step \in {"raw", "fold"}
       => job[w].base[x] = rows[x]
  /\ \A e \in job[w].batch : at[e] >= job[w].cp[TableOf(e)] - Lookback

\* An event that can be folded and is not shown is in the batch, or the next rebuild looks at it
\* again: it or what it waited for came after the query, and so in time.  An edge may have been
\* loaded after the start of one of its nodes was missed: the node query ran before the edge query.
BatchInv(w) ==
  /\ \A e \in Missing :
       Asked(w, TableOf(e)) =>
         \/ e \in job[w].batch /\ \A f \in Needs[e] :
              Asked(w, TableOf(f)) => f \in Shown \cup job[w].batch
         \/ InReach(w, e)
  /\ job[w].step = "raw" /\ job[w].todo = {"edge"} =>
       /\ newest <= job[w].mark + Drift
       /\ \A e \in Missing : \A f \in Needs[e] :
            TableOf(e) = "edge" /\ TableOf(f) = "node" =>
              f \in Shown \cup job[w].batch \/ at[e] >= job[w].mark - Lateness

\* Once all writes are announced and no trigger but this rebuild's is left, nothing has been
\* written since its queries.
FreshInv(w) ==
  requests = 1 /\ unannounced = {} =>
    \A k \in Tables : Asked(w, k) => After(k, job[w].cp) \subseteq job[w].batch

\* While w saves: what is still to be saved adds to the rows, the rest of the rows is as folded.
\* An event that can be folded is shown, or about to be, or the next rebuild looks at it again.
SaveInv(w) ==
  /\ job[w].step = "rows" =>
       /\ job[w].batch # {}
       /\ summary.ver < job[w].ver
       /\ \A x \in Entities \cap job[w].todo :
            /\ rows[x].folded \subseteq job[w].model[x].folded
            /\ job[w].model[x] = rows[x] \/ rows[x].ver < job[w].model[x].ver
  /\ job[w].step = "checkpoint" => job[w].todo = {}
  /\ job[w].step \in {"rows", "checkpoint"} =>
       /\ checkpoint.ver < job[w].ver
       /\ \A x \in Entities \ job[w].todo : rows[x].folded = job[w].model[x].folded
       /\ \A e \in Missing :
            \/ e[1] \in job[w].todo /\ e \in job[w].model[e[1]].folded
            \/ InReach(w, e) /\ (requests > 1 \/ unannounced # {})

\* The summary counts the rows, but after a rebuild that failed between the two: then there are
\* events for the next rebuild to load, and it will not return before it has saved both.
Counted == /\ summary.nodes = Cardinality(Present(rows, Nodes))
           /\ summary.edges = Cardinality(Present(rows, Edges))
CountInv(w) ==
  /\ job[w].step = "checkpoint" \/ requests = 0 => Counted
  /\ ~Counted =>
       /\ \E k \in Tables : After(k, LoadCheckpoint) # {}
       /\ job[w].step = "raw" =>
            job[w].batch # {} \/ \E k \in job[w].todo : After(k, LoadCheckpoint) # {}
       /\ job[w].step = "fold" => job[w].batch # {}

\* Without writes to announce and triggers to answer, everything is shown.
RestInv == unannounced = {} /\ requests = 0 => Missing = {}

OneInv(w) == /\ LoadedInv(w) /\ BatchInv(w) /\ FreshInv(w) /\ SaveInv(w) /\ CountInv(w)
             /\ NothingSkipped /\ RestInv

-----------------------------------------------------------------------------
(* The largest of some times.                                              *)

\* A set of numbers with a bound has a largest one.  Among the sets Above(x) there is a smallest;
\* were it not empty, that of any of its members would be smaller still.
LEMMA MaxOf ==
  ASSUME NEW S \in SUBSET Nat, NEW b \in Nat, S # {}, \A x \in S : x <= b
  PROVE  Max(S) \in S /\ \A y \in S : Max(S) >= y
<1> DEFINE Above(x) == {y \in S : y > x}
           T == {Above(x) : x \in S}
<1>1. IsFiniteSet(S)
  BY FS_BoundedSetOfNaturals
<1>2. T \subseteq FiniteSubsetsOf(S) /\ T # {}
  <2>1. FiniteSubsetsOf(S) = SUBSET S
    BY <1>1, FS_FiniteSubsetsOfFinite
  <2>2. T \subseteq SUBSET S /\ T # {}
    OBVIOUS
  <2> QED BY <2>1, <2>2
<1>3. PICK A \in T : \A B \in T : ~ (<<B, A>> \in StrictSubsetOrdering(S))
  <2>1. IsWellFoundedOn(StrictSubsetOrdering(S), FiniteSubsetsOf(S))
    BY FS_StrictSubsetOrderingWellFounded
  <2> HIDE DEF T
  <2> QED BY <1>2, <2>1, WFMin
<1>4. PICK x \in S : A = Above(x)
  BY <1>3
<1>5. \A y \in S : x >= y
  <2> SUFFICES ASSUME NEW y \in S, y > x PROVE FALSE
    OBVIOUS
  <2>1. y \in A /\ y \notin Above(y)
    BY <1>4
  <2>2. Above(y) \subseteq A
    <3> SUFFICES ASSUME NEW z \in Above(y) PROVE z \in Above(x)
      BY <1>4
    <3> QED OBVIOUS
  <2>3. A \in SUBSET S /\ Above(y) \in SUBSET S /\ Above(y) \in T
    BY <1>4
  <2>4. <<Above(y), A>> \in StrictSubsetOrdering(S)
    <3> HIDE DEF Above
    <3> QED BY <2>1, <2>2, <2>3 DEF StrictSubsetOrdering
  <2> QED BY <1>3, <2>3, <2>4
<1> QED BY <1>5 DEF Max

LEMMA MaxOfTwo ==
  ASSUME NEW x \in Int, NEW y \in Int
  PROVE  /\ Max({x, y}) \in {x, y}
         /\ Max({x, y}) >= x /\ Max({x, y}) >= y
<1> DEFINE m == IF x >= y THEN x ELSE y
<1>1. m \in {x, y} /\ \A z \in {x, y} : m >= z
  OBVIOUS
<1> QED BY <1>1 DEF Max

-----------------------------------------------------------------------------
(* Types.                                                                  *)

Maps == [Entities -> Row]
Steps == {"idle", "model", "raw", "fold", "rows", "checkpoint"}
StatesOf(maps, times, events, versions) ==
  [step : Steps, todo : SUBSET (Tables \cup Entities),
   cp : [node : times, edge : times], base : maps, batch : SUBSET events,
   model : maps, ver : versions, mark : times]
States == StatesOf(Maps, Times, raw, 0 .. clock)

\* Types only grow.
LEMMA Grow ==
  ASSUME at' = at, raw \subseteq raw', clock \in Nat, clock' \in Nat, clock <= clock'
  PROVE  Row \subseteq Row' /\ Times \subseteq Times' /\ Maps \subseteq Maps' /\ States \subseteq States'
<1>1. 0 .. clock \subseteq 0 .. clock'
  OBVIOUS
<1>2. Row \subseteq Row'
  BY <1>1 DEF Row
<1>3. Times \subseteq Times'
  BY DEF Times
<1>4. Maps \subseteq Maps'
  BY <1>2 DEF Maps
<1>5. SUBSET raw \subseteq SUBSET (raw')
  OBVIOUS
<1>6. States \subseteq States'
  <2> SUFFICES ASSUME NEW s \in States PROVE s \in States'
    OBVIOUS
  <2>1. /\ s.step \in Steps /\ s.todo \in SUBSET (Tables \cup Entities)
        /\ s.cp \in [node : Times, edge : Times] /\ s.base \in Maps /\ s.batch \in SUBSET raw
        /\ s.model \in Maps /\ s.ver \in 0 .. clock /\ s.mark \in Times
        /\ s = [step |-> s.step, todo |-> s.todo, cp |-> s.cp, base |-> s.base,
                batch |-> s.batch, model |-> s.model, ver |-> s.ver, mark |-> s.mark]
    BY Zenon DEF States, StatesOf
  <2>2. [node : Times, edge : Times] \subseteq [node : Times, edge : Times]'
    BY <1>3
  <2> HIDE DEF Steps
  <2> QED BY <2>1, <2>2, <1>1, <1>3, <1>4, <1>5 DEF States, StatesOf
<1> QED BY <1>2, <1>3, <1>4, <1>6

LEMMA StateFields ==
  ASSUME NEW M, NEW T, NEW E, NEW V, NEW s \in StatesOf(M, T, E, V)
  PROVE  /\ s.step \in Steps /\ s.todo \subseteq Tables \cup Entities
         /\ s.cp \in [node : T, edge : T] /\ s.base \in M /\ s.batch \subseteq E
         /\ s.model \in M /\ s.ver \in V /\ s.mark \in T
<1> HIDE DEF Steps
<1> QED BY DEF StatesOf

\* The state in which w goes on, and that the other workers stay in theirs.
LEMMA Proceeds ==
  ASSUME NEW M, NEW T, NEW E, NEW V, NEW s \in StatesOf(M, T, E, V),
         job \in [Workers -> StatesOf(M, T, E, V)],
         NEW w \in Workers, NEW step \in Steps, NEW left \in SUBSET (Tables \cup Entities),
         Proceed(w, s, step, left)
  PROVE  /\ job' \in [Workers -> StatesOf(M, T, E, V)]
         /\ job'[w].step = step /\ job'[w].todo = left
         /\ job'[w].cp = s.cp /\ job'[w].base = s.base /\ job'[w].batch = s.batch
         /\ job'[w].model = s.model /\ job'[w].ver = s.ver /\ job'[w].mark = s.mark
         /\ \A v \in Workers \ {w} : job'[v] = job[v]
<1> HIDE DEF Steps
<1> DEFINE r == [s EXCEPT !.step = step, !.todo = left]
<1>1. job' = [job EXCEPT ![w] = r]
  BY DEF Proceed
<1>2. /\ r \in StatesOf(M, T, E, V)
      /\ r.step = step /\ r.todo = left
      /\ r.cp = s.cp /\ r.base = s.base /\ r.batch = s.batch
      /\ r.model = s.model /\ r.ver = s.ver /\ r.mark = s.mark
  BY DEF StatesOf
<1>3. job' \in [Workers -> StatesOf(M, T, E, V)] /\ job'[w] = r /\ \A v \in Workers \ {w} : job'[v] = job[v]
  <2> HIDE DEF r
  <2> QED BY <1>1, <1>2
<1> QED BY <1>2, <1>3

\* A query leaves w in its step, or is the last and leads to the next one.
LEMMA QueryProceeds ==
  ASSUME NEW M, NEW T, NEW E, NEW V, NEW s \in StatesOf(M, T, E, V),
         job \in [Workers -> StatesOf(M, T, E, V)],
         NEW w \in Workers, NEW k \in Tables, NEW next \in Steps,
         NEW left \in SUBSET (Tables \cup Entities),
         Queried(w, s, k, next, left)
  PROVE  /\ job' \in [Workers -> StatesOf(M, T, E, V)]
         /\ IF s.todo = {k} THEN job'[w].step = next /\ job'[w].todo = left
            ELSE job'[w].step = s.step /\ job'[w].todo = s.todo \ {k}
         /\ job'[w].cp = s.cp /\ job'[w].base = s.base /\ job'[w].batch = s.batch
         /\ job'[w].model = s.model /\ job'[w].ver = s.ver /\ job'[w].mark = s.mark
         /\ \A v \in Workers \ {w} : job'[v] = job[v]
<1> HIDE DEF Steps
<1>1. s.step \in Steps /\ s.todo \ {k} \in SUBSET (Tables \cup Entities)
  BY StateFields
<1>2. CASE s.todo = {k}
  <2>1. Proceed(w, s, next, left)
    BY <1>2 DEF Queried
  <2> QED BY <1>2, <2>1, Proceeds
<1>3. CASE s.todo # {k}
  <2>1. Proceed(w, s, s.step, s.todo \ {k})
    BY <1>3 DEF Queried
  <2> QED BY <1>1, <1>3, <2>1, Proceeds
<1> QED BY <1>2, <1>3

-----------------------------------------------------------------------------
(* BaseInv. *)

\* TypeOK, with names for the types of maps and rebuilds.
NamedTypes ==
  /\ at \in Schedules
  /\ raw \subseteq DOMAIN at /\ unannounced \subseteq raw
  /\ newest \in Times
  /\ requests \in 0 .. MaxRequests /\ faults \in 0 .. MaxFaults
  /\ clock \in Nat
  /\ rows \in Maps
  /\ summary \in [ver : 0 .. clock, nodes : 0 .. Cardinality(Nodes),
                                    edges : 0 .. Cardinality(Edges)]
  /\ checkpoint \in [ver : 0 .. clock, node : Times, edge : Times]
  /\ job \in [Workers -> States]

LEMMA TypeNames == (TypeOK <=> NamedTypes) /\ (TypeOK' <=> NamedTypes')
BY DEF TypeOK, NamedTypes, Maps, States, StatesOf, Steps

\* The times of the trace's events are numbers, those in the raw tables up to newest.
LEMMA Numbers ==
  ASSUME BaseInv
  PROVE  /\ at \in [DOMAIN at -> Nat] /\ DOMAIN at \subseteq RawEvents
         /\ \A e \in raw : e \in RawEvents /\ at[e] \in Nat
         /\ newest \in Nat /\ 0 \in Times
         /\ \A t \in Times : t \in Nat /\ t <= newest
<1>1. at \in [DOMAIN at -> Nat] /\ DOMAIN at \subseteq RawEvents /\ raw \subseteq DOMAIN at
  BY MaterializationAssumption DEF BaseInv, TypeOK
<1>2. newest \in Times /\ \A e \in raw : at[e] <= newest
  BY DEF BaseInv, TypeOK
<1> QED BY <1>1, <1>2 DEF Times

LEMMA IdleType ==
  ASSUME clock \in Nat
  PROVE  Idle \in States /\ Idle.step = "idle" /\ Empty \in Maps
<1>1. 0 \in Times /\ NoRow \in Row
  BY DEF Times, NoRow, Row
<1>2. Empty \in Maps
  BY <1>1 DEF Empty, Maps
<1> HIDE DEF Empty, Maps
<1> QED BY <1>1, <1>2 DEF Idle, States, StatesOf, Steps

LEMMA EntityTables ==
  /\ Entities = Nodes \cup Edges /\ Nodes \cap Edges = {}
  /\ Tables = {"node", "edge"} /\ Of("node") = Nodes /\ Of("edge") = Edges
  /\ \A k \in Tables : Of(k) \subseteq Entities
BY MaterializationAssumption DEF Entities, Tables, Of

LEMMA BusyFinite == IsFiniteSet(Busy) /\ Cardinality(Busy) \in Nat /\ IsFiniteSet(Busy') /\ Cardinality(Busy') \in Nat
<1>1. IsFiniteSet(Workers) /\ Busy \in SUBSET Workers /\ Busy' \in SUBSET Workers
  BY MaterializationAssumption DEF Busy
<1> QED BY <1>1, FS_Subset, FS_CardinalityType

\* How the number of running rebuilds changes when w's does.
LEMMA BusyChange ==
  ASSUME NEW w \in Workers, \A v \in Workers \ {w} : job'[v] = job[v]
  PROVE  /\ job[w].step # "idle" /\ job'[w].step # "idle" => Busy' = Busy
         /\ job[w].step = "idle" /\ job'[w].step # "idle" => Cardinality(Busy') = Cardinality(Busy) + 1
         /\ job[w].step # "idle" /\ job'[w].step = "idle" =>
              Cardinality(Busy') = Cardinality(Busy) - 1 /\ Cardinality(Busy) >= 1
<1>1. IsFiniteSet(Busy) /\ Cardinality(Busy') \in Nat
  BY BusyFinite
<1>2. ASSUME job[w].step # "idle", job'[w].step # "idle" PROVE Busy' = Busy
  BY <1>2 DEF Busy
<1>3. ASSUME job[w].step = "idle", job'[w].step # "idle" PROVE Cardinality(Busy') = Cardinality(Busy) + 1
  <2>1. Busy' = Busy \cup {w} /\ w \notin Busy
    BY <1>3 DEF Busy
  <2> QED BY <1>1, <2>1, FS_AddElement
<1>4. ASSUME job[w].step # "idle", job'[w].step = "idle"
      PROVE  Cardinality(Busy') = Cardinality(Busy) - 1 /\ Cardinality(Busy) >= 1
  <2>1. Busy' = Busy \ {w} /\ w \in Busy
    BY <1>4 DEF Busy
  <2>2. Cardinality(Busy) \in Nat /\ Cardinality(Busy) # 0
    BY <1>1, <2>1, FS_CardinalityType, FS_EmptySet
  <2>3. Cardinality(Busy \ {w}) = Cardinality(Busy) - 1
    BY <1>1, <2>1, FS_RemoveElement
  <2> QED BY <2>1, <2>2, <2>3
<1> QED BY <1>2, <1>3, <1>4

LEMMA InitBaseInv == Init => BaseInv
<1> SUFFICES ASSUME Init PROVE BaseInv
  OBVIOUS
<1>1. TypeOK
  <2>1. clock = 0 /\ 0 \in Times /\ MaxRequests \in Nat /\ MaxFaults \in Nat
    BY MaterializationAssumption DEF Init, Times
  <2>2. Cardinality(Nodes) \in Nat /\ Cardinality(Edges) \in Nat
    BY MaterializationAssumption, FS_CardinalityType
  <2>3. rows \in Maps /\ job \in [Workers -> States]
    BY <2>1, IdleType DEF Init
  <2> HIDE DEF Maps, States
  <2> QED BY <2>1, <2>2, <2>3, TypeNames DEF NamedTypes, Init
<1>2. Busy = {}
  BY DEF Init, Idle, Busy
<1>3. requests >= Cardinality(Busy)
  BY <1>2, FS_EmptySet DEF Init
<1> QED BY <1>1, <1>3 DEF Init, BaseInv

\* Arrival and triggers.
LEMMA ArrivalBaseInv ==
  ASSUME BaseInv, (\E e \in RawEvents : Write(e)) \/ Announce \/ Redeliver
  PROVE  BaseInv'
<1> HIDE DEF Maps, States
<1>1. job' = job /\ clock' = clock /\ at' = at /\ UNCHANGED db /\ raw \subseteq raw'
  BY DEF Write, Announce, Redeliver, env
<1>2. Row \subseteq Row' /\ Times \subseteq Times' /\ Maps \subseteq Maps' /\ States \subseteq States'
  BY <1>1, Grow, TypeNames DEF NamedTypes, BaseInv
<1>3. /\ requests' \in 0 .. MaxRequests /\ faults' \in 0 .. MaxFaults /\ requests' >= requests
  <2>1. requests \in 0 .. MaxRequests /\ faults \in 0 .. MaxFaults /\ MaxRequests \in Nat /\ MaxFaults \in Nat
    BY MaterializationAssumption DEF BaseInv, TypeOK
  <2>2. CASE \E e \in RawEvents : Write(e)
    BY <2>1, <2>2 DEF Write
  <2>3. CASE Announce
    BY <2>1, <2>3 DEF Announce, Trigger
  <2>4. CASE Redeliver
    BY <2>1, <2>4 DEF Redeliver, Trigger, Fault
  <2> QED BY <2>2, <2>3, <2>4
<1>4. raw' \subseteq DOMAIN at /\ unannounced' \subseteq raw'
  BY DEF BaseInv, TypeOK, Write, Announce, Redeliver, env
<1>5. newest' \in Times' /\ \A e \in raw' : at[e] <= newest'
  <2>1. CASE UNCHANGED <<raw, newest>>
    BY <1>1, <2>1 DEF BaseInv, TypeOK, Times
  <2>2. ASSUME NEW e \in RawEvents, Write(e) PROVE newest' \in Times' /\ \A f \in raw' : at[f] <= newest'
    <3>1. newest \in Nat /\ at[e] \in Nat /\ \A f \in raw : at[f] \in Nat /\ at[f] <= newest
      BY <2>2, Numbers DEF Write, BaseInv
    <3>2. newest' \in {newest, at[e]} /\ newest' >= newest /\ newest' >= at[e]
      BY <2>2, <3>1, MaxOfTwo DEF Write
    <3>3. raw' = raw \cup {e}
      BY <2>2 DEF Write
    <3>4. newest \in Times' /\ at[e] \in Times'
      BY <1>1, <1>2, <3>3 DEF BaseInv, TypeOK, Times
    <3> QED BY <3>1, <3>2, <3>3, <3>4
  <2> QED BY <2>1, <2>2 DEF Announce, Redeliver, env
<1>6. checkpoint \in [ver : 0 .. clock, node : Times', edge : Times']
  BY <1>2 DEF BaseInv, TypeOK
<1>7. rows \in Maps' /\ job \in [Workers -> States']
  BY <1>2, TypeNames DEF NamedTypes, BaseInv
<1>8. TypeOK'
  BY <1>1, <1>3, <1>4, <1>5, <1>6, <1>7, TypeNames DEF NamedTypes, db, BaseInv
<1>9. requests' >= Cardinality(Busy)
  BY <1>3, BusyFinite DEF BaseInv, TypeOK
<1> QED BY <1>1, <1>5, <1>8, <1>9 DEF BaseInv, Busy

\* A step of a rebuild whose state is of the right type, with the trigger it has.
LEMMA RebuildBaseInv ==
  ASSUME BaseInv, UNCHANGED env, NEW w \in Workers,
         job' \in [Workers -> States'], \A v \in Workers \ {w} : job'[v] = job[v],
         job'[w].step = "idle" => job'[w] = Idle,
         \/ job[w].step # "idle" /\ requests' = requests
         \/ job[w].step # "idle" /\ job'[w].step = "idle" /\ requests' = requests - 1
         \/ job'[w].step # "idle" /\ requests' = requests /\ requests > Cardinality(Busy),
         faults' \in 0 .. MaxFaults, clock' \in Nat, rows' \in Maps',
         summary' \in [ver : 0 .. clock', nodes : 0 .. Cardinality(Nodes),
                                          edges : 0 .. Cardinality(Edges)],
         checkpoint' \in [ver : 0 .. clock', node : Times, edge : Times]
  PROVE  BaseInv'
<1> HIDE DEF Maps, States
<1>1. Times' = Times /\ at' = at /\ raw' = raw /\ newest' = newest /\ unannounced' = unannounced
  BY DEF env, Times
<1>2. requests \in 0 .. MaxRequests /\ requests >= Cardinality(Busy) /\ Cardinality(Busy) \in Nat /\ Cardinality(Busy') \in Nat
  BY BusyFinite DEF BaseInv, TypeOK
<1>3. requests' \in 0 .. MaxRequests /\ requests' >= Cardinality(Busy')
  BY <1>2, BusyChange, MaterializationAssumption
<1>4. TypeOK'
  BY <1>1, <1>3, TypeNames DEF NamedTypes, BaseInv
<1>5. \A v \in Workers : job'[v].step = "idle" => job'[v] = Idle
  BY DEF BaseInv
<1> QED BY <1>1, <1>3, <1>4, <1>5 DEF BaseInv

-----------------------------------------------------------------------------
(* What each step of a rebuild does to the worker's state.                 *)

LEMMA JobFields ==
  ASSUME BaseInv, NEW w \in Workers
  PROVE  /\ job \in [Workers -> States] /\ job[w] \in States
         /\ job[w].step \in Steps /\ job[w].todo \subseteq Tables \cup Entities
         /\ job[w].cp \in [node : Times, edge : Times] /\ job[w].base \in Maps
         /\ job[w].batch \subseteq raw /\ job[w].model \in Maps /\ job[w].ver \in 0 .. clock
         /\ job[w].mark \in Times
<1> HIDE DEF Maps, Steps
<1>1. job \in [Workers -> States] /\ job[w] \in States
  BY TypeNames DEF NamedTypes, BaseInv
<1>2. job[w] \in StatesOf(Maps, Times, raw, 0 .. clock)
  BY <1>1 DEF States
<1> QED BY <1>1, <1>2, StateFields

\* w goes on with its state as changed in one or two fields, none of them step or todo.
Others(w) == job' \in [Workers -> States] /\ \A v \in Workers \ {w} : job'[v] = job[v]

LEMMA BeginEffect ==
  ASSUME BaseInv, NEW w \in Workers, Begin(w)
  PROVE  /\ Others(w)
         /\ job'[w].step = "model" /\ job'[w].todo = Tables /\ job'[w].cp = LoadCheckpoint
         /\ job'[w].base = job[w].base /\ job'[w].batch = job[w].batch
         /\ job'[w].model = job[w].model
<1> HIDE DEF Maps, Times
<1> DEFINE s == [job[w] EXCEPT !.cp = LoadCheckpoint]
<1>1. job \in [Workers -> States] /\ job[w] \in States
  BY JobFields
<1>2. LoadCheckpoint \in [node : Times, edge : Times]
  BY DEF BaseInv, TypeOK, LoadCheckpoint
<1>3. s \in States /\ s.cp = LoadCheckpoint /\ s.base = job[w].base /\ s.batch = job[w].batch
      /\ s.model = job[w].model
  BY <1>1, <1>2 DEF States, StatesOf
<1>4. Proceed(w, s, "model", Tables)
  BY DEF Begin
<1> HIDE DEF s
<1> QED BY <1>1, <1>3, <1>4, Proceeds DEF States, Others, Steps

LEMMA LoadModelEffect ==
  ASSUME BaseInv, NEW w \in Workers, NEW k \in Tables, LoadModel(w, k)
  PROVE  /\ Others(w)
         /\ IF job[w].todo = {k} THEN job'[w].step = "raw" /\ job'[w].todo = Tables
            ELSE job'[w].step = "model" /\ job'[w].todo = job[w].todo \ {k}
         /\ job'[w].cp = job[w].cp /\ job'[w].batch = job[w].batch /\ job'[w].model = job[w].model
         /\ job'[w].base = [x \in Entities |-> IF x \in Of(k) THEN rows[x] ELSE job[w].base[x]]
<1> HIDE DEF Times
<1> DEFINE base == [x \in Entities |-> IF x \in Of(k) THEN rows[x] ELSE job[w].base[x]]
           s == [job[w] EXCEPT !.base = base]
<1>1. job \in [Workers -> States] /\ job[w] \in States /\ job[w].base \in Maps
  BY JobFields
<1>2. base \in Maps
  BY <1>1 DEF BaseInv, TypeOK, Maps
<1>3. s \in States /\ s.cp = job[w].cp /\ s.base = base /\ s.batch = job[w].batch
      /\ s.model = job[w].model /\ s.step = job[w].step /\ s.todo = job[w].todo
  <2> HIDE DEF base, Maps
  <2> QED BY <1>1, <1>2 DEF States, StatesOf
<1>4. Queried(w, s, k, "raw", Tables) /\ job[w].step = "model"
  BY DEF LoadModel
<1> HIDE DEF s, base, Maps
<1>5. /\ Others(w)
      /\ IF job[w].todo = {k} THEN job'[w].step = "raw" /\ job'[w].todo = Tables
         ELSE job'[w].step = "model" /\ job'[w].todo = job[w].todo \ {k}
      /\ job'[w].cp = job[w].cp /\ job'[w].batch = job[w].batch /\ job'[w].model = job[w].model
      /\ job'[w].base = base
  BY <1>1, <1>3, <1>4, QueryProceeds DEF States, Others, Steps
<1> QED BY <1>5 DEF base

LEMMA LoadRawEffect ==
  ASSUME BaseInv, NEW w \in Workers, NEW k \in Tables, LoadRaw(w, k)
  PROVE  /\ Others(w)
         /\ IF job[w].todo = {k} THEN job'[w].step = "fold" /\ job'[w].todo = {}
            ELSE job'[w].step = "raw" /\ job'[w].todo = job[w].todo \ {k}
         /\ job'[w].cp = job[w].cp /\ job'[w].base = job[w].base /\ job'[w].model = job[w].model
         /\ job'[w].batch = job[w].batch \cup After(k, job[w].cp)
         /\ job'[w].mark = IF k = "node" THEN newest ELSE job[w].mark
<1> HIDE DEF Times, Maps
<1> DEFINE batch == job[w].batch \cup After(k, job[w].cp)
           mark == IF k = "node" THEN newest ELSE job[w].mark
           s == [job[w] EXCEPT !.batch = batch, !.mark = mark]
<1>1. job \in [Workers -> States] /\ job[w] \in States /\ job[w].batch \subseteq raw /\ job[w].mark \in Times
  BY JobFields
<1>2. batch \subseteq raw /\ mark \in Times
  BY <1>1 DEF BaseInv, TypeOK, After
<1>3. s \in States /\ s.cp = job[w].cp /\ s.base = job[w].base /\ s.batch = batch /\ s.mark = mark
      /\ s.model = job[w].model /\ s.step = job[w].step /\ s.todo = job[w].todo
  <2> HIDE DEF batch, mark
  <2> QED BY <1>1, <1>2 DEF States, StatesOf
<1>4. Queried(w, s, k, "fold", {}) /\ job[w].step = "raw"
  BY DEF LoadRaw
<1> HIDE DEF s, batch, mark
<1>5. /\ Others(w)
      /\ IF job[w].todo = {k} THEN job'[w].step = "fold" /\ job'[w].todo = {}
         ELSE job'[w].step = "raw" /\ job'[w].todo = job[w].todo \ {k}
      /\ job'[w].cp = job[w].cp /\ job'[w].base = job[w].base /\ job'[w].model = job[w].model
      /\ job'[w].batch = batch /\ job'[w].mark = mark
  BY <1>1, <1>3, <1>4, QueryProceeds DEF States, Others, Steps
<1> QED BY <1>5 DEF batch, mark

\* The fold stamps its rows with a new version.
FoldOf(w) == WithoutOrphans(FoldedMap(job[w].base, job[w].batch, clock'))

LEMMA FoldEffect ==
  ASSUME BaseInv, NEW w \in Workers, Fold(w)
  PROVE  /\ job' \in [Workers -> States'] /\ \A v \in Workers \ {w} : job'[v] = job[v]
         /\ job'[w].step = "rows" /\ job'[w].todo = Present(job'[w].model, Entities)
         /\ job'[w].cp = job[w].cp /\ job'[w].base = job[w].base /\ job'[w].batch = job[w].batch
         /\ job'[w].model = FoldOf(w) /\ job'[w].ver = clock'
<1> HIDE DEF Times, Maps
<1> DEFINE model == FoldOf(w)
           s == [job[w] EXCEPT !.model = model, !.ver = clock']
<1>1. /\ job \in [Workers -> States] /\ job[w] \in States /\ job[w].batch \subseteq raw /\ job[w].base \in Maps
      /\ clock \in Nat /\ clock' = clock + 1 /\ UNCHANGED env
  BY JobFields DEF Fold, BaseInv, TypeOK
<1>2. Row \subseteq Row' /\ Times \subseteq Times' /\ Maps \subseteq Maps' /\ States \subseteq States'
  BY <1>1, Grow DEF env
<1>3. model \in Maps'
  <2>1. \A x \in Entities : \A old \in SUBSET raw : Applied(x, old, job[w].batch) \subseteq raw
    BY <1>1 DEF Applied
  <2>2. \A x \in Entities : job[w].base[x] \in Row
    BY <1>1 DEF Maps
  <2>3. FoldedMap(job[w].base, job[w].batch, clock') \in Maps'
    <3> DEFINE m == FoldedMap(job[w].base, job[w].batch, clock')
    <3>1. \A x \in Entities : m[x] \in Row'
      <4> SUFFICES ASSUME NEW x \in Entities PROVE m[x] \in Row'
        OBVIOUS
      <4> DEFINE applied == Applied(x, job[w].base[x].folded, job[w].batch)
      <4>1. job[w].base[x] \in Row' /\ job[w].base[x].folded \subseteq raw
        BY <1>2, <2>2 DEF Row
      <4>2. applied \subseteq raw
        BY <2>1, <4>1
      <4>3. m[x] = IF applied = {} THEN job[w].base[x]
                   ELSE [ver |-> clock', folded |-> job[w].base[x].folded \cup applied]
        BY DEF FoldedMap
      <4>4. [ver |-> clock', folded |-> job[w].base[x].folded \cup applied] \in Row'
        <5> HIDE DEF applied
        <5> QED BY <1>1, <4>1, <4>2 DEF Row, env
      <4> HIDE DEF m, applied
      <4> QED BY <4>1, <4>3, <4>4
    <3>2. DOMAIN m = Entities /\ m = [x \in Entities |-> m[x]]
      BY DEF FoldedMap
    <3>3. m \in Maps'
      <4> HIDE DEF m
      <4> QED BY <3>1, <3>2 DEF Maps
    <3> QED BY <3>3
  <2>4. NoRow \in Row'
    BY <1>1 DEF NoRow, Row
  <2> QED BY <2>3, <2>4 DEF WithoutOrphans, Maps, FoldOf
<1>4. /\ s \in States' /\ s.cp = job[w].cp /\ s.base = job[w].base /\ s.batch = job[w].batch
      /\ s.model = model /\ s.ver = clock' /\ s.mark = job[w].mark
  <2>1. clock' \in 0 .. clock'
    BY <1>1
  <2> HIDE DEF model
  <2> QED BY <1>1, <1>2, <1>3, <2>1 DEF States, StatesOf
<1>5. Proceed(w, s, "rows", Present(model, Entities))
  BY DEF Fold, FoldOf
<1>6. Present(model, Entities) \subseteq Entities
  BY DEF Present
<1>7. job \in [Workers -> States']
  BY <1>1, <1>2
<1> HIDE DEF s, model
<1>8. /\ job' \in [Workers -> States'] /\ \A v \in Workers \ {w} : job'[v] = job[v]
      /\ job'[w].step = "rows" /\ job'[w].todo = Present(model, Entities)
      /\ job'[w].cp = job[w].cp /\ job'[w].base = job[w].base /\ job'[w].batch = job[w].batch
      /\ job'[w].model = model /\ job'[w].ver = clock'
  BY <1>4, <1>5, <1>6, <1>7, Proceeds DEF States, Steps
<1> QED BY <1>8 DEF model

LEMMA SavingEffect ==
  ASSUME BaseInv, NEW w \in Workers, NEW step \in Steps,
         NEW left \in SUBSET (Tables \cup Entities),
         Proceed(w, job[w], step, left)
  PROVE  /\ Others(w)
         /\ job'[w].step = step /\ job'[w].todo = left
         /\ job'[w].cp = job[w].cp /\ job'[w].base = job[w].base /\ job'[w].batch = job[w].batch
         /\ job'[w].model = job[w].model /\ job'[w].ver = job[w].ver
<1> HIDE DEF Times, Maps, Steps
<1>1. job \in [Workers -> States] /\ job[w] \in States
  BY JobFields
<1> QED BY <1>1, Proceeds DEF States, Others

\* A rebuild that is over, one way or the other.
LEMMA IdleEffect ==
  ASSUME BaseInv, NEW w \in Workers, job' = [job EXCEPT ![w] = Idle]
  PROVE  Others(w) /\ job'[w] = Idle /\ Idle.step = "idle"
<1> HIDE DEF States
<1>1. job \in [Workers -> States] /\ Idle \in States /\ Idle.step = "idle"
  BY JobFields, IdleType DEF BaseInv, TypeOK
<1> HIDE DEF Idle
<1> QED BY <1>1 DEF Others

\* The times and counts a rebuild saves are of the right types.
LatestOf(batch, cp, k) ==
  LET times == {at[e] : e \in {f \in batch : f[1] \in Of(k)}}
  IN  IF times = {} THEN cp[k] ELSE Max(times)

LEMMA LatestTimes ==
  ASSUME BaseInv, NEW batch \in SUBSET raw, NEW cp \in [node : Times, edge : Times], NEW k \in Tables
  PROVE  /\ LatestOf(batch, cp, k) \in Times
         /\ \A e \in batch : e[1] \in Of(k) => at[e] <= LatestOf(batch, cp, k)
<1> DEFINE S == {at[e] : e \in {f \in batch : f[1] \in Of(k)}}
<1>2. newest \in Nat /\ \A e \in raw : at[e] \in Nat /\ at[e] <= newest /\ at[e] \in Times
  BY Numbers DEF Times, BaseInv
<1>3. S \in SUBSET Times /\ S \in SUBSET Nat /\ \A t \in S : t <= newest
  BY <1>2
<1>4. LatestOf(batch, cp, k) = IF S = {} THEN cp[k] ELSE Max(S)
  BY DEF LatestOf
<1>5. cp[k] \in Times
  BY DEF Tables
<1>6. \A e \in batch : e[1] \in Of(k) => at[e] \in S
  OBVIOUS
<1> HIDE DEF S, LatestOf
<1>7. CASE S = {}
  BY <1>4, <1>5, <1>6, <1>7
<1>8. CASE S # {}
  <2>1. Max(S) \in S /\ \A y \in S : Max(S) >= y
    BY <1>2, <1>3, <1>8, MaxOf
  <2>2. LatestOf(batch, cp, k) = Max(S)
    BY <1>4, <1>8
  <2>3. ASSUME NEW e \in batch, e[1] \in Of(k) PROVE at[e] <= LatestOf(batch, cp, k)
    <3>1. at[e] \in S
      BY <1>6, <2>3
    <3> QED BY <1>3, <2>1, <2>2, <3>1
  <2> QED BY <1>3, <2>1, <2>2, <2>3
<1> QED BY <1>7, <1>8

LEMMA NextTimes ==
  ASSUME BaseInv, NEW w \in Workers, NEW k \in Tables
  PROVE  /\ NextTime(w, k) \in Times
         /\ \A e \in job[w].batch : e[1] \in Of(k) => at[e] <= NextTime(w, k)
<1>1. job[w].batch \in SUBSET raw /\ job[w].cp \in [node : Times, edge : Times]
  BY JobFields
<1>2. NextTime(w, k) = LatestOf(job[w].batch, job[w].cp, k)
  BY DEF NextTime, LatestOf
<1> QED BY <1>1, <1>2, LatestTimes

LEMMA PresentCount ==
  ASSUME NEW m, NEW S \in {Nodes, Edges}
  PROVE  Cardinality(Present(m, S)) \in 0 .. Cardinality(S)
<1>1. IsFiniteSet(S) /\ Present(m, S) \in SUBSET S
  BY MaterializationAssumption DEF Present
<1>2. Cardinality(Present(m, S)) <= Cardinality(S) /\ IsFiniteSet(Present(m, S))
  BY <1>1, FS_Subset
<1>3. Cardinality(Present(m, S)) \in Nat /\ Cardinality(S) \in Nat
  BY <1>1, <1>2, FS_CardinalityType
<1> QED BY <1>2, <1>3

\* A step of the rebuild of w, whatever the step.
LEMMA StepBaseInv ==
  ASSUME BaseInv, NEW w \in Workers, Step(w) \/ Fail(w)
  PROVE  BaseInv'
<1> HIDE DEF Maps, States, Times, Steps
<1>0. /\ faults \in 0 .. MaxFaults /\ MaxFaults \in Nat /\ clock \in Nat /\ rows \in Maps
      /\ summary \in [ver : 0 .. clock, nodes : 0 .. Cardinality(Nodes), edges : 0 .. Cardinality(Edges)]
      /\ checkpoint \in [ver : 0 .. clock, node : Times, edge : Times]
      /\ job[w].step = "idle" => job[w] = Idle
  BY TypeNames, MaterializationAssumption DEF BaseInv, NamedTypes
<1> DEFINE Same == Maps' = Maps /\ States' = States
<1>1. ASSUME UNCHANGED env, clock' = clock PROVE Same
  BY <1>1 DEF Maps, States, Times, Row, env, StatesOf
<1>2. CASE Begin(w)
  <2>1. Others(w) /\ job'[w].step = "model"
    BY <1>2, BeginEffect
  <2>2. UNCHANGED env /\ UNCHANGED <<requests, db, clock, faults>> /\ requests > Cardinality(Busy)
    BY <1>2 DEF Begin, Busy
  <2> QED BY <1>0, <1>1, <2>1, <2>2, RebuildBaseInv DEF Others, db
<1>3. ASSUME NEW k \in Tables, LoadModel(w, k) PROVE BaseInv'
  <2>1. Others(w) /\ job'[w].step # "idle"
    BY <1>3, LoadModelEffect
  <2>2. UNCHANGED env /\ UNCHANGED <<requests, db, clock, faults>> /\ job[w].step # "idle"
    BY <1>3 DEF LoadModel
  <2> QED BY <1>0, <1>1, <2>1, <2>2, RebuildBaseInv DEF Others, db
<1>4. ASSUME NEW k \in Tables, LoadRaw(w, k) PROVE BaseInv'
  <2>1. Others(w) /\ job'[w].step # "idle"
    BY <1>4, LoadRawEffect
  <2>2. UNCHANGED env /\ UNCHANGED <<requests, db, clock, faults>> /\ job[w].step # "idle"
    BY <1>4 DEF LoadRaw
  <2> QED BY <1>0, <1>1, <2>1, <2>2, RebuildBaseInv DEF Others, db
<1>5. CASE NothingNew(w)
  <2>1. Others(w) /\ job'[w] = Idle /\ Idle.step = "idle"
    BY <1>5, IdleEffect DEF NothingNew, Answered
  <2>2. UNCHANGED env /\ UNCHANGED <<db, clock, faults>> /\ job[w].step # "idle" /\ requests' = requests - 1
    BY <1>5 DEF NothingNew, Answered
  <2> HIDE DEF Idle
  <2> QED BY <1>0, <1>1, <2>1, <2>2, RebuildBaseInv DEF Others, db
<1>6. CASE Fold(w)
  <2>1. job' \in [Workers -> States'] /\ job'[w].step # "idle" /\ \A v \in Workers \ {w} : job'[v] = job[v]
    BY <1>6, FoldEffect
  <2>2. UNCHANGED env /\ UNCHANGED <<requests, db, faults>> /\ job[w].step # "idle" /\ clock' = clock + 1
    BY <1>6 DEF Fold
  <2>3. Maps \subseteq Maps' /\ clock' \in Nat /\ 0 .. clock \subseteq 0 .. clock'
    BY <1>0, <2>2, Grow DEF env
  <2> QED BY <1>0, <2>1, <2>2, <2>3, RebuildBaseInv DEF db
<1>7. ASSUME NEW x \in Entities, SaveRow(w, x) PROVE BaseInv'
  <2>1. job[w].model \in Maps /\ job[w].todo \subseteq Tables \cup Entities
    BY JobFields
  <2>2. UNCHANGED env /\ UNCHANGED <<requests, summary, checkpoint, clock, faults>> /\ job[w].step = "rows"
    BY <1>7 DEF SaveRow
  <2>3. Others(w) /\ job'[w].step # "idle"
    <3>1. job[w].todo \ {x} \in SUBSET (Tables \cup Entities)
      BY <2>1
    <3> QED BY <1>7, <3>1, SavingEffect DEF SaveRow, Steps
  <2>4. rows' \in Maps
    <3>1. Newer(rows[x], job[w].model[x]) \in Row
      BY <1>0, <2>1 DEF Newer, Maps
    <3> QED BY <1>0, <1>7, <3>1 DEF SaveRow, Maps
  <2> QED BY <1>0, <1>1, <2>2, <2>3, <2>4, RebuildBaseInv DEF Others
<1>8. CASE SaveSummary(w)
  <2>1. UNCHANGED env /\ UNCHANGED <<requests, rows, checkpoint, clock, faults>> /\ job[w].step = "rows"
    BY <1>8 DEF SaveSummary
  <2>2. Others(w) /\ job'[w].step # "idle"
    BY <1>8, SavingEffect DEF SaveSummary, Steps
  <2>3. summary' \in [ver : 0 .. clock, nodes : 0 .. Cardinality(Nodes), edges : 0 .. Cardinality(Edges)]
    <3>1. Cardinality(Present(job[w].model, Nodes)) \in 0 .. Cardinality(Nodes)
      BY PresentCount
    <3>2. Cardinality(Present(job[w].model, Edges)) \in 0 .. Cardinality(Edges)
      BY PresentCount
    <3>3. job[w].ver \in 0 .. clock
      BY JobFields
    <3> QED BY <1>0, <1>8, <3>1, <3>2, <3>3 DEF SaveSummary, Newer, SummaryRow, Counts
  <2> QED BY <1>0, <1>1, <2>1, <2>2, <2>3, RebuildBaseInv DEF Others
<1>9. CASE SaveCheckpoint(w)
  <2>1. Others(w) /\ job'[w] = Idle /\ Idle.step = "idle"
    BY <1>9, IdleEffect DEF SaveCheckpoint, Answered
  <2>2. /\ UNCHANGED env /\ UNCHANGED <<rows, summary, clock, faults>>
        /\ job[w].step # "idle" /\ requests' = requests - 1
    BY <1>9 DEF SaveCheckpoint, Answered
  <2>3. checkpoint' \in [ver : 0 .. clock, node : Times, edge : Times]
    <3>1. NextTime(w, "node") \in Times /\ NextTime(w, "edge") \in Times /\ job[w].ver \in 0 .. clock
      BY NextTimes, JobFields DEF Tables
    <3> QED BY <1>0, <1>9, <3>1 DEF SaveCheckpoint, Newer, CheckpointRow
  <2> HIDE DEF Idle
  <2> QED BY <1>0, <1>1, <2>1, <2>2, <2>3, RebuildBaseInv DEF Others
<1>10. CASE Fail(w)
  <2>1. Others(w) /\ job'[w] = Idle /\ Idle.step = "idle"
    BY <1>10, IdleEffect DEF Fail
  <2>2. /\ UNCHANGED env /\ UNCHANGED <<requests, db, clock>> /\ job[w].step # "idle"
        /\ faults' \in 0 .. MaxFaults
    BY <1>0, <1>10 DEF Fail, Fault
  <2> HIDE DEF Idle
  <2> QED BY <1>0, <1>1, <2>1, <2>2, RebuildBaseInv DEF Others, db
<1> QED BY <1>2, <1>3, <1>4, <1>5, <1>6, <1>7, <1>8, <1>9, <1>10 DEF Step

LEMMA NextBaseInv == BaseInv /\ [Next]_vars => BaseInv'
<1> SUFFICES ASSUME BaseInv, [Next]_vars PROVE BaseInv'
  OBVIOUS
<1>1. CASE UNCHANGED vars
  BY <1>1 DEF vars, env, db, BaseInv, TypeOK, Busy, Row, Times
<1>2. ASSUME NEW w \in Workers, Step(w) \/ Fail(w) PROVE BaseInv'
  BY <1>2, StepBaseInv
<1> QED BY <1>1, <1>2, ArrivalBaseInv DEF Next

\* Types hold in every reachable state, for any number of workers.
THEOREM MaterializationTypes == Spec => []TypeOK
<1>1. BaseInv => TypeOK
  BY DEF BaseInv
<1> QED BY <1>1, InitBaseInv, NextBaseInv, PTL DEF Spec

-----------------------------------------------------------------------------
(* RowsInv. *)

LEMMA SoundRow ==
  ASSUME NEW m, Sound(m), NEW x \in Entities
  PROVE  /\ m[x].folded \subseteq {Start(x), End(x)}
         /\ m[x].folded # {} => Start(x) \in m[x].folded /\ m[x].ver > 0
         /\ m[x].folded = {} => m[x] = NoRow
BY DEF Sound, NoRow

LEMMA EmptyMap == Sound(Empty) /\ NoOrphans(Empty)
<1>1. \A x \in Entities : Empty[x] = NoRow
  BY DEF Empty
<1>2. NoRow.folded = {}
  BY DEF NoRow
<1> HIDE DEF Empty, NoRow
<1>3. \A x \in Edges : x \in Entities /\ From[x] \in Entities /\ To[x] \in Entities
  BY EntityTables, MaterializationAssumption
<1> QED BY <1>1, <1>2, <1>3 DEF Sound, NoOrphans

LEMMA InitRowsInv == Init => RowsInv
BY EmptyMap DEF Init, RowsInv, Idle

\* What a fold makes of a sound map.
LEMMA FoldRows ==
  ASSUME NEW base, NEW batch, NEW ver \in Nat \ {0}, Sound(base)
  PROVE  /\ Sound(WithoutOrphans(FoldedMap(base, batch, ver)))
         /\ NoOrphans(WithoutOrphans(FoldedMap(base, batch, ver)))
<1> DEFINE m == FoldedMap(base, batch, ver)
           o == WithoutOrphans(m)
<1>1. ASSUME NEW x \in Entities
      PROVE  \/ m[x] = NoRow
             \/ Start(x) \in m[x].folded /\ m[x].folded \subseteq {Start(x), End(x)} /\ m[x].ver > 0
  <2> DEFINE old == base[x].folded
             applied == Applied(x, old, batch)
  <2>1. m[x] = IF applied = {} THEN base[x] ELSE [ver |-> ver, folded |-> old \cup applied]
    BY DEF FoldedMap
  <2>2. old \subseteq {Start(x), End(x)} /\ (old # {} => Start(x) \in old)
    BY SoundRow
  <2>3. applied \subseteq {Start(x), End(x)} /\ (applied # {} => Start(x) \in old \cup applied)
    BY DEF Applied
  <2>4. CASE applied = {}
    BY <2>1, <2>4 DEF Sound
  <2>5. CASE applied # {}
    <3> HIDE DEF applied, old, m
    <3> QED BY <2>1, <2>2, <2>3, <2>5
  <2> QED BY <2>4, <2>5
<1>2. \A x \in Entities :
        o[x] = IF x \in Edges /\ ~({From[x], To[x]} \subseteq Present(m, Nodes)) THEN NoRow ELSE m[x]
  <2> HIDE DEF m
  <2> QED BY DEF WithoutOrphans
<1>3. Sound(o)
  <2> HIDE DEF m, o
  <2> QED BY <1>1, <1>2 DEF Sound
<1>4. NoOrphans(o)
  <2> SUFFICES ASSUME NEW x \in Edges, o[x].folded # {}
               PROVE  o[From[x]].folded # {} /\ o[To[x]].folded # {}
    BY DEF NoOrphans
  <2>1. x \in Entities /\ From[x] \in Nodes /\ To[x] \in Nodes
    BY EntityTables, MaterializationAssumption
  <2> HIDE DEF m, o
  <2>2. {From[x], To[x]} \subseteq Present(m, Nodes)
    BY <1>2, <2>1 DEF NoRow
  <2>3. \A n \in Nodes : o[n] = m[n]
    BY <1>2, EntityTables
  <2> QED BY <2>1, <2>2, <2>3 DEF Present
<1> QED BY <1>3, <1>4

\* The maps w holds are sound, and what it has saved of them is in the rows.
WorkerRows(w) ==
  /\ Sound(job[w].base) /\ Sound(job[w].model) /\ NoOrphans(job[w].model)
  /\ job[w].step = "rows" =>
       /\ \A x \in Entities \cap job[w].todo : job[w].model[x].folded # {}
       /\ \A n \in Nodes \ job[w].todo : job[w].model[n].folded # {} => rows[n].folded # {}

LEMMA WorkerRowsOf == RowsInv <=> /\ Sound(rows) /\ NoOrphans(rows)
                                  /\ \A w \in Workers : WorkerRows(w)
BY DEF RowsInv, WorkerRows

\* A step that leaves the rows alone.
LEMMA SameRows ==
  ASSUME RowsInv, rows' = rows, NEW w \in Workers, WorkerRows(w)',
         \A v \in Workers \ {w} : job'[v] = job[v]
  PROVE  RowsInv'
<1>1. \A v \in Workers \ {w} : WorkerRows(v)'
  BY DEF RowsInv, WorkerRows, Sound, NoOrphans
<1>2. Sound(rows)' /\ NoOrphans(rows)'
  BY DEF RowsInv, Sound, NoOrphans
<1> QED BY <1>1, <1>2 DEF RowsInv, WorkerRows

\* A saved row is the newer of the two.
LEMMA SaveRowRows ==
  ASSUME BaseInv, RowsInv, NEW w \in Workers, NEW x \in Entities, SaveRow(w, x)
  PROVE  RowsInv'
<1> DEFINE old == rows[x]
           new == job[w].model[x]
<1>1. /\ x \in job[w].todo /\ (x \in Edges => job[w].todo \cap Nodes = {}) /\ job[w].step = "rows"
      /\ rows' = [rows EXCEPT ![x] = Newer(old, new)]
  BY DEF SaveRow
<1>2. /\ Others(w) /\ job'[w].step = "rows" /\ job'[w].todo = job[w].todo \ {x}
      /\ job'[w].base = job[w].base /\ job'[w].model = job[w].model
  <2>1. Proceed(w, job[w], "rows", job[w].todo \ {x}) /\ "rows" \in Steps
    BY DEF SaveRow, Steps
  <2>2. job[w].todo \ {x} \in SUBSET (Tables \cup Entities)
    BY JobFields
  <2> QED BY <2>1, <2>2, SavingEffect
<1>3. Sound(rows) /\ NoOrphans(rows) /\ WorkerRows(w)
  BY DEF RowsInv, WorkerRows
<1>4. new.folded # {} /\ new \in Row /\ old \in Row
  BY <1>1, <1>3, JobFields DEF WorkerRows, Maps, BaseInv, TypeOK
<1>5. /\ rows'[x] \in {old, new} /\ rows'[x].folded # {}
      /\ \A y \in Entities \ {x} : rows'[y] = rows[y]
  <2>1. rows'[x] = Newer(old, new) /\ \A y \in Entities \ {x} : rows'[y] = rows[y]
    BY <1>1 DEF BaseInv, TypeOK
  <2>2. new.ver > 0 /\ new.ver \in Nat /\ old.ver \in Nat
    BY <1>3, <1>4, SoundRow DEF WorkerRows, Row, BaseInv, TypeOK
  <2>3. old.folded = {} => old.ver = 0
    BY <1>3, SoundRow DEF NoRow
  <2> HIDE DEF old, new
  <2> QED BY <1>4, <2>1, <2>2, <2>3 DEF Newer
<1>6. Sound(rows')
  <2> SUFFICES ASSUME NEW y \in Entities
               PROVE  \/ rows'[y] = NoRow
                      \/ /\ Start(y) \in rows'[y].folded /\ rows'[y].folded \subseteq {Start(y), End(y)}
                         /\ rows'[y].ver > 0
    BY DEF Sound
  <2> QED BY <1>3, <1>5 DEF Sound, WorkerRows
<1>7. \A y \in Entities : rows[y].folded # {} => rows'[y].folded # {}
  BY <1>5
<1>8. NoOrphans(rows')
  <2> SUFFICES ASSUME NEW y \in Edges, rows'[y].folded # {}
               PROVE  rows'[From[y]].folded # {} /\ rows'[To[y]].folded # {}
    BY DEF NoOrphans
  <2>1. From[y] \in Nodes /\ To[y] \in Nodes /\ y \in Entities /\ Nodes \subseteq Entities
    BY EntityTables, MaterializationAssumption
  <2>2. CASE y = x
    BY <1>1, <1>3, <1>4, <1>7, <2>1, <2>2 DEF NoOrphans, WorkerRows
  <2>3. CASE y # x
    BY <1>3, <1>5, <1>7, <2>1, <2>3 DEF NoOrphans
  <2> QED BY <2>2, <2>3
<1>9. WorkerRows(w)'
  <2>1. \A n \in Nodes \ job'[w].todo : job[w].model[n].folded # {} => rows'[n].folded # {}
    BY <1>1, <1>2, <1>3, <1>5, <1>7, EntityTables DEF WorkerRows
  <2>2. \A y \in Entities \cap job'[w].todo : job[w].model[y].folded # {}
    BY <1>1, <1>2, <1>3 DEF WorkerRows
  <2>3. Sound(job[w].base) /\ Sound(job[w].model) /\ NoOrphans(job[w].model)
    BY <1>3 DEF WorkerRows
  <2> QED BY <1>2, <2>1, <2>2, <2>3 DEF WorkerRows, Sound, NoOrphans
<1>10. ASSUME NEW v \in Workers \ {w} PROVE WorkerRows(v)'
  <2>1. job'[v] = job[v] /\ WorkerRows(v)
    BY <1>2 DEF Others, RowsInv, WorkerRows
  <2> QED BY <1>7, <2>1, EntityTables DEF WorkerRows, Sound, NoOrphans
<1> QED BY <1>6, <1>8, <1>9, <1>10 DEF RowsInv, WorkerRows, Sound, NoOrphans

LEMMA NextRowsInv ==
  ASSUME BaseInv, RowsInv, [Next]_vars
  PROVE  RowsInv'
<1>1. CASE UNCHANGED vars \/ (\E e \in RawEvents : Write(e)) \/ Announce \/ Redeliver
  <2>1. rows' = rows /\ job' = job
    BY <1>1 DEF vars, db, Write, Announce, Redeliver
  <2> QED BY <2>1 DEF RowsInv, Sound, NoOrphans
<1>2. ASSUME NEW w \in Workers, Step(w) \/ Fail(w) PROVE RowsInv'
  <2>0. WorkerRows(w)
    BY DEF RowsInv, WorkerRows
  <2>1. CASE Begin(w)
    <3>1. Others(w) /\ job'[w].step = "model" /\ job'[w].base = job[w].base /\ job'[w].model = job[w].model
      BY <2>1, BeginEffect
    <3>2. WorkerRows(w)' /\ rows' = rows
      BY <2>0, <2>1, <3>1 DEF Begin, db, WorkerRows, Sound, NoOrphans
    <3> QED BY <3>1, <3>2, SameRows DEF Others
  <2>2. ASSUME NEW k \in Tables, LoadModel(w, k) PROVE RowsInv'
    <3>1. /\ Others(w) /\ job'[w].step # "rows" /\ job'[w].model = job[w].model
          /\ job'[w].base = [x \in Entities |-> IF x \in Of(k) THEN rows[x] ELSE job[w].base[x]]
      BY <2>2, LoadModelEffect
    <3>2. rows' = rows
      BY <2>2 DEF LoadModel, db
    <3>3. Sound(job'[w].base)
      BY <2>0, <3>1 DEF WorkerRows, RowsInv, Sound
    <3>4. WorkerRows(w)'
      BY <2>0, <3>1, <3>3 DEF WorkerRows, Sound, NoOrphans
    <3> QED BY <3>1, <3>2, <3>4, SameRows DEF Others
  <2>3. ASSUME NEW k \in Tables, LoadRaw(w, k) PROVE RowsInv'
    <3>1. /\ Others(w) /\ job'[w].step # "rows" /\ job'[w].base = job[w].base
          /\ job'[w].model = job[w].model
      BY <2>3, LoadRawEffect
    <3>2. WorkerRows(w)' /\ rows' = rows
      BY <2>0, <2>3, <3>1 DEF LoadRaw, db, WorkerRows, Sound, NoOrphans
    <3> QED BY <3>1, <3>2, SameRows DEF Others
  <2>4. CASE NothingNew(w) \/ SaveCheckpoint(w) \/ Fail(w)
    <3>1. Others(w) /\ job'[w] = Idle /\ rows' = rows
      BY <2>4, IdleEffect DEF NothingNew, SaveCheckpoint, Fail, Answered, db
    <3>2. WorkerRows(w)'
      BY <3>1, EmptyMap DEF WorkerRows, Idle, Sound, NoOrphans
    <3> QED BY <3>1, <3>2, SameRows DEF Others
  <2>5. CASE Fold(w)
    <3>1. /\ job'[w].step = "rows" /\ job'[w].todo = Present(job'[w].model, Entities)
          /\ job'[w].base = job[w].base /\ job'[w].model = FoldOf(w)
          /\ \A v \in Workers \ {w} : job'[v] = job[v]
      BY <2>5, FoldEffect
    <3>2. rows' = rows /\ clock' \in Nat \ {0}
      BY <2>5 DEF Fold, db, BaseInv, TypeOK
    <3>3. Sound(job'[w].model) /\ NoOrphans(job'[w].model)
      BY <2>0, <3>1, <3>2, FoldRows DEF FoldOf, WorkerRows
    <3>4. WorkerRows(w)'
      BY <2>0, <3>1, <3>3, EntityTables DEF WorkerRows, Sound, NoOrphans, Present
    <3> QED BY <3>1, <3>2, <3>4, SameRows
  <2>6. CASE SaveSummary(w)
    <3>1. Proceed(w, job[w], "checkpoint", {}) /\ "checkpoint" \in Steps /\ rows' = rows
      BY <2>6 DEF SaveSummary, Steps
    <3>2. Others(w) /\ job'[w].step = "checkpoint" /\ job'[w].base = job[w].base /\ job'[w].model = job[w].model
      BY <3>1, SavingEffect
    <3>3. WorkerRows(w)'
      BY <2>0, <3>2 DEF WorkerRows, Sound, NoOrphans
    <3> QED BY <3>1, <3>2, <3>3, SameRows DEF Others
  <2> QED BY <1>2, <2>1, <2>2, <2>3, <2>4, <2>5, <2>6, SaveRowRows DEF Step
<1> QED BY <1>1, <1>2 DEF Next

\* What RowsInv says of what is shown: an event is in its own entity's row, and what it needs is
\* shown with it.
LEMMA ShownRows ==
  ASSUME BaseInv, RowsInv
  PROVE  /\ \A e \in Shown : e \in raw /\ e[1] \in Entities /\ e \in rows[e[1]].folded
         /\ \A e \in Shown : Needs[e] \subseteq Shown
<1>1. \A x \in Entities : rows[x].folded \subseteq raw
  BY DEF BaseInv, TypeOK, Row
<1>2. ASSUME NEW e \in Shown PROVE e \in raw /\ e[1] \in Entities /\ e \in rows[e[1]].folded
  <2>1. PICK x \in Entities : e \in rows[x].folded
    BY DEF Shown
  <2>2. e \in {Start(x), End(x)}
    BY <2>1, SoundRow DEF RowsInv
  <2>3. e[1] = x
    BY <2>2 DEF Start, End
  <2> QED BY <1>1, <2>1, <2>3
<1>3. ASSUME NEW e \in Shown PROVE Needs[e] \subseteq Shown
  <2>1. e[1] \in Entities /\ rows[e[1]].folded # {} /\ e \in RawEvents
    BY <1>2, Numbers
  <2>2. \A x \in Entities : rows[x].folded # {} => Start(x) \in Shown
    BY SoundRow DEF RowsInv, Shown
  <2>3. e[1] \in Edges => /\ Start(From[e[1]]) \in Shown /\ Start(To[e[1]]) \in Shown
    BY <2>1, <2>2, EntityTables, MaterializationAssumption DEF RowsInv, NoOrphans
  <2> QED BY <2>1, <2>2, <2>3 DEF Needs
<1> QED BY <1>2, <1>3

\* Whatever the workers do at once, the read model shows an event only when everything it needs
\* is in the log: the saved edges have their nodes, and an end has its start.
ShownIsDue == Shown \subseteq Due

THEOREM MaterializationShowsWhatIsDue == Spec => []ShownIsDue
<1>1. BaseInv /\ RowsInv => ShownIsDue
  BY ShownRows DEF ShownIsDue, Due
<1> QED BY <1>1, InitBaseInv, InitRowsInv, NextBaseInv, NextRowsInv, PTL DEF Spec

-----------------------------------------------------------------------------
(* One worker: what its steps keep. *)

LEMMA TableFacts ==
  /\ \A e : TableOf(e) \in Tables
  /\ \A e \in RawEvents, k \in Tables : e[1] \in Of(k) <=> k = TableOf(e)
  /\ \A e \in RawEvents : \A f \in Needs[e] :
       f \in RawEvents /\ Needs[f] \subseteq Needs[e] /\ f \in Needs[f]
  /\ \A e \in RawEvents : \A f \in Needs[e] :
       TableOf(f) # TableOf(e) => TableOf(e) = "edge" /\ TableOf(f) = "node"
<1>1. \A e : TableOf(e) \in Tables
  BY DEF TableOf, Tables
<1>2. \A e \in RawEvents, k \in Tables : e[1] \in Of(k) <=> k = TableOf(e)
  BY EntityTables DEF TableOf, RawEvents
<1>3. ASSUME NEW e \in RawEvents, NEW f \in Needs[e]
      PROVE  f \in RawEvents /\ Needs[f] \subseteq Needs[e] /\ f \in Needs[f]
  <2>1. /\ \A x \in Edges : x \in Entities /\ x \notin Nodes /\ From[x] \in Nodes /\ To[x] \in Nodes
        /\ \A x \in Nodes : x \in Entities /\ x \notin Edges
        /\ e[1] \in Entities
    BY EntityTables, MaterializationAssumption DEF RawEvents
  <2>2. \A x \in Entities : Start(x) \in RawEvents /\ Start(x)[1] = x
    BY DEF RawEvents, Start
  <2>3. \A x \in Nodes : Needs[Start(x)] = {Start(x)}
    BY <2>1, <2>2 DEF Needs
  <2>4. \A x \in Edges : Needs[Start(x)] = {Start(x), Start(From[x]), Start(To[x])}
    BY <2>1, <2>2 DEF Needs
  <2>5. CASE e[1] \in Edges
    <3>1. Needs[e] = {Start(e[1]), Start(From[e[1]]), Start(To[e[1]])}
      BY <2>5 DEF Needs
    <3> QED BY <2>1, <2>2, <2>3, <2>4, <2>5, <3>1
  <2>6. CASE e[1] \in Nodes
    <3>1. Needs[e] = {Start(e[1])}
      BY <2>1, <2>6 DEF Needs
    <3> QED BY <2>1, <2>2, <2>3, <2>6, <3>1
  <2> QED BY <2>1, <2>5, <2>6, EntityTables
<1>4. ASSUME NEW e \in RawEvents, NEW f \in Needs[e], TableOf(f) # TableOf(e)
      PROVE  TableOf(e) = "edge" /\ TableOf(f) = "node"
  <2>1. CASE e[1] \in Nodes
    <3>1. f = Start(e[1])
      BY <2>1, EntityTables DEF Needs
    <3> QED BY <1>4, <2>1, <3>1 DEF TableOf, Start
  <2>2. CASE e[1] \notin Nodes
    BY <1>4, <2>2 DEF TableOf
  <2> QED BY <2>1, <2>2
<1> QED BY <1>1, <1>2, <1>3, <1>4

\* What a missing event needs is in the raw tables, and itself shown or missing.
LEMMA MissingFacts ==
  ASSUME BaseInv
  PROVE  \A e \in Missing :
           /\ e \in raw /\ e \in RawEvents /\ at[e] \in Nat /\ at[e] <= newest
           /\ \A f \in Needs[e] : f \in Shown \/ f \in Missing
<1> SUFFICES ASSUME NEW e \in Missing
             PROVE  /\ e \in raw /\ e \in RawEvents /\ at[e] \in Nat /\ at[e] <= newest
                    /\ \A f \in Needs[e] : f \in Shown \/ f \in Missing
  OBVIOUS
<1>1. e \in raw /\ Needs[e] \subseteq raw /\ e \in RawEvents
  BY Numbers DEF Missing, Due
<1>2. at[e] \in Nat /\ at[e] <= newest
  BY <1>1, Numbers DEF BaseInv
<1>3. ASSUME NEW f \in Needs[e], f \notin Shown PROVE f \in Missing
  BY <1>1, <1>3, TableFacts DEF Missing, Due
<1> QED BY <1>1, <1>2, <1>3

\* The events a query of the raw events finds.
LEMMA AfterFacts ==
  ASSUME BaseInv, NEW cp \in [node : Times, edge : Times], NEW k \in Tables
  PROVE  /\ \A e \in After(k, cp) : e \in raw /\ TableOf(e) = k /\ at[e] >= cp[k] - Lookback
         /\ \A e \in raw : TableOf(e) = k /\ at[e] >= cp[k] - Lookback => e \in After(k, cp)
<1>1. cp[k] \in Nat /\ Lookback \in Nat
  <2>1. cp[k] \in Times
    BY DEF Tables
  <2> QED BY <2>1, Numbers, MaterializationAssumption
<1> DEFINE back == cp[k] - Lookback
           since == Max({0, back})
<1>2. since \in {0, back} /\ since >= 0 /\ since >= back
  <2>1. back \in Int /\ 0 \in Int
    BY <1>1
  <2> HIDE DEF back
  <2> QED BY <2>1, MaxOfTwo
<1>3. After(k, cp) = {e \in raw : e[1] \in Of(k) /\ at[e] >= since}
  BY DEF After
<1>4. \A e \in raw : e \in RawEvents /\ at[e] \in Nat
  BY Numbers
<1>5. back \in Int
  BY <1>1
<1> HIDE DEF since
<1>6. \A e \in raw : at[e] >= since <=> at[e] >= back
  <2> HIDE DEF back
  <2> QED BY <1>2, <1>4, <1>5
<1> QED BY <1>3, <1>4, <1>6, TableFacts

LEMMA SkippedOf ==
  ASSUME BaseInv
  PROVE  NothingSkipped <=> \A e \in Missing : at[e] >= checkpoint[TableOf(e)] - Lookback
<1>1. \A e \in Missing : e \in RawEvents
  BY MissingFacts
<1> QED BY <1>1, TableFacts DEF NothingSkipped, Missing

\* A recent event is in reach of the next rebuild, whatever the checkpoint will be.
LEMMA Recent ==
  ASSUME BaseInv, NEW w \in Workers, NEW e \in raw, at[e] >= newest - Drift - Lateness
  PROVE  InReach(w, e) /\ at[e] >= checkpoint[TableOf(e)] - Lookback
<1>1. /\ NextTime(w, TableOf(e)) \in Nat /\ NextTime(w, TableOf(e)) <= newest
      /\ newest \in Nat /\ at[e] \in Nat
  BY NextTimes, Numbers, TableFacts
<1>2. checkpoint[TableOf(e)] \in Nat /\ checkpoint[TableOf(e)] <= newest
  <2>1. checkpoint[TableOf(e)] \in Times
    BY TableFacts DEF BaseInv, TypeOK, Tables
  <2> QED BY <2>1, Numbers
<1>3. Lookback \in Nat /\ Lateness \in Nat /\ Drift \in Nat /\ Lateness + Drift <= Lookback
  BY MaterializationAssumption
<1> QED BY <1>1, <1>2, <1>3 DEF InReach

LEMMA WriteNewest ==
  ASSUME BaseInv, NEW e \in RawEvents, Write(e)
  PROVE  newest' \in Nat /\ newest' >= newest
<1>1. newest \in Int /\ at[e] \in Int /\ newest \in Nat /\ at[e] \in Nat
  BY Numbers DEF Write
<1>2. Max({newest, at[e]}) \in {newest, at[e]} /\ Max({newest, at[e]}) >= newest
  BY <1>1, MaxOfTwo
<1>3. newest' = Max({newest, at[e]})
  BY DEF Write
<1> QED BY <1>1, <1>2, <1>3

\* What can be folded only since this write is in time.
LEMMA WriteIsInTime ==
  ASSUME BaseInv, NEW e \in RawEvents, Write(e)
  PROVE  /\ Shown' = Shown
         /\ \A f \in Missing' \ Missing : f \in raw' /\ at[f] >= newest' - Lateness
<1>1. /\ raw' = raw \cup {e} /\ rows' = rows /\ at' = at /\ e \in DOMAIN at \ raw
      /\ newest' = Max({newest, at[e]})
      /\ \A f \in {e} \cup Awaiting(e) : at[f] >= newest' - Lateness
  BY DEF Write, InTime, db
<1>2. Shown' = Shown
  BY <1>1 DEF Shown
<1>3. ASSUME NEW f \in Missing' \ Missing PROVE f \in raw' /\ at[f] >= newest' - Lateness
  <2>1. f \in raw' /\ Needs[f] \subseteq raw' /\ ~(f \in raw /\ Needs[f] \subseteq raw)
    BY <1>2, <1>3 DEF Missing, Due
  <2>2. CASE f = e
    BY <1>1, <2>1, <2>2
  <2>3. CASE f # e
    <3>1. f \in raw /\ e \in Needs[f] /\ f \in RawEvents
      BY <1>1, <2>1, <2>3, Numbers
    <3>2. CASE f[1] \in Edges
      BY <1>1, <2>1, <3>1, <3>2 DEF Awaiting
    <3>3. CASE f[1] \notin Edges
      <4>1. e = Start(f[1]) /\ f[1] \in Entities
        BY <3>1, <3>3 DEF Needs, RawEvents
      <4>2. f = End(f[1])
        BY <2>3, <3>1, <4>1 DEF RawEvents, Start, End
      <4>3. f \in DOMAIN at /\ e \in DOMAIN at /\ at \in Schedules
        BY <1>1, <3>1 DEF BaseInv, TypeOK
      <4>4. at[e] <= at[f]
        BY <4>1, <4>2, <4>3, MaterializationAssumption
      <4>5. at[e] >= newest' - Lateness /\ at[e] \in Nat /\ at[f] \in Nat /\ newest \in Nat
        BY <1>1, <4>3, Numbers
      <4>6. newest' \in Nat /\ Lateness \in Nat
        BY WriteNewest, MaterializationAssumption
      <4> QED BY <2>1, <4>4, <4>5, <4>6
    <3> QED BY <3>2, <3>3
  <2> QED BY <2>2, <2>3
<1> QED BY <1>2, <1>3

LEMMA RunningHasTrigger ==
  ASSUME BaseInv, NEW w \in Workers
  PROVE  /\ requests \in Nat
         /\ job[w].step # "idle" => requests >= 1
         /\ job[w].step = "idle" => job[w].todo = {} /\ job[w].batch = {}
<1>1. requests \in Nat /\ requests >= Cardinality(Busy) /\ Cardinality(Busy) \in Nat /\ IsFiniteSet(Busy)
  BY BusyFinite DEF BaseInv, TypeOK
<1>2. ASSUME job[w].step # "idle" PROVE requests >= 1
  <2>1. Cardinality(Busy) # 0
    BY <1>1, <1>2, FS_EmptySet DEF Busy
  <2> QED BY <1>1, <2>1
<1>3. job[w].step = "idle" => job[w].todo = {} /\ job[w].batch = {}
  BY DEF BaseInv, Idle
<1> QED BY <1>1, <1>2, <1>3

\* A write: what it makes due is recent, and it is still to be announced.
LEMMA WriteOneInv ==
  ASSUME BaseInv, RowsInv, BaseInv', NEW w \in Workers, OneInv(w), NEW e \in RawEvents, Write(e)
  PROVE  OneInv(w)'
<1>0. /\ LoadedInv(w) /\ BatchInv(w) /\ FreshInv(w) /\ SaveInv(w) /\ CountInv(w)
      /\ NothingSkipped /\ RestInv
  BY DEF OneInv
<1>1. /\ raw' = raw \cup {e} /\ UNCHANGED <<at, requests, clock, faults, job>> /\ UNCHANGED <<rows, summary, checkpoint>>
      /\ unannounced' = unannounced \cup {e} 
      /\ (job[w].step = "raw" /\ job[w].todo = {"edge"} => newest' <= job[w].mark + Drift)
  BY DEF Write, InTime, db
<1>2. newest \in Nat /\ newest' \in Nat /\ newest' >= newest /\ Lateness \in Nat /\ Drift \in Nat
  BY Numbers, WriteNewest, MaterializationAssumption
<1>3. /\ Shown' = Shown
      /\ \A f \in Missing' \ Missing : f \in raw' /\ at[f] >= newest' - Lateness
  BY WriteIsInTime
<1>4. \A k \in Tables : NextTime(w, k)' = NextTime(w, k)
  BY <1>1 DEF NextTime
<1>5. \A f : InReach(w, f) <=> InReach(w, f)'
  BY <1>1, <1>4, TableFacts DEF InReach
<1>6. \A f \in Missing' \ Missing : InReach(w, f)' /\ at[f] >= checkpoint[TableOf(f)] - Lookback
  <2> SUFFICES ASSUME NEW f \in Missing' \ Missing
               PROVE  InReach(w, f) /\ at[f] >= checkpoint[TableOf(f)] - Lookback
    BY <1>5
  <2>1. at[f] \in Nat /\ at[f] >= newest - Drift - Lateness
    <3>1. at[f] \in Nat
      BY <1>1, <1>3, Numbers DEF BaseInv, TypeOK
    <3>2. at[f] >= newest' - Lateness
      BY <1>3
    <3> QED BY <1>2, <3>1, <3>2
  <2>2. /\ NextTime(w, TableOf(f)) \in Nat /\ NextTime(w, TableOf(f)) <= newest
        /\ checkpoint[TableOf(f)] \in Nat /\ checkpoint[TableOf(f)] <= newest
    <3>1. checkpoint[TableOf(f)] \in Times /\ NextTime(w, TableOf(f)) \in Times
      BY NextTimes, TableFacts DEF BaseInv, TypeOK, Tables
    <3> QED BY <3>1, Numbers
  <2>3. Lookback \in Nat /\ Lateness + Drift <= Lookback
    BY MaterializationAssumption
  <2> QED BY <1>2, <2>1, <2>2, <2>3 DEF InReach
<1>7. LoadedInv(w)'
  BY <1>0, <1>1 DEF LoadedInv, LoadCheckpoint, TableOf
<1>8. BatchInv(w)'
  <2>1. ASSUME NEW f \in Missing', Asked(w, TableOf(f))
        PROVE  \/ f \in job[w].batch /\ \A g \in Needs[f] :
                    Asked(w, TableOf(g)) => g \in Shown \cup job[w].batch
               \/ InReach(w, f)
    BY <1>0, <1>5, <1>6, <2>1 DEF BatchInv
  <2>2. ASSUME job[w].step = "raw", job[w].todo = {"edge"}, NEW f \in Missing', NEW g \in Needs[f],
               TableOf(f) = "edge", TableOf(g) = "node"
        PROVE  g \in Shown \cup job[w].batch \/ at[f] >= job[w].mark - Lateness
    <3>1. CASE f \in Missing
      BY <1>0, <2>2, <3>1 DEF BatchInv
    <3>2. CASE f \notin Missing
      <4>1. at[f] >= newest' - Lateness /\ at[f] \in Nat
        BY <1>1, <1>3, <3>2, Numbers DEF BaseInv, TypeOK
      <4>2. job[w].mark \in Nat /\ job[w].mark <= newest
        BY JobFields, Numbers
      <4> QED BY <1>2, <4>1, <4>2
    <3> QED BY <3>1, <3>2
  <2>3. job[w].step = "raw" /\ job[w].todo = {"edge"} => newest' <= job[w].mark + Drift
    BY <1>1
  <2>4. \A k : Asked(w, k)' <=> Asked(w, k)
    BY <1>1 DEF Asked
  <2> QED BY <1>1, <1>3, <1>5, <2>1, <2>2, <2>3, <2>4 DEF BatchInv, TableOf
<1>9. FreshInv(w)' /\ RestInv'
  BY <1>1 DEF FreshInv, RestInv
<1>10. SaveInv(w)'
  <2>1. ASSUME job[w].step \in {"rows", "checkpoint"}, NEW f \in Missing'
        PROVE  \/ f[1] \in job[w].todo /\ f \in job[w].model[f[1]].folded
               \/ InReach(w, f)'
    BY <1>0, <1>5, <1>6, <2>1 DEF SaveInv
  <2>2. unannounced' # {}
    BY <1>1
  <2> QED BY <1>0, <1>1, <2>1, <2>2 DEF SaveInv
<1>11. CountInv(w)'
  <2>1. \A k \in Tables : \A cp : After(k, cp) \subseteq After(k, cp)'
    BY <1>1 DEF After
  <2>2. Counted' = Counted /\ LoadCheckpoint' = LoadCheckpoint
    BY <1>1 DEF Counted, LoadCheckpoint, Present
  <2>3. \A k \in job[w].todo : After(k, LoadCheckpoint) \subseteq After(k, LoadCheckpoint)'
    BY <1>1, <2>2 DEF After
  <2> QED BY <1>0, <1>1, <2>1, <2>2, <2>3 DEF CountInv
<1>12. NothingSkipped'
  <2>1. \A f \in Missing' : at[f] >= checkpoint[TableOf(f)] - Lookback
    BY <1>0, <1>6, SkippedOf
  <2>2. \A f \in Missing' : f \in RawEvents
    BY <1>1, Numbers DEF Missing, Due
  <2>3. NothingSkipped' <=> \A f \in Missing' : at'[f] >= checkpoint'[TableOf(f)] - Lookback
    BY <2>2, TableFacts DEF NothingSkipped, Missing
  <2> QED BY <1>1, <2>1, <2>3
<1> QED BY <1>7, <1>8, <1>9, <1>10, <1>11, <1>12 DEF OneInv

\* A trigger: while w runs, its own is not the last.
LEMMA TriggerOneInv ==
  ASSUME BaseInv, RowsInv, NEW w \in Workers, OneInv(w), Announce \/ Redeliver
  PROVE  OneInv(w)'
<1>0. /\ LoadedInv(w) /\ BatchInv(w) /\ FreshInv(w) /\ SaveInv(w) /\ CountInv(w)
      /\ NothingSkipped /\ RestInv
  BY DEF OneInv
<1>1. /\ UNCHANGED <<at, raw, newest, rows, summary, checkpoint, clock, job>>
      /\ requests' = requests + 1
  BY DEF Announce, Redeliver, Trigger, env, db
<1>2. requests \in Nat /\ (job[w].step # "idle" => requests >= 1)
  BY RunningHasTrigger
<1>3. Shown' = Shown /\ Missing' = Missing
  BY <1>1 DEF Shown, Missing, Due
<1>4. (\A k \in Tables : NextTime(w, k)' = NextTime(w, k)) /\ \A f : InReach(w, f)' <=> InReach(w, f)
  BY <1>1, TableFacts DEF InReach, NextTime, TableOf
<1>5. \A k : Asked(w, k)' <=> Asked(w, k)
  BY <1>1 DEF Asked
<1>6. LoadedInv(w)'
  BY <1>0, <1>1 DEF LoadedInv, LoadCheckpoint, TableOf
<1>7. BatchInv(w)'
  BY <1>0, <1>1, <1>3, <1>4, <1>5 DEF BatchInv, TableOf
<1>8. FreshInv(w)'
  BY <1>1, <1>2 DEF FreshInv, Asked
<1>9. SaveInv(w)'
  BY <1>0, <1>1, <1>2, <1>3, <1>4 DEF SaveInv
<1>10. CountInv(w)'
  <2>1. Counted' = Counted /\ LoadCheckpoint' = LoadCheckpoint
    BY <1>1 DEF Counted, Present, LoadCheckpoint
  <2>2. \A k, cp : After(k, cp)' = After(k, cp)
    BY <1>1 DEF After
  <2> QED BY <1>0, <1>1, <1>2, <2>1, <2>2 DEF CountInv
<1>11. NothingSkipped' /\ RestInv'
  BY <1>0, <1>1, <1>2, <1>3 DEF NothingSkipped, RestInv, Missing
<1> QED BY <1>6, <1>7, <1>8, <1>9, <1>10, <1>11 DEF OneInv

\* What the steps of a rebuild that only load do not touch.
LoadFrame == UNCHANGED env /\ UNCHANGED <<requests, rows, summary, checkpoint>>

LEMMA Framed ==
  ASSUME LoadFrame
  PROVE  /\ Shown' = Shown /\ Missing' = Missing /\ Counted' = Counted
         /\ LoadCheckpoint' = LoadCheckpoint
         /\ \A k, cp : After(k, cp)' = After(k, cp)
         /\ NothingSkipped' = NothingSkipped /\ RestInv' = RestInv
<1>1. /\ UNCHANGED <<at, raw, newest, unannounced>> /\ UNCHANGED <<requests, rows, summary, checkpoint>>
  BY DEF LoadFrame, env
<1>2. Shown' = Shown /\ Due' = Due
  BY <1>1 DEF Shown, Due
<1> QED BY <1>1, <1>2 DEF Missing, Counted, Present, LoadCheckpoint, After, NothingSkipped, RestInv

LEMMA BeginOneInv ==
  ASSUME BaseInv, RowsInv, NEW w \in Workers, OneInv(w), Begin(w)
  PROVE  OneInv(w)'
<1>0. CountInv(w) /\ NothingSkipped /\ RestInv
  BY DEF OneInv
<1>1. LoadFrame
  BY DEF Begin, LoadFrame, db
<1>2. /\ job'[w].step = "model" /\ job'[w].todo = Tables /\ job'[w].cp = LoadCheckpoint
      /\ job'[w].batch = {}
  BY BeginEffect, RunningHasTrigger DEF Begin
<1>3. LoadedInv(w)'
  BY <1>1, <1>2, Framed, TableFacts DEF LoadedInv, TableOf
<1>4. BatchInv(w)' /\ FreshInv(w)' /\ SaveInv(w)'
  BY <1>2 DEF BatchInv, FreshInv, SaveInv, Asked
<1>5. CountInv(w)'
  <2>1. requests # 0 /\ requests' = requests
    BY <1>1, BusyFinite DEF Begin, Busy, LoadFrame
  <2> QED BY <1>0, <1>1, <1>2, <2>1, Framed DEF CountInv
<1> QED BY <1>0, <1>1, <1>3, <1>4, <1>5, Framed DEF OneInv

LEMMA LoadModelOneInv ==
  ASSUME BaseInv, RowsInv, NEW w \in Workers, OneInv(w), NEW k \in Tables, LoadModel(w, k)
  PROVE  OneInv(w)'
<1>0. LoadedInv(w) /\ CountInv(w) /\ NothingSkipped /\ RestInv
  BY DEF OneInv
<1>1. LoadFrame /\ job[w].step = "model" /\ k \in job[w].todo
  BY DEF LoadModel, LoadFrame, db
<1>2. /\ job'[w].cp = job[w].cp /\ job'[w].batch = job[w].batch
      /\ IF job[w].todo = {k} THEN job'[w].step = "raw" /\ job'[w].todo = Tables
         ELSE job'[w].step = "model" /\ job'[w].todo = job[w].todo \ {k}
      /\ job'[w].base = [x \in Entities |-> IF x \in Of(k) THEN rows[x] ELSE job[w].base[x]]
  BY LoadModelEffect
<1>3. LoadedInv(w)'
  <2>1. ASSUME NEW x \in Entities,
               \/ job'[w].step = "model" /\ TableOf(<<x, 0>>) \notin job'[w].todo
               \/ job'[w].step \in {"raw", "fold"}
        PROVE  job'[w].base[x] = rows'[x]
    <3>1. job'[w].base[x] = IF x \in Of(k) THEN rows[x] ELSE job[w].base[x]
      BY <1>2
    <3>2. x \in Of(k) <=> k = TableOf(<<x, 0>>)
      BY TableFacts DEF RawEvents
    <3>3. CASE x \in Of(k)
      BY <1>1, <3>1, <3>3 DEF LoadFrame
    <3>4. CASE x \notin Of(k)
      <4>1. job[w].base[x] = rows[x]
        BY <1>0, <1>1, <1>2, <2>1, <3>2, <3>4 DEF LoadedInv
      <4> QED BY <1>1, <3>1, <3>4, <4>1 DEF LoadFrame
    <3> QED BY <3>3, <3>4
  <2>2. UNCHANGED <<at, LoadCheckpoint>>
    BY <1>1, Framed DEF LoadFrame, env
  <2>3. job'[w].todo \subseteq Tables
    BY <1>0, <1>1, <1>2 DEF LoadedInv
  <2> QED BY <1>0, <1>1, <1>2, <2>1, <2>2, <2>3 DEF LoadedInv, TableOf
<1>4. BatchInv(w)' /\ FreshInv(w)' /\ SaveInv(w)'
  BY <1>2, TableFacts DEF BatchInv, FreshInv, SaveInv, Asked, Tables, TableOf
<1>5. CountInv(w)'
  BY <1>0, <1>1, <1>2, Framed DEF CountInv, LoadFrame
<1> QED BY <1>0, <1>1, <1>3, <1>4, <1>5, Framed DEF OneInv

\* A query of raw events finds all that is missing.  An edge event it loads may lack the start of
\* a node that came after the node query; then the edge event is no further back from newest
\* than Lateness and Drift.
LEMMA LoadRawOneInv ==
  ASSUME BaseInv, RowsInv, NEW w \in Workers, OneInv(w), NEW k \in Tables, LoadRaw(w, k)
  PROVE  OneInv(w)'
<1>0. LoadedInv(w) /\ BatchInv(w) /\ FreshInv(w) /\ CountInv(w) /\ NothingSkipped /\ RestInv
  BY DEF OneInv
<1>1. LoadFrame /\ job[w].step = "raw" /\ k \in job[w].todo
  BY DEF LoadRaw, LoadFrame, db
<1>2. /\ job'[w].cp = job[w].cp /\ job'[w].base = job[w].base
      /\ IF job[w].todo = {k} THEN job'[w].step = "fold" /\ job'[w].todo = {}
         ELSE job'[w].step = "raw" /\ job'[w].todo = job[w].todo \ {k}
      /\ job'[w].batch = job[w].batch \cup After(k, job[w].cp)
      /\ job'[w].mark = IF k = "node" THEN newest ELSE job[w].mark
  BY LoadRawEffect
<1>3. /\ UNCHANGED <<at, raw, newest, unannounced, requests, rows, summary, checkpoint>>
      /\ job[w].cp = LoadCheckpoint /\ job[w].batch \subseteq raw
  BY <1>0, <1>1, JobFields DEF LoadFrame, env, LoadedInv
<1>4. \A j \in Tables : Asked(w, j)' <=> Asked(w, j) \/ j = k
  BY <1>1, <1>2 DEF Asked
<1>5. /\ \A e \in After(k, job[w].cp) :
           e \in raw /\ TableOf(e) = k /\ at[e] >= job[w].cp[k] - Lookback
      /\ \A e \in raw : TableOf(e) = k /\ at[e] >= job[w].cp[k] - Lookback => e \in After(k, job[w].cp)
  BY JobFields, AfterFacts
<1>6. \A e \in Missing : TableOf(e) = k => e \in job'[w].batch
  <2>1. ASSUME NEW e \in Missing, TableOf(e) = k PROVE at[e] >= job[w].cp[k] - Lookback
    BY <1>0, <1>3, <2>1, SkippedOf DEF LoadCheckpoint, Tables
  <2>2. \A e \in Missing : e \in raw
    BY MissingFacts
  <2> QED BY <1>2, <1>5, <2>1, <2>2
<1>7. \A e : TableOf(e) # k /\ e \in RawEvents => (InReach(w, e)' <=> InReach(w, e))
  <2>1. ASSUME NEW j \in Tables, j # k PROVE NextTime(w, j)' = NextTime(w, j)
    <3>1. \A e \in After(k, job[w].cp) : e[1] \notin Of(j)
      BY <1>5, <2>1, Numbers, TableFacts
    <3>2. {f \in job'[w].batch : f[1] \in Of(j)} = {f \in job[w].batch : f[1] \in Of(j)}
      BY <1>2, <3>1
    <3> QED BY <1>2, <1>3, <3>2 DEF NextTime
  <2> QED BY <1>3, <2>1, TableFacts DEF InReach, TableOf
<1>8. Shown' = Shown /\ Missing' = Missing
  BY <1>1, Framed
<1>9. LoadedInv(w)'
  <2>1. \A e \in job'[w].batch : at[e] >= job[w].cp[TableOf(e)] - Lookback
    BY <1>0, <1>2, <1>5 DEF LoadedInv
  <2>2. job'[w].step = "raw" => job'[w].todo \subseteq Tables
    BY <1>0, <1>1, <1>2 DEF LoadedInv
  <2> QED BY <1>0, <1>1, <1>2, <1>3, <2>1, <2>2 DEF LoadedInv, LoadCheckpoint, TableOf
<1>10. FreshInv(w)'
  <2> SUFFICES ASSUME requests = 1, unannounced = {}, NEW j \in Tables, Asked(w, j)'
               PROVE  After(j, job[w].cp)' \subseteq job'[w].batch
    BY <1>3 DEF FreshInv
  <2>1. After(j, job[w].cp)' = After(j, job[w].cp)
    BY <1>2, <1>3 DEF After
  <2>2. CASE j = k
    BY <1>2, <2>1, <2>2
  <2>3. CASE j # k
    BY <1>0, <1>2, <1>4, <2>1, <2>3 DEF FreshInv
  <2> QED BY <2>2, <2>3
<1>11. SaveInv(w)'
  BY <1>2 DEF SaveInv
<1>12. CountInv(w)'
  <2>1. \A j \in Tables : After(j, LoadCheckpoint)' = After(j, LoadCheckpoint)
    BY <1>3 DEF After, LoadCheckpoint
  <2>2. job[w].todo = {k} \/ (job[w].todo # {k} /\ job'[w].todo = job[w].todo \ {k})
    BY <1>2
  <2>3. Counted' = Counted /\ requests' = requests
    BY <1>3 DEF Counted, Present
  <2>4. requests # 0
    BY <1>1, RunningHasTrigger
  <2>5. ASSUME ~Counted
        PROVE  /\ \E j \in Tables : After(j, LoadCheckpoint) # {}
               /\ job'[w].batch # {} \/ \E j \in job[w].todo \ {k} : After(j, LoadCheckpoint) # {}
    BY <1>0, <1>1, <1>2, <1>3, <2>5 DEF CountInv
  <2>6. job[w].todo \ {k} \subseteq Tables \/ \A j \in job[w].todo : After(j, LoadCheckpoint)' = After(j, LoadCheckpoint)
    BY <1>3 DEF After, LoadCheckpoint
  <2> QED BY <1>2, <2>1, <2>2, <2>3, <2>4, <2>5, <2>6 DEF CountInv
<1>13. BatchInv(w)'
  <2>1. ASSUME NEW e \in Missing, Asked(w, TableOf(e))'
        PROVE  \/ e \in job'[w].batch /\ \A f \in Needs[e] :
                    Asked(w, TableOf(f))' => f \in Shown \cup job'[w].batch
               \/ InReach(w, e)'
    <3>1. /\ e \in RawEvents /\ at[e] \in Nat /\ at[e] <= newest
          /\ \A f \in Needs[e] : f \in Shown \/ f \in Missing
      BY MissingFacts
    <3>2. CASE InReach(w, e) /\ TableOf(e) # k
      BY <1>7, <3>1, <3>2
    <3>3. CASE TableOf(e) # k /\ ~InReach(w, e)
      <4>1. Asked(w, TableOf(e))
        BY <1>4, <2>1, <3>3, TableFacts
      <4>2. e \in job[w].batch /\ \A f \in Needs[e] : Asked(w, TableOf(f)) => f \in Shown \cup job[w].batch
        BY <1>0, <3>3, <4>1 DEF BatchInv
      <4> QED BY <1>2, <1>4, <1>6, <3>1, <4>2, TableFacts
    <3>4. CASE TableOf(e) = k
      <4>1. e \in job'[w].batch
        BY <1>6, <3>4
      <4>2. ASSUME NEW f \in Needs[e], Asked(w, TableOf(f))', f \notin Shown \cup job'[w].batch
            PROVE  InReach(w, e)'
        <5>1. f \in Missing /\ TableOf(f) # k
          BY <1>6, <3>1, <4>2
        <5>2. k = "edge" /\ TableOf(f) = "node" /\ job[w].todo = {"edge"}
          <6>1. Asked(w, TableOf(f))
            BY <1>4, <4>2, <5>1, TableFacts
          <6>2. TableOf(f) \notin job[w].todo
            BY <1>1, <6>1 DEF Asked
          <6>3. k = "edge" /\ TableOf(f) = "node"
            BY <3>1, <3>4, <5>1, TableFacts, MissingFacts DEF Tables
          <6>4. job[w].todo \subseteq Tables
            BY <1>1, <1>0 DEF LoadedInv
          <6> QED BY <1>1, <6>2, <6>3, <6>4 DEF Tables
        <5>3. f \notin Shown \cup job[w].batch
          BY <1>2, <4>2
        <5>4. newest <= job[w].mark + Drift /\ at[e] >= job[w].mark - Lateness
          BY <1>0, <1>1, <3>4, <5>2, <5>3 DEF BatchInv
        <5>5. job[w].mark \in Nat /\ newest \in Nat /\ Lookback \in Nat /\ Lateness \in Nat /\ Drift \in Nat
              /\ Lateness + Drift <= Lookback
          BY JobFields, Numbers, MaterializationAssumption
        <5>6. NextTime(w, k)' \in Nat /\ NextTime(w, k)' <= newest
          <6>1. job'[w].batch \in SUBSET raw /\ job'[w].cp \in [node : Times, edge : Times]
            BY <1>2, <1>3, JobFields DEF After
          <6>2. NextTime(w, k)' = LatestOf(job'[w].batch, job'[w].cp, k)
            BY <1>3 DEF NextTime, LatestOf
          <6> QED BY <6>1, <6>2, LatestTimes, Numbers
        <5>7. at[e] >= NextTime(w, k)' - Lookback
          <6> HIDE DEF NextTime
          <6> QED BY <3>1, <5>4, <5>5, <5>6
        <5> QED BY <1>3, <3>4, <5>7 DEF InReach, TableOf
      <4> QED BY <4>1, <4>2
    <3> QED BY <3>2, <3>3, <3>4
  <2>2. ASSUME job'[w].step = "raw", job'[w].todo = {"edge"}
        PROVE  /\ newest <= job'[w].mark + Drift
               /\ \A e \in Missing : \A f \in Needs[e] :
                    TableOf(e) = "edge" /\ TableOf(f) = "node" =>
                      f \in Shown \cup job'[w].batch \/ at[e] >= job'[w].mark - Lateness
    <3>1. k = "node"
      BY <1>1, <1>2, <2>2 DEF Tables
    <3>2. job'[w].mark = newest
      BY <1>2, <3>1
    <3>3. newest \in Nat /\ Drift \in Nat
      BY Numbers, MaterializationAssumption
    <3>4. \A e \in Missing : \A f \in Needs[e] : TableOf(f) = "node" => f \in Shown \cup job'[w].batch
      BY <1>6, <3>1, MissingFacts
    <3> QED BY <3>2, <3>3, <3>4
  <2>3. UNCHANGED <<Missing, Shown, newest>> /\ \A e : TableOf(e)' = TableOf(e)
    BY <1>3, <1>8 DEF TableOf
  <2>4. (\A e \in Missing :
           Asked(w, TableOf(e)) =>
             \/ e \in job[w].batch /\ \A f \in Needs[e] :
                  Asked(w, TableOf(f)) => f \in Shown \cup job[w].batch
             \/ InReach(w, e))'
    BY <2>1, <2>3
  <2>5. (job[w].step = "raw" /\ job[w].todo = {"edge"} =>
           /\ newest <= job[w].mark + Drift
           /\ \A e \in Missing : \A f \in Needs[e] :
                TableOf(e) = "edge" /\ TableOf(f) = "node" =>
                  f \in Shown \cup job[w].batch \/ at[e] >= job[w].mark - Lateness)'
    BY <1>3, <2>2, <2>3
  <2> QED BY <2>4, <2>5, Zenon DEF BatchInv
<1> QED BY <1>0, <1>1, <1>9, <1>10, <1>11, <1>12, <1>13, Framed DEF OneInv

\* A rebuild that is over keeps nothing that could be stale.
LEMMA Idles ==
  ASSUME NEW w \in Workers, job'[w] = Idle
  PROVE  LoadedInv(w)' /\ BatchInv(w)' /\ FreshInv(w)' /\ SaveInv(w)'
<1>1. job'[w].step = "idle" /\ job'[w].batch = {}
  BY DEF Idle
<1> QED BY <1>1 DEF LoadedInv, BatchInv, FreshInv, SaveInv, Asked

\* The batch is empty: no raw event after the checkpoint, so none missing.
LEMMA NothingNewOneInv ==
  ASSUME BaseInv, RowsInv, NEW w \in Workers, OneInv(w), NothingNew(w)
  PROVE  OneInv(w)'
<1>0. LoadedInv(w) /\ FreshInv(w) /\ CountInv(w) /\ NothingSkipped
  BY DEF OneInv
<1>1. /\ UNCHANGED <<at, raw, newest, unannounced, rows, summary, checkpoint>>
      /\ requests' = requests - 1 /\ job[w].step = "fold" /\ job[w].batch = {}
  BY DEF NothingNew, Answered, env, db
<1>2. job'[w] = Idle /\ Idle.step = "idle"
  BY IdleEffect DEF NothingNew, Answered
<1>3. Shown' = Shown /\ Missing' = Missing
  BY <1>1 DEF Shown, Missing, Due
<1>4. Counted /\ Counted'
  BY <1>0, <1>1 DEF CountInv, Counted, Present
<1>5. ASSUME requests = 1, unannounced = {} PROVE Missing = {}
  <2> SUFFICES ASSUME NEW e \in Missing PROVE FALSE
    OBVIOUS
  <2>1. e \in raw /\ at[e] >= LoadCheckpoint[TableOf(e)] - Lookback
    BY <1>0, MissingFacts, SkippedOf, TableFacts DEF LoadCheckpoint, Tables
  <2>2. LoadCheckpoint = job[w].cp /\ job[w].cp \in [node : Times, edge : Times]
    BY <1>0, <1>1, JobFields DEF LoadedInv
  <2>3. e \in After(TableOf(e), job[w].cp)
    BY <2>1, <2>2, AfterFacts, TableFacts
  <2>4. After(TableOf(e), job[w].cp) \subseteq job[w].batch
    BY <1>0, <1>1, <1>5, TableFacts DEF FreshInv, Asked
  <2> QED BY <1>1, <2>3, <2>4
<1>6. RestInv'
  BY <1>1, <1>3, <1>5, RunningHasTrigger DEF RestInv
<1>7. NothingSkipped'
  BY <1>0, <1>1, <1>3 DEF NothingSkipped, Missing
<1>8. CountInv(w)'
  BY <1>4 DEF CountInv
<1> HIDE DEF Idle
<1> QED BY <1>2, <1>6, <1>7, <1>8, Idles DEF OneInv

\* A failure leaves the trigger unanswered, and what was saved so far as it is.
LEMMA FailOneInv ==
  ASSUME BaseInv, RowsInv, NEW w \in Workers, OneInv(w), Fail(w)
  PROVE  OneInv(w)'
<1>0. CountInv(w) /\ NothingSkipped /\ RestInv
  BY DEF OneInv
<1>1. LoadFrame /\ job[w].step # "idle"
  BY DEF Fail, LoadFrame, db
<1>2. job'[w] = Idle /\ Idle.step = "idle"
  BY IdleEffect DEF Fail
<1>3. requests # 0 /\ requests' = requests
  BY <1>1, RunningHasTrigger DEF LoadFrame
<1> HIDE DEF Idle
<1>4. CountInv(w)'
  BY <1>0, <1>1, <1>2, <1>3, Framed DEF CountInv
<1> QED BY <1>0, <1>1, <1>2, <1>4, Idles, Framed DEF OneInv

\* What a fold over the rows as they are makes of an event it loaded.
LEMMA FoldHas ==
  ASSUME BaseInv, RowsInv, NEW w \in Workers, LoadedInv(w), job[w].step = "fold"
  PROVE  /\ \A x \in Entities : rows[x].folded \subseteq FoldedMap(job[w].base, job[w].batch, clock')[x].folded
         /\ \A x \in Entities : \/ FoldOf(w)[x] = NoRow
                                \/ FoldOf(w)[x] = rows[x]
                                \/ FoldOf(w)[x].ver = clock' /\ rows[x].folded \subseteq FoldOf(w)[x].folded
         /\ \A x \in Entities : rows[x].folded # {} => FoldOf(w)[x].folded # {}
         /\ \A e \in job[w].batch : Needs[e] \subseteq Shown \cup job[w].batch =>
              e \in FoldOf(w)[e[1]].folded
<1> DEFINE m == FoldedMap(job[w].base, job[w].batch, clock')
<1>1. \A x \in Entities : job[w].base[x] = rows[x]
  BY DEF LoadedInv
<1>2. ASSUME NEW x \in Entities
      PROVE  /\ rows[x].folded \subseteq m[x].folded
             /\ m[x] = rows[x] \/ m[x].ver = clock'
             /\ Applied(x, rows[x].folded, job[w].batch) \subseteq m[x].folded
  <2> DEFINE applied == Applied(x, rows[x].folded, job[w].batch)
  <2>1. m[x] = IF applied = {} THEN rows[x] ELSE [ver |-> clock', folded |-> rows[x].folded \cup applied]
    BY <1>1 DEF FoldedMap
  <2> HIDE DEF applied, m
  <2>2. rows[x].folded \subseteq m[x].folded /\ (m[x] = rows[x] \/ m[x].ver = clock') /\ applied \subseteq m[x].folded
    BY <2>1
  <2> QED BY <2>2 DEF applied
<1>3. \A x \in Entities :
        FoldOf(w)[x] = IF x \in Edges /\ ~({From[x], To[x]} \subseteq Present(m, Nodes)) THEN NoRow ELSE m[x]
  BY DEF WithoutOrphans, FoldOf
<1> HIDE DEF m
<1>4. ASSUME NEW x \in Entities, Start(x) \in Shown \cup job[w].batch
      PROVE  /\ Start(x) \in m[x].folded
             /\ \A e \in job[w].batch : e = Start(x) \/ e = End(x) => e \in m[x].folded
  <2>1. Start(x) \in rows[x].folded \cup job[w].batch
    BY <1>4, ShownRows DEF Start
  <2> QED BY <1>2, <2>1 DEF Applied
<1>5. \A x \in Edges : x \in Entities /\ From[x] \in Nodes /\ To[x] \in Nodes /\ Nodes \subseteq Entities
  BY EntityTables, MaterializationAssumption
<1>6. ASSUME NEW x \in Entities, rows[x].folded # {} PROVE FoldOf(w)[x].folded # {}
  <2>1. CASE x \notin Edges
    BY <1>2, <1>3, <1>6, <2>1
  <2>2. CASE x \in Edges
    <3>1. rows[From[x]].folded # {} /\ rows[To[x]].folded # {}
      BY <1>6, <2>2 DEF RowsInv, NoOrphans
    <3>2. {From[x], To[x]} \subseteq Present(m, Nodes)
      BY <1>2, <1>5, <2>2, <3>1 DEF Present
    <3> QED BY <1>2, <1>3, <1>6, <3>2
  <2> QED BY <2>1, <2>2
<1>7. ASSUME NEW e \in job[w].batch, Needs[e] \subseteq Shown \cup job[w].batch
      PROVE  e \in FoldOf(w)[e[1]].folded
  <2>1. e \in RawEvents
    BY JobFields, Numbers
  <2>2. e[1] \in Entities /\ (e = Start(e[1]) \/ e = End(e[1]))
    BY <2>1 DEF RawEvents, Start, End
  <2>3. Start(e[1]) \in Needs[e]
    BY <2>1 DEF Needs
  <2>4. e \in m[e[1]].folded
    BY <1>4, <1>7, <2>2, <2>3
  <2>5. CASE e[1] \notin Edges
    BY <1>3, <2>2, <2>4, <2>5
  <2>6. CASE e[1] \in Edges
    <3>1. Start(From[e[1]]) \in Needs[e] /\ Start(To[e[1]]) \in Needs[e]
      BY <2>1, <2>6 DEF Needs
    <3>2. Start(From[e[1]]) \in m[From[e[1]]].folded /\ Start(To[e[1]]) \in m[To[e[1]]].folded
      BY <1>4, <1>5, <1>7, <2>6, <3>1
    <3>3. {From[e[1]], To[e[1]]} \subseteq Present(m, Nodes)
      BY <1>5, <2>6, <3>2 DEF Present
    <3> QED BY <1>3, <2>2, <2>4, <3>3
  <2> QED BY <2>5, <2>6
<1>8. \A x \in Entities : rows[x].folded \subseteq m[x].folded
  BY <1>2
<1>9. \A x \in Entities : \/ FoldOf(w)[x] = NoRow \/ FoldOf(w)[x] = rows[x]
                          \/ FoldOf(w)[x].ver = clock' /\ rows[x].folded \subseteq FoldOf(w)[x].folded
  BY <1>2, <1>3
<1> QED BY <1>6, <1>7, <1>8, <1>9 DEF m

\* The fold: what is missing will be saved, or the next rebuild looks at it again.  The latter
\* only if more was written since: a rebuild that loaded everything folds everything.
LEMMA FoldOneInv ==
  ASSUME BaseInv, RowsInv, NEW w \in Workers, OneInv(w), Fold(w)
  PROVE  OneInv(w)'
<1>0. /\ LoadedInv(w) /\ BatchInv(w) /\ FreshInv(w) /\ CountInv(w) /\ NothingSkipped /\ RestInv
  BY DEF OneInv
<1>1. /\ LoadFrame /\ job[w].step = "fold" /\ job[w].batch # {} /\ clock' = clock + 1
      /\ UNCHANGED <<at, raw, newest, unannounced, requests, rows, summary, checkpoint>>
  BY DEF Fold, LoadFrame, db, env
<1>2. /\ job'[w].step = "rows" /\ job'[w].todo = Present(FoldOf(w), Entities)
      /\ job'[w].cp = job[w].cp /\ job'[w].base = job[w].base /\ job'[w].batch = job[w].batch
      /\ job'[w].model = FoldOf(w) /\ job'[w].ver = clock'
  BY FoldEffect
<1>3. Shown' = Shown /\ Missing' = Missing /\ \A e : InReach(w, e)' <=> InReach(w, e)
  BY <1>1, <1>2, Framed DEF InReach, NextTime, TableOf
<1>4. clock \in Nat /\ summary.ver \in 0 .. clock /\ checkpoint.ver \in 0 .. clock
      /\ \A x \in Entities : rows[x] \in Row
  BY DEF BaseInv, TypeOK
<1>5. summary.ver < clock' /\ checkpoint.ver < clock' /\ \A x \in Entities : rows[x].ver < clock'
  BY <1>1, <1>4 DEF Row
<1>6. LoadedInv(w)' /\ BatchInv(w)' /\ FreshInv(w)'
  BY <1>0, <1>1, <1>2 DEF LoadedInv, BatchInv, FreshInv, Asked, LoadCheckpoint, TableOf
<1>7. ASSUME NEW e \in Missing
      PROVE  \/ e[1] \in job'[w].todo /\ e \in FoldOf(w)[e[1]].folded
             \/ InReach(w, e) /\ (requests > 1 \/ unannounced # {})
  <2>0. e \in RawEvents /\ e[1] \in Entities
    BY MissingFacts DEF RawEvents
  <2>1. ASSUME e \in job[w].batch, Needs[e] \subseteq Shown \cup job[w].batch
        PROVE  e[1] \in job'[w].todo /\ e \in FoldOf(w)[e[1]].folded
    BY <1>0, <1>1, <1>2, <2>0, <2>1, FoldHas DEF Present
  <2>2. CASE requests > 1 \/ unannounced # {}
    <3>1. \A f : Asked(w, TableOf(f))
      BY <1>1 DEF Asked
    <3>2. \/ e \in job[w].batch /\ \A f \in Needs[e] : f \in Shown \cup job[w].batch
          \/ InReach(w, e)
      BY <1>0, <3>1 DEF BatchInv
    <3> QED BY <2>1, <2>2, <3>2
  <2>3. CASE ~(requests > 1 \/ unannounced # {})
    <3>1. requests = 1 /\ unannounced = {}
      BY <1>1, <2>3, RunningHasTrigger
    <3>2. ASSUME NEW f \in Missing PROVE f \in job[w].batch
      <4>1. f \in raw /\ at[f] >= LoadCheckpoint[TableOf(f)] - Lookback
        BY <1>0, MissingFacts, SkippedOf, TableFacts DEF LoadCheckpoint, Tables
      <4>2. LoadCheckpoint = job[w].cp /\ job[w].cp \in [node : Times, edge : Times]
        BY <1>0, <1>1, JobFields DEF LoadedInv
      <4>3. f \in After(TableOf(f), job[w].cp)
        BY <4>1, <4>2, AfterFacts, TableFacts
      <4> QED BY <1>0, <1>1, <3>1, <4>3, TableFacts DEF FreshInv, Asked
    <3> QED BY <2>1, <3>2, MissingFacts
  <2> QED BY <2>2, <2>3
<1>8. ASSUME NEW x \in Entities \cap job'[w].todo
      PROVE  /\ rows[x].folded \subseteq FoldOf(w)[x].folded
             /\ FoldOf(w)[x] = rows[x] \/ rows[x].ver < FoldOf(w)[x].ver
  <2>1. FoldOf(w)[x] # NoRow
    BY <1>2 DEF Present, NoRow
  <2> QED BY <1>0, <1>1, <1>5, <2>1, FoldHas
<1>9. ASSUME NEW x \in Entities \ job'[w].todo PROVE rows[x].folded = FoldOf(w)[x].folded
  <2>1. FoldOf(w)[x].folded = {}
    BY <1>2 DEF Present
  <2> QED BY <1>0, <1>1, <2>1, FoldHas
<1>10. SaveInv(w)'
  BY <1>1, <1>2, <1>3, <1>5, <1>7, <1>8, <1>9 DEF SaveInv
<1>11. CountInv(w)'
  BY <1>0, <1>1, <1>2, Framed, RunningHasTrigger DEF CountInv
<1> QED BY <1>0, <1>1, <1>6, <1>10, <1>11, Framed DEF OneInv

\* Saving a row shows what the fold made of it, and hides nothing.
LEMMA SaveRowShows ==
  ASSUME BaseInv, RowsInv, NEW w \in Workers, SaveInv(w), NEW x \in Entities, SaveRow(w, x)
  PROVE  /\ rows'[x] = job[w].model[x] /\ \A y \in Entities \ {x} : rows'[y] = rows[y]
         /\ Shown \subseteq Shown' /\ Missing' \subseteq Missing
         /\ \A e \in Missing' : e \notin job[w].model[x].folded
<1>1. /\ x \in job[w].todo /\ job[w].step = "rows" /\ UNCHANGED raw
      /\ rows' = [rows EXCEPT ![x] = Newer(rows[x], job[w].model[x])]
  BY DEF SaveRow, env
<1>2. /\ rows[x].folded \subseteq job[w].model[x].folded
      /\ job[w].model[x] = rows[x] \/ rows[x].ver < job[w].model[x].ver
  BY <1>1 DEF SaveInv
<1>3. rows[x].ver \in Nat /\ job[w].model[x].ver \in Nat
  BY JobFields DEF BaseInv, TypeOK, Row, Maps
<1>4. Newer(rows[x], job[w].model[x]) = job[w].model[x]
  BY <1>2, <1>3 DEF Newer
<1>5. rows'[x] = job[w].model[x] /\ \A y \in Entities \ {x} : rows'[y] = rows[y]
  BY <1>1, <1>4 DEF BaseInv, TypeOK
<1>6. Shown \subseteq Shown'
  BY <1>2, <1>5 DEF Shown
<1>7. Due' = Due
  BY <1>1 DEF Due
<1>8. job[w].model[x].folded \subseteq Shown'
  BY <1>5 DEF Shown
<1> QED BY <1>5, <1>6, <1>7, <1>8 DEF Missing

\* While w has events in its batch, there is something to load after the checkpoint.
LEMMA BatchIsAfter ==
  ASSUME BaseInv, NEW w \in Workers, LoadedInv(w), job[w].step # "idle", job[w].batch # {}
  PROVE  \E k \in Tables : After(k, LoadCheckpoint) # {}
<1>1. PICK e \in job[w].batch : TRUE
  OBVIOUS
<1>2. e \in raw /\ job[w].cp = LoadCheckpoint /\ job[w].cp \in [node : Times, edge : Times]
      /\ at[e] >= job[w].cp[TableOf(e)] - Lookback /\ TableOf(e) \in Tables
  BY JobFields, TableFacts DEF LoadedInv
<1>3. e \in After(TableOf(e), job[w].cp)
  BY <1>2, AfterFacts
<1> QED BY <1>2, <1>3

LEMMA SaveRowOneInv ==
  ASSUME BaseInv, RowsInv, NEW w \in Workers, OneInv(w), NEW x \in Entities, SaveRow(w, x)
  PROVE  OneInv(w)'
<1>0. LoadedInv(w) /\ SaveInv(w) /\ CountInv(w) /\ NothingSkipped
  BY DEF OneInv
<1>1. /\ UNCHANGED <<at, raw, newest, unannounced, requests, summary, checkpoint>>
      /\ x \in job[w].todo /\ job[w].step = "rows"
  BY DEF SaveRow, env
<1>2. /\ job'[w].step = "rows" /\ job'[w].todo = job[w].todo \ {x}
      /\ job'[w].cp = job[w].cp /\ job'[w].batch = job[w].batch
      /\ job'[w].model = job[w].model /\ job'[w].ver = job[w].ver
  <2>1. Proceed(w, job[w], "rows", job[w].todo \ {x}) /\ "rows" \in Steps
    BY DEF SaveRow, Steps
  <2>2. job[w].todo \ {x} \in SUBSET (Tables \cup Entities)
    BY JobFields
  <2> QED BY <2>1, <2>2, SavingEffect
<1>3. /\ rows'[x] = job[w].model[x] /\ \A y \in Entities \ {x} : rows'[y] = rows[y]
      /\ Missing' \subseteq Missing /\ \A e \in Missing' : e \notin job[w].model[x].folded
  BY <1>0, SaveRowShows
<1>4. \A e : InReach(w, e)' <=> InReach(w, e)
  BY <1>1, <1>2 DEF InReach, NextTime, TableOf
<1>5. LoadedInv(w)' /\ BatchInv(w)' /\ FreshInv(w)'
  BY <1>0, <1>1, <1>2 DEF LoadedInv, BatchInv, FreshInv, Asked, LoadCheckpoint, TableOf
<1>6. SaveInv(w)'
  <2>1. job[w].batch # {} /\ summary.ver < job[w].ver /\ checkpoint.ver < job[w].ver
    BY <1>0, <1>1 DEF SaveInv
  <2>2. \A y \in Entities \cap job'[w].todo :
          /\ rows'[y].folded \subseteq job[w].model[y].folded
          /\ job[w].model[y] = rows'[y] \/ rows'[y].ver < job[w].model[y].ver
    BY <1>0, <1>1, <1>2, <1>3 DEF SaveInv
  <2>3. \A y \in Entities \ job'[w].todo : rows'[y].folded = job[w].model[y].folded
    BY <1>0, <1>1, <1>2, <1>3 DEF SaveInv
  <2>4. \A e \in Missing' :
          \/ e[1] \in job'[w].todo /\ e \in job[w].model[e[1]].folded
          \/ InReach(w, e) /\ (requests > 1 \/ unannounced # {})
    BY <1>0, <1>1, <1>2, <1>3 DEF SaveInv
  <2> QED BY <1>1, <1>2, <1>4, <2>1, <2>2, <2>3, <2>4 DEF SaveInv
<1>7. CountInv(w)'
  <2>1. \E k \in Tables : After(k, LoadCheckpoint) # {}
    BY <1>0, <1>1, BatchIsAfter DEF SaveInv
  <2>2. \A k \in Tables : After(k, LoadCheckpoint)' = After(k, LoadCheckpoint)
    BY <1>1 DEF After, LoadCheckpoint
  <2>3. requests' # 0
    BY <1>1, RunningHasTrigger
  <2> QED BY <1>2, <2>1, <2>2, <2>3 DEF CountInv
<1>8. NothingSkipped'
  BY <1>0, <1>1, <1>3 DEF NothingSkipped, Missing
<1>9. RestInv'
  BY <1>1, RunningHasTrigger DEF RestInv
<1> QED BY <1>5, <1>6, <1>7, <1>8, <1>9 DEF OneInv

LEMMA SaveSummaryOneInv ==
  ASSUME BaseInv, RowsInv, NEW w \in Workers, OneInv(w), SaveSummary(w)
  PROVE  OneInv(w)'
<1>0. LoadedInv(w) /\ SaveInv(w) /\ NothingSkipped
  BY DEF OneInv
<1>1. /\ UNCHANGED <<at, raw, newest, unannounced, requests, rows, checkpoint>>
      /\ job[w].todo = {} /\ job[w].step = "rows"
      /\ summary' = Newer(summary, SummaryRow(Counts(job[w].model), job[w].ver))
  BY DEF SaveSummary, env
<1>2. /\ job'[w].step = "checkpoint" /\ job'[w].todo = {}
      /\ job'[w].cp = job[w].cp /\ job'[w].batch = job[w].batch
      /\ job'[w].model = job[w].model /\ job'[w].ver = job[w].ver
  BY SavingEffect DEF SaveSummary, Steps
<1>3. Missing' = Missing /\ \A e : InReach(w, e)' <=> InReach(w, e)
  BY <1>1, <1>2 DEF Missing, Due, Shown, InReach, NextTime, TableOf
<1>4. /\ summary.ver < job[w].ver /\ checkpoint.ver < job[w].ver
      /\ \A x \in Entities : rows[x].folded = job[w].model[x].folded
      /\ \A e \in Missing : InReach(w, e) /\ (requests > 1 \/ unannounced # {})
  BY <1>0, <1>1 DEF SaveInv
<1>5. Counted'
  <2>1. summary.ver \in Nat /\ job[w].ver \in Nat
    BY JobFields DEF BaseInv, TypeOK
  <2>2. summary' = SummaryRow(Counts(job[w].model), job[w].ver)
    BY <1>1, <1>4, <2>1 DEF Newer, SummaryRow
  <2>3. Present(rows, Nodes) = Present(job[w].model, Nodes) /\ Present(rows, Edges) = Present(job[w].model, Edges)
    BY <1>4, EntityTables DEF Present
  <2>4. /\ summary'.nodes = Cardinality(Present(job[w].model, Nodes))
        /\ summary'.edges = Cardinality(Present(job[w].model, Edges))
    BY <2>2 DEF SummaryRow, Counts
  <2>5. Present(rows, Nodes)' = Present(rows, Nodes) /\ Present(rows, Edges)' = Present(rows, Edges)
    BY <1>1 DEF Present
  <2> QED BY <2>3, <2>4, <2>5 DEF Counted
<1>6. LoadedInv(w)' /\ BatchInv(w)' /\ FreshInv(w)'
  BY <1>0, <1>1, <1>2 DEF LoadedInv, BatchInv, FreshInv, Asked, LoadCheckpoint, TableOf
<1>7. SaveInv(w)'
  BY <1>1, <1>2, <1>3, <1>4 DEF SaveInv
<1>8. CountInv(w)'
  BY <1>5 DEF CountInv
<1>9. NothingSkipped' /\ RestInv'
  BY <1>0, <1>1, <1>3, RunningHasTrigger DEF NothingSkipped, Missing, RestInv
<1> QED BY <1>6, <1>7, <1>8, <1>9 DEF OneInv

\* The checkpoint moves on only to where nothing missing is left behind.
LEMMA SaveCheckpointOneInv ==
  ASSUME BaseInv, RowsInv, NEW w \in Workers, OneInv(w), SaveCheckpoint(w)
  PROVE  OneInv(w)'
<1>0. SaveInv(w) /\ CountInv(w)
  BY DEF OneInv
<1>1. /\ UNCHANGED <<at, raw, newest, unannounced, rows, summary>>
      /\ job[w].step = "checkpoint" /\ requests' = requests - 1
      /\ checkpoint' = Newer(checkpoint, CheckpointRow(w))
  BY DEF SaveCheckpoint, Answered, env
<1>2. job'[w] = Idle /\ Idle.step = "idle"
  BY IdleEffect DEF SaveCheckpoint, Answered
<1>3. Missing' = Missing
  BY <1>1 DEF Missing, Due, Shown
<1>4. /\ checkpoint.ver < job[w].ver /\ job[w].todo = {}
      /\ \A e \in Missing : InReach(w, e) /\ (requests > 1 \/ unannounced # {})
  BY <1>0, <1>1 DEF SaveInv
<1>5. \A k \in Tables : checkpoint'[k] = NextTime(w, k)
  <2>1. checkpoint.ver \in Nat /\ job[w].ver \in Nat
    BY JobFields DEF BaseInv, TypeOK
  <2> HIDE DEF NextTime
  <2>2. checkpoint' = CheckpointRow(w)
    BY <1>1, <1>4, <2>1 DEF Newer, CheckpointRow
  <2> QED BY <2>2 DEF CheckpointRow, Tables
<1>6. NothingSkipped'
  <2> SUFFICES ASSUME NEW k \in Tables, NEW e \in Missing, e[1] \in Of(k)
               PROVE  at[e] >= checkpoint'[k] - Lookback
    BY <1>1, <1>3 DEF NothingSkipped, Missing
  <2>1. k = TableOf(e)
    BY MissingFacts, TableFacts
  <2> QED BY <1>4, <1>5, <2>1 DEF InReach
<1>7. RestInv'
  BY <1>1, <1>3, <1>4, RunningHasTrigger DEF RestInv
<1>8. CountInv(w)'
  BY <1>0, <1>1 DEF CountInv, Counted, Present
<1> HIDE DEF Idle
<1> QED BY <1>2, <1>6, <1>7, <1>8, Idles DEF OneInv

-----------------------------------------------------------------------------
(* One worker: the theorems. *)

\* One backend instance: its worker runs the rebuilds of a trace one after the other.
OneWorker == \E w : Workers = {w}

OnlyInv == BaseInv /\ RowsInv /\ \A w \in Workers : OneInv(w)

LEMMA InitOnlyInv == Init => OnlyInv
<1> SUFFICES ASSUME Init, NEW w \in Workers PROVE OneInv(w)
  BY InitBaseInv, InitRowsInv DEF OnlyInv
<1>1. job[w] = Idle /\ Idle.step = "idle" /\ Idle.batch = {}
  BY DEF Init, Idle
<1>2. Missing = {}
  BY DEF Init, Missing, Due
<1>3. Counted
  <2>1. \A x \in Entities : rows[x].folded = {}
    BY DEF Init, Empty, NoRow
  <2>2. Present(rows, Nodes) = {} /\ Present(rows, Edges) = {}
    BY <2>1, EntityTables DEF Present
  <2>3. summary.nodes = 0 /\ summary.edges = 0
    BY DEF Init
  <2> QED BY <2>2, <2>3, FS_EmptySet DEF Counted
<1> HIDE DEF Idle
<1>4. LoadedInv(w) /\ BatchInv(w) /\ FreshInv(w) /\ SaveInv(w)
  BY <1>1 DEF LoadedInv, BatchInv, FreshInv, SaveInv, Asked
<1>5. CountInv(w) /\ NothingSkipped /\ RestInv
  BY <1>2, <1>3 DEF CountInv, NothingSkipped, RestInv, Missing
<1> QED BY <1>4, <1>5 DEF OneInv

LEMMA StutterOneInv ==
  ASSUME BaseInv, NEW w \in Workers, OneInv(w), UNCHANGED vars
  PROVE  OneInv(w)'
<1>0. LoadedInv(w) /\ BatchInv(w) /\ FreshInv(w) /\ SaveInv(w) /\ CountInv(w)
  BY DEF OneInv
<1>1. /\ LoadFrame /\ job' = job
      /\ UNCHANGED <<at, raw, newest, unannounced, requests, rows, summary, checkpoint>>
  BY DEF vars, LoadFrame, env, db
<1>2. Shown' = Shown /\ Missing' = Missing /\ \A e : InReach(w, e)' <=> InReach(w, e)
  BY <1>1, Framed DEF InReach, NextTime, TableOf
<1>3. \A k : Asked(w, k)' <=> Asked(w, k)
  BY <1>1 DEF Asked
<1>4. LoadedInv(w)' /\ SaveInv(w)'
  BY <1>0, <1>1, <1>2 DEF LoadedInv, SaveInv, LoadCheckpoint, TableOf
<1>5. BatchInv(w)'
  BY <1>0, <1>1, <1>2, <1>3 DEF BatchInv, TableOf
<1>6. FreshInv(w)'
  BY <1>0, <1>1, <1>3 DEF FreshInv, After
<1>7. CountInv(w)'
  BY <1>0, <1>1, Framed DEF CountInv
<1> QED BY <1>1, <1>4, <1>5, <1>6, <1>7, Framed DEF OneInv

LEMMA NextOnlyInv ==
  ASSUME OneWorker, OnlyInv, [Next]_vars
  PROVE  OnlyInv'
<1>1. BaseInv /\ RowsInv /\ BaseInv' /\ RowsInv'
  BY NextBaseInv, NextRowsInv DEF OnlyInv
<1>2. PICK w : Workers = {w}
  BY DEF OneWorker
<1>3. OneInv(w) /\ w \in Workers
  BY <1>2 DEF OnlyInv
<1>4. OneInv(w)'
  <2>1. CASE UNCHANGED vars
    BY <1>1, <1>3, <2>1, StutterOneInv
  <2>2. CASE \E e \in RawEvents : Write(e)
    BY <1>1, <1>3, <2>2, WriteOneInv
  <2>3. CASE Announce \/ Redeliver
    BY <1>1, <1>3, <2>3, TriggerOneInv
  <2>4. CASE Fail(w)
    BY <1>1, <1>3, <2>4, FailOneInv
  <2>5. CASE Step(w)
    BY <1>1, <1>3, <2>5, BeginOneInv, LoadModelOneInv, LoadRawOneInv, NothingNewOneInv,
       FoldOneInv, SaveRowOneInv, SaveSummaryOneInv, SaveCheckpointOneInv DEF Step
  <2> QED BY <1>2, <2>1, <2>2, <2>3, <2>4, <2>5 DEF Next
<1> QED BY <1>1, <1>2, <1>4 DEF OnlyInv

\* A raw event that can be folded and is in no row is never behind the point from which the next
\* rebuild reads its table, whatever order events arrive in within Lateness and Drift, and
\* however often a rebuild fails between two inserts.
THEOREM MaterializationSkipsNothing ==
  ASSUME OneWorker
  PROVE  Spec => []NothingSkipped
<1>1. OnlyInv /\ [Next]_vars => OnlyInv'
  BY NextOnlyInv
<1>2. OnlyInv => NothingSkipped
  BY DEF OnlyInv, OneInv, OneWorker
<1> QED BY <1>1, <1>2, InitOnlyInv, PTL DEF Spec

\* Once every write is announced and every trigger answered, the read model shows all that can be
\* folded, and the trace list's counts are those of its rows.
THEOREM MaterializationCatchesUp ==
  ASSUME OneWorker
  PROVE  Spec => []CaughtUp
<1>1. OnlyInv /\ [Next]_vars => OnlyInv'
  BY NextOnlyInv
<1>2. OnlyInv => CaughtUp
  BY DEF OnlyInv, OneInv, OneWorker, CaughtUp, AtRest, RestInv, CountInv, Counted, Missing
<1> QED BY <1>1, <1>2, InitOnlyInv, PTL DEF Spec

\* A write adds to the view's log, saving a row adds to what it shows, and no other step touches
\* either.
LEMMA StepShows ==
  ASSUME OneWorker, OnlyInv, ShownIsDue', [Next]_vars
  PROVE  [View!Next]_View!viewVars
<1>1. BaseInv /\ RowsInv
  BY DEF OnlyInv
<1>2. CASE UNCHANGED <<raw, rows>>
  BY <1>2 DEF Shown, View!viewVars
<1>3. ASSUME NEW e \in RawEvents, Write(e) PROVE View!Append
  BY <1>3 DEF Write, View!Append, Shown, db
<1>4. ASSUME NEW w \in Workers, NEW x \in Entities, SaveRow(w, x) PROVE View!Advance
  <2>1. Shown \subseteq Shown' /\ raw' = raw
    BY <1>1, <1>4, SaveRowShows DEF OnlyInv, OneInv, SaveRow, env
  <2>2. Due' = Due /\ View!Due = Due
    BY <2>1 DEF Due, View!Due
  <2>3. Shown' \ Shown \in SUBSET (Due \ Shown)
    BY <2>2 DEF ShownIsDue
  <2>4. Shown' = Shown \cup (Shown' \ Shown)
    BY <2>1
  <2> QED BY <2>1, <2>2, <2>3, <2>4 DEF View!Advance
<1>5. ASSUME NEW w \in Workers, Step(w) \/ Fail(w)
      PROVE  UNCHANGED <<raw, rows>> \/ \E x \in Entities : SaveRow(w, x)
  BY <1>5 DEF Step, Fail, Begin, LoadModel, LoadRaw, NothingNew, Fold, SaveSummary, SaveCheckpoint, env, db
<1>6. CASE Announce \/ Redeliver
  BY <1>2, <1>6 DEF Announce, Redeliver, env, db
<1>7. CASE UNCHANGED vars
  BY <1>2, <1>7 DEF vars, env, db
<1> QED BY <1>2, <1>3, <1>4, <1>5, <1>6, <1>7 DEF Next, View!Next

\* The safety part of the view the read model promises its readers: it shows only what can be
\* folded, and never takes back what it has shown.  That it shows everything in the end is
\* liveness.
THEOREM MaterializationImplementsView ==
  ASSUME OneWorker
  PROVE  Spec => View!Spec
<1>1. OnlyInv /\ [Next]_vars => OnlyInv'
  BY NextOnlyInv
<1>2. OnlyInv => ShownIsDue
  BY ShownRows DEF OnlyInv, ShownIsDue, Due
<1>3. Init => View!Init
  <2> SUFFICES ASSUME Init PROVE raw = {} /\ Shown = {}
    BY DEF View!Init
  <2>1. \A x \in Entities : rows[x].folded = {}
    BY DEF Init, Empty, NoRow
  <2> QED BY <2>1 DEF Init, Shown
<1>4. OnlyInv /\ ShownIsDue' /\ [Next]_vars => [View!Next]_View!viewVars
  BY StepShows
<1> QED BY <1>1, <1>2, <1>3, <1>4, InitOnlyInv, PTL DEF Spec, View!Spec
=============================================================================
