-------------------------------- MODULE Lineage --------------------------------
(***************************************************************************)
(* The lineage queries of the analytics: GraphStore.findPaths walks the    *)
(* graph breadth first from one entity while events go on being projected, *)
(* and the reports add up the observations at the ends of the paths it     *)
(* found.  The walk never puts an entity twice on a path, but it queues an *)
(* entity again when it is found again at most two steps deeper.  Each     *)
(* read of the graph is an await: Expand reads the edges of an entity,     *)
(* Visit the entity at the end of one (HydraDB reads them one by one and   *)
(* skips the missing ones; in memory an edge always has its ends).         *)
(***************************************************************************)
EXTENDS Naturals, Sequences, FiniteSets, SequencesExt, FiniteSetsExt

CONSTANTS
  Stores,    \* GRAPH_BACKEND: a subset of {"memory", "hydra"}
  Nodes,     \* the ids of the entities
  Origin,    \* the generator, product or process asked about
  Edges,     \* what may be linked: triples <<from, kind, to>>
  Graphs,    \* the links there may be at first: sequences, in the order of their making
  Late,      \* entities that may not have been projected when the query starts
  Value,     \* the observations of the metric asked for (api.calls, a count), with their values
  Depths,    \* the maxDepth of the queries
  MaxLearn   \* bound: entities and links projected during a query

ASSUME LineageAssumption ==
  /\ Origin \in Nodes \ (Late \cup DOMAIN Value) /\ Late \subseteq Nodes
  /\ \A o \in DOMAIN Value : Value[o] \in Nat
  /\ Edges \subseteq Nodes \X STRING \X Nodes /\ Graphs \subseteq Seq(Edges)
  /\ Depths \subseteq Nat /\ MaxLearn \in Nat

VARIABLES
  store, entities, \* the backend and the entities it has
  edges,     \* the links, in the order in which they were made
  walk,      \* the query: "idle", "loop", "visit" or "done"
  maxDepth,  \* of the query
  queue,     \* the paths to expand; a path is the sequence of its edges
  best,      \* bestDepth: the entities found and their least depth
  current, items, \* the path being expanded, and where in edges its neighbors to visit are
  results,   \* the paths found
  due,       \* history: the entities within reach when the query started
  learned    \* budget: projections during the query

graph == <<store, entities, edges>>
query == <<maxDepth, queue, best, current, items, results>>
wvars == <<graph, walk, query, due, learned>>
-----------------------------------------------------------------------------
EndOf(path) == IF path = <<>> THEN Origin ELSE path[Len(path)][3]
OnPath(path) == {Origin} \cup {path[i][3] : i \in DOMAIN path}

(* neighbors(id, out): the edges of an entity.  HydraDB has no index: all  *)
(* edges are listed and those of the entity are kept.                      *)
FindEdges == DOMAIN edges
LeadsOut(n, i) == edges[i][1] = n
Outgoing(n) == {i \in FindEdges : LeadsOut(n, i)}

(* The entity behind an edge is not there: only HydraDB has such edges.    *)
Missing(n) == n \notin entities

(* The reference: what can be reached in d steps over the links in E       *)
(* between the entities in N.                                              *)
Reach(E, N, d) ==
  LET within[k \in 0..d] ==
        IF k = 0 THEN {Origin}
        ELSE within[k - 1] \cup {e[3] : e \in {x \in E : x[1] \in within[k - 1] /\ x[3] \in N}}
  IN within[d]
-----------------------------------------------------------------------------
WInit ==
  /\ store \in Stores
  /\ \E late \in SUBSET Late : entities = Nodes \ late
  /\ edges \in Graphs
  /\ store = "memory" => \A e \in Range(edges) : {e[1], e[3]} \subseteq entities
  /\ walk = "idle" /\ maxDepth = 0 /\ queue = <<>> /\ best = <<>> /\ current = <<>> /\ items = {}
  /\ results = {} /\ due = {} /\ learned = 0

(* findPaths is called for an entity that findEntities listed. *)
Ask ==
  /\ walk = "idle" /\ walk' = "loop"
  /\ maxDepth' \in Depths
  /\ queue' = << <<>> >> /\ best' = [n \in {Origin} |-> 0]
  /\ due' = Reach(Range(edges), entities, maxDepth')
  /\ UNCHANGED <<graph, current, items, results, learned>>

(* Mutant: a path one step short of the depth allowed is not expanded.     *)
TooLongEarly(path) == Len(path) >= maxDepth - 1
TooLong(path) == Len(path) >= maxDepth

(* The next path: its neighbors are read, unless it is as long as allowed. *)
Expand ==
  /\ walk = "loop" /\ queue # <<>>
  /\ queue' = Tail(queue)
  /\ \/ /\ TooLong(Head(queue))
        /\ UNCHANGED <<walk, current, items>>
     \/ /\ ~TooLong(Head(queue))
        /\ walk' = "visit" /\ current' = Head(queue) /\ items' = Outgoing(EndOf(Head(queue)))
  /\ UNCHANGED <<graph, maxDepth, best, results, due, learned>>

(* Mutants: an entity may come back on a path; the origin may.             *)
SkipsMissing(n) == Missing(n)
SkipsLater(n) == Missing(n) \/ n \in OnPath(current) \ {Origin}

Skips(n) == Missing(n) \/ n \in OnPath(current)

(* A path to n is a result, and is queued unless it is more than two steps *)
(* longer than the shortest one.                                           *)
Reached(n, path) ==
  LET queued == n \notin DOMAIN best \/ Len(path) <= best[n] + 2
      depth == IF n \in DOMAIN best THEN Min({best[n], Len(path)}) ELSE Len(path)
  IN /\ results' = results \cup {path}
     /\ queue' = IF queued THEN Append(queue, path) ELSE queue
     /\ best' = IF queued
                THEN [m \in DOMAIN best \cup {n} |-> IF m = n THEN depth ELSE best[m]]
                ELSE best

(* The next neighbor: in memory in the order in which the links were made, *)
(* in HydraDB in any order, because its query asks for none.               *)
Visit ==
  /\ walk = "visit"
  /\ \E i \in items :
       /\ store = "memory" => \A k \in items : i <= k
       /\ items' = items \ {i}
       /\ IF Skips(edges[i][3]) THEN UNCHANGED <<queue, best, results>>
          ELSE Reached(edges[i][3], Append(current, edges[i]))
  /\ UNCHANGED <<graph, walk, maxDepth, current, due, learned>>

Visited ==
  /\ walk = "visit" /\ items = {} /\ walk' = "loop"
  /\ UNCHANGED <<graph, query, due, learned>>

Answer ==
  /\ walk = "loop" /\ queue = <<>> /\ walk' = "done"
  /\ UNCHANGED <<graph, query, due, learned>>

(* Meanwhile events are projected: an entity, or a link.                   *)
LearnEntity ==
  /\ walk \in {"loop", "visit"} /\ learned < MaxLearn /\ learned' = learned + 1
  /\ \E n \in Nodes \ entities : entities' = entities \cup {n}
  /\ UNCHANGED <<store, edges, walk, query, due>>

Link ==
  /\ walk \in {"loop", "visit"} /\ learned < MaxLearn /\ learned' = learned + 1
  /\ \E e \in Edges \ Range(edges) :
       /\ store = "memory" => {e[1], e[3]} \subseteq entities
       /\ edges' = Append(edges, e)
  /\ UNCHANGED <<store, entities, walk, query, due>>

WNext == Ask \/ Expand \/ Visit \/ Visited \/ Answer \/ LearnEntity \/ Link

WSpec == WInit /\ [][WNext]_wvars
-----------------------------------------------------------------------------
(* What the reports make of the paths (usageAttribution, bestProducts,     *)
(* rank): the sum of the values at the ends of all paths, and the number   *)
(* of different observations.                                              *)
Found == {EndOf(path) : path \in results}
Sum(observations) == LET V(o) == Value[o] IN MapThenSumSet(V, observations)
Total ==
  LET Measured == {path \in results : EndOf(path) \in DOMAIN Value}
      V(path) == Value[EndOf(path)]
  IN MapThenSumSet(V, Measured)
-----------------------------------------------------------------------------
WTypeOK ==
  /\ store \in Stores /\ entities \subseteq Nodes /\ edges \in Seq(Edges)
  /\ walk \in {"idle", "loop", "visit", "done"} /\ maxDepth \in Nat
  /\ queue \in Seq(Seq(Edges)) /\ current \in Seq(Edges) /\ items \subseteq DOMAIN edges
  /\ DOMAIN best \subseteq Nodes /\ \A n \in DOMAIN best : best[n] \in 0..maxDepth
  /\ results \subseteq Seq(Edges) /\ due \subseteq Nodes /\ learned \in 0..MaxLearn

(* Every path found is a path: it starts at the origin, follows links that *)
(* exist to entities that exist, is no longer than asked for and comes to  *)
(* no entity twice, whatever is projected meanwhile and however the links  *)
(* run in circles.                                                         *)
IsPath(path) ==
  /\ Len(path) <= maxDepth
  /\ \A i \in DOMAIN path :
       /\ path[i] \in Range(edges) /\ path[i][3] \in entities \ {Origin}
       /\ path[i][1] = IF i = 1 THEN Origin ELSE path[i - 1][3]
  /\ \A i, j \in DOMAIN path : path[i][3] = path[j][3] => i = j
PathsArePaths == \A path \in results : IsPath(path)

(* A finished query missed nothing that was within its depth when it began *)
(* and reports nothing that is not within its depth now: the entities that *)
(* are not queued again lose no entity behind them.                        *)
FindsWhatIsReachable ==
  walk = "done" =>
    /\ due \subseteq Found \cup {Origin}
    /\ Found \subseteq Reach(Range(edges), entities, maxDepth)

(* A report counts the value of every observation that was within reach;   *)
(* it counts none twice as long as every entity has one link to it (the    *)
(* sum is over paths: two ways to an observation count it twice).          *)
OneWay == \A e, f \in Range(edges) : e[3] = f[3] => e = f
TotalsCountOnce ==
  walk = "done" =>
    /\ Total >= Sum(due \cap DOMAIN Value)
    /\ OneWay => Total = Sum(Found \cap DOMAIN Value)
=============================================================================
