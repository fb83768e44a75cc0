---------------------------- MODULE GraphProjection ----------------------------
(***************************************************************************)
(* The event bus and the graph it projects.  EventBus.emit appends an      *)
(* event to the log, projects it with projectEvent and runs the handlers;  *)
(* rebuildProjection clears the graph and projects the whole log.  An      *)
(* event becomes one upsert and a list of links; a link "if" an entity     *)
(* exists is skipped when it does not, any other throws in the in-memory   *)
(* store.  HydraDB stores a link as an entity of its own, checks no ends,  *)
(* and upserts with two queries.  Every await is the end of a step.        *)
(***************************************************************************)
EXTENDS Naturals, Sequences, FiniteSets, SequencesExt, FiniteSetsExt

CONSTANTS
  Stores,      \* GRAPH_BACKEND: a subset of {"memory", "hydra"}
  Jobs,        \* the emits and rebuilds that may be in progress together
  Events,      \* what may be emitted: [type, p], p from fields to sequences of ids
  MaxLog,      \* bound: length of the log
  MaxRebuilds, \* bound: rebuilds
  MaxFaults    \* bound: crashes and failed queries

(* Who emits what: each method of ControlPlane, of the catalog and of the  *)
(* experiments emits events of one type; the factory starts and ends       *)
(* builds and creates tasks.                                               *)
ControlPlaneTypes == {
  "idea.generator.registered", "idea.seeded", "research.recorded", "capability.defined",
  "build.completed", "product.graduated", "site.registered", "deployment.recorded",
  "sensor.registered", "observation.recorded", "process.registered", "process.run.started",
  "process.run.completed", "failure.recorded"}
FactoryTypes == {"build.started", "build.completed", "task.created"}
StandardTypes == {"standard.registered", "standard.version.registered", "site.standard.desired"}
ExperimentTypes == {"experiment.created", "experiment.arm.created", "experiment.arm.assigned"}

ASSUME EventAssumption ==
  \A e \in Events :
    /\ e.type \in ControlPlaneTypes \cup FactoryTypes \cup StandardTypes \cup ExperimentTypes
    /\ \A f \in DOMAIN e.p : Len(e.p[f]) \in Nat /\ DOMAIN e.p[f] = 1 .. Len(e.p[f])
ASSUME StoreAssumption == Stores \subseteq {"memory", "hydra"}
ASSUME BoundAssumption == MaxLog \in Nat /\ MaxRebuilds \in Nat /\ MaxFaults \in Nat

VARIABLES
  store,       \* the backend
  log,         \* the events, in the order of the log
  graph,       \* the copies of each entity and edge; a copy is the set of the events
               \* (positions in the log) whose data it holds
  pc, todo, ops, \* jobs: where they are, the events and the operations to project
  found,       \* jobs: what getEntity answered before the write of a hydra upsert
  outbox,      \* the events whose task has reached the outbox
  answer,      \* how the emit of each event ended
  skipped,     \* history: the events a rebuild that threw never came to
  overlapped, interrupted, \* history, since the graph was last cleared: jobs were in progress
               \* together; one of them died, or the graph was not cleared
  rebuilds, faults

job == <<pc, todo, ops, found>>
history == <<skipped, overlapped, interrupted>>
budget == <<rebuilds, faults>>
vars == <<store, log, graph, job, outbox, answer, history, budget>>
-----------------------------------------------------------------------------
(* projectEvent: what an event does to the graph                           *)

In(field, kind) == [field |-> field, kind |-> kind, in |-> TRUE, if |-> FALSE]
Out(field, kind) == [In(field, kind) EXCEPT !.in = FALSE]
If(rule) == [rule EXCEPT !.if = TRUE]

Rules(type) ==
  CASE type \in {"idea.created", "idea.seeded"} -> <<In("generator_id", "GENERATED")>>
    [] type = "research.recorded" ->
         <<In("idea_id", "RESEARCHED_BY"), Out("supports_standard_version_id", "SUPPORTS")>>
    [] type = "capability.defined" -> <<In("idea_id", "PROPOSES")>>
    [] type \in {"build.started", "build.completed"} -> <<In("idea_id", "BUILT_BY")>>
    [] type = "product.graduated" ->
         <<In("build_run_id", "PRODUCED"), Out("capability_ids", "IMPLEMENTS")>>
    [] type = "site.registered" -> <<In("product_id", "EXPOSES")>>
    [] type = "deployment.recorded" -> <<In("site_id", "DEPLOYED_AS")>>
    [] type = "standard.version.registered" ->
         <<If(Out("previous_id", "SUPERSEDES")), If(In("standard_id", "EXPOSES"))>>
    [] type = "observation.recorded" ->
         <<In("sensor_id", "OBSERVED"), In("subject_id", "OBSERVED_BY"),
           In("experiment_id", "MEASURES")>>
    [] type = "experiment.created" -> <<Out("standard_version_id", "TESTS")>>
    [] type = "experiment.arm.created" -> <<In("experiment_id", "HAS_ARM")>>
    [] type = "failure.recorded" -> <<In("subject_id", "FAILED_WITH")>>
    [] type = "task.created" -> <<In("subject_id", "TRIGGERED")>>
    [] type \in {"process.run.started", "process.run.completed"} ->
         <<In("process_id", "EXECUTED"), If(In("input_ids", "INPUT_TO")),
           If(Out("output_ids", "OUTPUT_OF"))>>
    [] OTHER -> <<>>

LinkOnly == [t \in {"site.standard.desired", "experiment.arm.assigned"} |->
  IF t = "site.standard.desired" THEN <<"site_id", "CONFORMS_TO", "standard_version_id">>
  ELSE <<"arm_id", "ASSIGNED_TO", "site_id">>]
NodeOnly == {"idea.generator.registered", "standard.registered", "sensor.registered",
             "process.registered"}

\* An operation on a key, <<id>> or an edge <<from, kind, to>>: the ends it needs and the
\* entities it is guarded by.
Upsert(id) == [key |-> <<id>>, ends |-> {}, if |-> {}]
Link(from, kind, to, if) == [key |-> <<from, kind, to>>, ends |-> {from, to}, if |-> if]

LinksOf(e, rule) ==
  IF rule.field \notin DOMAIN e.p THEN <<>>
  ELSE [k \in DOMAIN e.p[rule.field] |->
         LET other == e.p[rule.field][k]
             if == IF rule.if THEN {other} ELSE {}
         IN  IF rule.in THEN Link(other, rule.kind, e.p.id[1], if)
             ELSE Link(e.p.id[1], rule.kind, other, if)]

\* No event has more than three rules.
LinksBy(e, k) == IF k \in DOMAIN Rules(e.type) THEN LinksOf(e, Rules(e.type)[k]) ELSE <<>>

Plan(e) ==
  IF e.type \in DOMAIN LinkOnly
  THEN LET l == LinkOnly[e.type] IN <<Link(e.p[l[1]][1], l[2], e.p[l[3]][1], {})>>
  ELSE IF Rules(e.type) = <<>> /\ e.type \notin NodeOnly THEN <<>>
  ELSE <<Upsert(e.p.id[1])>> \o LinksBy(e, 1) \o LinksBy(e, 2) \o LinksBy(e, 3)

PlanOf == [e \in Events |-> Plan(e)]
Written == UNION {{PlanOf[e][k].key : k \in DOMAIN PlanOf[e]} : e \in Events}
Needed == UNION {UNION {PlanOf[e][k].ends : k \in DOMAIN PlanOf[e]} : e \in Events}
Keys == Written \cup {<<id>> : id \in Needed}
IsNode(key) == Len(key) = 1

Init ==
  /\ store \in Stores /\ log = <<>> /\ graph = [k \in Keys |-> <<>>]
  /\ pc = [j \in Jobs |-> "idle"] /\ todo = [j \in Jobs |-> <<>>]
  /\ ops = [j \in Jobs |-> <<>>] /\ found = [j \in Jobs |-> "unknown"]
  /\ outbox = {} /\ answer = [i \in 1 .. MaxLog |-> "none"]
  /\ skipped = {} /\ overlapped = FALSE /\ interrupted = FALSE
  /\ rebuilds = MaxRebuilds /\ faults = MaxFaults

Alone(j) == \A k \in Jobs \ {j} : pc[k] = "idle"
Goto(j, l) == pc' = [pc EXCEPT ![j] = l]
Has(id) == graph[<<id>>] # <<>>
-----------------------------------------------------------------------------
(* EventBus.emit and rebuildProjection                                     *)

\* Mutant: the graph is written although the append failed.
EmitUnlogged(j, e) ==
  /\ pc[j] = "idle" /\ Len(log) < MaxLog
  /\ log' = log
  /\ todo' = [todo EXCEPT ![j] = <<Len(log) + 1>>] /\ ops' = [ops EXCEPT ![j] = PlanOf[e]]
  /\ Goto(j, "emit")
  /\ overlapped' = (overlapped \/ ~Alone(j))
  /\ UNCHANGED <<store, graph, found, outbox, answer, skipped, interrupted, budget>>

Emit(j, e) ==
  /\ pc[j] = "idle" /\ Len(log) < MaxLog
  /\ log' = Append(log, e)
  /\ todo' = [todo EXCEPT ![j] = <<Len(log) + 1>>] /\ ops' = [ops EXCEPT ![j] = PlanOf[e]]
  /\ Goto(j, "emit")
  /\ overlapped' = (overlapped \/ ~Alone(j))
  /\ UNCHANGED <<store, graph, found, outbox, answer, skipped, interrupted, budget>>

StartRebuild(j) ==
  /\ pc[j] = "idle" /\ rebuilds > 0 /\ rebuilds' = rebuilds - 1
  /\ Goto(j, "clear")
  /\ overlapped' = (overlapped \/ ~Alone(j))
  /\ UNCHANGED <<store, log, graph, todo, ops, found, outbox, answer, skipped, interrupted, faults>>

\* The graph is empty: what it held, and what happened to it, is history.
Cleared(j) ==
  /\ graph' = [k \in Keys |-> <<>>]
  /\ skipped' = {} /\ interrupted' = FALSE /\ overlapped' = ~Alone(j)

\* HydraDB may not support the statement; the error is ignored and the graph stays.
ClearIgnored ==
  /\ store = "hydra" /\ interrupted' = TRUE
  /\ UNCHANGED <<graph, skipped, overlapped>>

\* graph.clear()
Clear(j) ==
  /\ pc[j] = "clear" /\ Goto(j, "read")
  /\ Cleared(j) \/ ClearIgnored
  /\ UNCHANGED <<store, log, todo, ops, found, outbox, answer, budget>>

ReadLog(j) ==
  /\ pc[j] = "read"
  /\ todo' = [todo EXCEPT ![j] = [i \in DOMAIN log |-> i]]
  /\ ops' = [ops EXCEPT ![j] = IF log = <<>> THEN <<>> ELSE PlanOf[log[1]]]
  /\ Goto(j, IF log = <<>> THEN "idle" ELSE "rebuild")
  /\ UNCHANGED <<store, log, graph, found, outbox, answer, history, budget>>

Projecting(j) == pc[j] \in {"emit", "rebuild"}

\* All operations of an event are done: the next one of a rebuild, the handlers of an emit.
EventDone(j) ==
  /\ Projecting(j) /\ ops[j] = <<>>
  /\ todo' = [todo EXCEPT ![j] = IF pc[j] = "emit" THEN @ ELSE Tail(@)]
  /\ ops' = [ops EXCEPT ![j] = IF todo'[j] = <<>> \/ pc[j] = "emit" THEN <<>> ELSE PlanOf[log[Head(todo'[j])]]]
  /\ Goto(j, IF todo'[j] = <<>> THEN "idle" ELSE IF pc[j] = "emit" THEN "handle" ELSE "rebuild")
  /\ UNCHANGED <<store, log, graph, found, outbox, answer, history, budget>>

\* bus.on('task.created'): dispatch to the outbox, a failure is ignored; the emit returns.
Handle(j) ==
  LET i == Head(todo[j]) IN
  /\ pc[j] = "handle" /\ Goto(j, "idle")
  /\ outbox' \in (IF log[i].type = "task.created" THEN {outbox, outbox \cup {i}} ELSE {outbox})
  /\ answer' = [answer EXCEPT ![i] = "ok"]
  /\ todo' = [todo EXCEPT ![j] = <<>>]
  /\ UNCHANGED <<store, log, graph, ops, found, history, budget>>

\* The job throws: an emit answers an error, a rebuild leaves the rest of the log out.
Throw(j) ==
  /\ Goto(j, "idle")
  /\ todo' = [todo EXCEPT ![j] = <<>>] /\ ops' = [ops EXCEPT ![j] = <<>>]
  /\ found' = [found EXCEPT ![j] = "unknown"]
  /\ IF pc[j] = "rebuild"
     THEN skipped' = skipped \cup ToSet(Tail(todo[j])) /\ UNCHANGED answer
     ELSE answer' = [answer EXCEPT ![Head(todo[j])] = "error"] /\ UNCHANGED skipped
-----------------------------------------------------------------------------
(* The graph stores                                                        *)

Pending(j) == Projecting(j) /\ ops[j] # <<>>
Advance(j) == ops' = [ops EXCEPT ![j] = Tail(@)]

\* A guarded link: getEntity first, on its own.
Guard(j) ==
  /\ Pending(j) /\ Head(ops[j]).if # {}
  /\ ops' = [ops EXCEPT ![j] =
       IF \A id \in Head(@).if : Has(id) THEN <<[Head(@) EXCEPT !.if = {}]>> \o Tail(@) ELSE Tail(@)]
  /\ UNCHANGED <<store, log, graph, pc, todo, found, outbox, answer, history, budget>>

Stamp(j) == Head(todo[j])

\* Mutant: an upsert replaces the data instead of merging it.
MemoryReplace(j) ==
  LET op == Head(ops[j]) IN
  /\ store = "memory" /\ Pending(j) /\ op.if = {}
  /\ \/ /\ \A id \in op.ends : Has(id)
        /\ graph' = [graph EXCEPT ![op.key] = <<{Stamp(j)}>>]
        /\ Advance(j)
        /\ UNCHANGED <<pc, todo, found, answer, skipped>>
     \/ /\ \E id \in op.ends : ~Has(id)
        /\ Throw(j) /\ UNCHANGED graph
  /\ UNCHANGED <<store, log, outbox, overlapped, interrupted, budget>>

\* Mutant: an error of a link is swallowed, and the event goes on.
MemorySwallow(j) ==
  LET op == Head(ops[j]) IN
  /\ store = "memory" /\ Pending(j) /\ op.if = {}
  /\ graph' = IF \A id \in op.ends : Has(id)
              THEN [graph EXCEPT ![op.key] =
                     IF IsNode(op.key) THEN <<(UNION ToSet(@)) \cup {Stamp(j)}>> ELSE <<{Stamp(j)}>>]
              ELSE graph
  /\ Advance(j)
  /\ UNCHANGED <<store, log, pc, todo, found, outbox, answer, history, budget>>

\* InMemoryGraphStore: upsertEntity merges; link replaces an edge, and throws if an end is missing.
MemoryWrite(j) ==
  LET op == Head(ops[j]) IN
  /\ store = "memory" /\ Pending(j) /\ op.if = {}
  /\ \/ /\ \A id \in op.ends : Has(id)
        /\ graph' = [graph EXCEPT ![op.key] =
             IF IsNode(op.key) THEN <<(UNION ToSet(@)) \cup {Stamp(j)}>> ELSE <<{Stamp(j)}>>]
        /\ Advance(j)
        /\ UNCHANGED <<pc, todo, found, answer, skipped>>
     \/ /\ \E id \in op.ends : ~Has(id)
        /\ Throw(j) /\ UNCHANGED graph
  /\ UNCHANGED <<store, log, outbox, overlapped, interrupted, budget>>

\* HydraHttpGraphStore.upsertEntity: getEntity, then CREATE or SET.
HydraGet(j) ==
  LET op == Head(ops[j]) IN
  /\ store = "hydra" /\ Pending(j) /\ op.if = {} /\ found[j] = "unknown"
  /\ found' = [found EXCEPT ![j] = IF graph[op.key] # <<>> THEN "yes" ELSE "no"]
  /\ UNCHANGED <<store, log, graph, pc, todo, ops, outbox, answer, history, budget>>

\* Mutant: always CREATE.
HydraCreate(j) ==
  LET op == Head(ops[j]) IN
  /\ store = "hydra" /\ Pending(j) /\ found[j] # "unknown"
  /\ graph' = [graph EXCEPT ![op.key] = Append(@, {Stamp(j)})]
  /\ found' = [found EXCEPT ![j] = "unknown"] /\ Advance(j)
  /\ UNCHANGED <<store, log, pc, todo, outbox, answer, history, budget>>

HydraWrite(j) ==
  LET op == Head(ops[j]) IN
  /\ store = "hydra" /\ Pending(j) /\ found[j] # "unknown"
  /\ graph' = [graph EXCEPT ![op.key] =
       IF found[j] = "yes" THEN [c \in DOMAIN @ |-> {Stamp(j)}] ELSE Append(@, {Stamp(j)})]
  /\ found' = [found EXCEPT ![j] = "unknown"] /\ Advance(j)
  /\ UNCHANGED <<store, log, pc, todo, outbox, answer, history, budget>>

\* A query of a hydra operation fails.
QueryFails(j) ==
  /\ store = "hydra" /\ Pending(j) /\ faults > 0 /\ faults' = faults - 1
  /\ Throw(j) /\ interrupted' = TRUE
  /\ UNCHANGED <<store, log, graph, outbox, overlapped, rebuilds>>

\* The process of a job dies; with the in-memory store so do the graph and all jobs.
Crash(j) ==
  /\ pc[j] # "idle" /\ faults > 0 /\ faults' = faults - 1 /\ interrupted' = TRUE
  /\ LET dead == IF store = "memory" THEN Jobs ELSE {j} IN
     /\ pc' = [k \in Jobs |-> IF k \in dead THEN "idle" ELSE pc[k]]
     /\ todo' = [k \in Jobs |-> IF k \in dead THEN <<>> ELSE todo[k]]
     /\ ops' = [k \in Jobs |-> IF k \in dead THEN <<>> ELSE ops[k]]
     /\ found' = [k \in Jobs |-> IF k \in dead THEN "unknown" ELSE found[k]]
  /\ graph' = IF store = "memory" THEN [k \in Keys |-> <<>>] ELSE graph
  /\ UNCHANGED <<store, log, outbox, answer, skipped, overlapped, rebuilds>>

Project(j) == Guard(j) \/ MemoryWrite(j) \/ HydraGet(j) \/ HydraWrite(j) \/ QueryFails(j)

\* Nothing is in progress: the system may stop here.
Rest == (\A j \in Jobs : pc[j] = "idle") /\ UNCHANGED vars

Next ==
  \/ Rest
  \/ \E j \in Jobs : \/ \E e \in Events : Emit(j, e)
                     \/ StartRebuild(j) \/ Clear(j) \/ ReadLog(j) \/ EventDone(j) \/ Handle(j)
                     \/ Project(j) \/ Crash(j)

Spec == Init /\ [][Next]_vars
-----------------------------------------------------------------------------
(* Properties                                                              *)

Positions == 1 .. MaxLog

TypeOK ==
  /\ store \in Stores /\ log \in Seq(Events) /\ Len(log) <= MaxLog
  /\ graph \in [Keys -> Seq(SUBSET Positions)]
  /\ pc \in [Jobs -> {"idle", "clear", "read", "emit", "rebuild", "handle"}]
  /\ \A j \in Jobs : todo[j] \in Seq(DOMAIN log) /\ \A k \in DOMAIN ops[j] : ops[j][k].key \in Keys
  /\ found \in [Jobs -> {"unknown", "yes", "no"}]
  /\ outbox \subseteq DOMAIN log /\ skipped \subseteq DOMAIN log
  /\ answer \in [Positions -> {"none", "ok", "error"}]
  /\ overlapped \in BOOLEAN /\ interrupted \in BOOLEAN
  /\ rebuilds \in 0 .. MaxRebuilds /\ faults \in 0 .. MaxFaults

\* The log is the truth: whatever crashes, fails, overlaps or is rebuilt, the graph holds
\* nothing that an event of the log has not put there (README.md: "Append-only event log").
GraphFollowsLog ==
  \A key \in Keys : \A c \in DOMAIN graph[key] :
    /\ graph[key][c] # {}
    /\ \A i \in graph[key][c] :
         i \in DOMAIN log /\ \E k \in DOMAIN PlanOf[log[i]] : PlanOf[log[i]][k].key = key

\* Each store keeps its shape: the in-memory one never holds an edge without both of its
\* ends, even while a rebuild clears it under the projections in progress; HydraDB, which
\* has no MERGE, makes one node of one id as long as jobs do not overlap, whatever fails
\* half-way and is emitted or rebuilt again.
EdgesHaveEnds ==
  \A key \in Keys : ~IsNode(key) /\ graph[key] # <<>> => Has(key[1]) /\ Has(key[3])
OneNodePerId == ~overlapped => \A key \in Keys : Len(graph[key]) <= 1
StoreKeepsShape == (store = "memory" => EdgesHaveEnds) /\ OneNodePerId

\* The reference: which events of the log have written a key, read off the log as a whole.
Present(id, i) ==
  \E h \in 1 .. i \ skipped : \E k \in DOMAIN PlanOf[log[h]] : PlanOf[log[h]][k].key = <<id>>
Reached(i, k) ==
  LET P == PlanOf[log[i]]
      Fits(op) == store = "memory" => \A id \in op.ends : Present(id, i)
      Skips(op) == \E id \in op.if : ~Present(id, i)
  IN  ~Skips(P[k]) /\ \A m \in 1 .. k : Fits(P[m]) \/ Skips(P[m])
Writers(key) ==
  {i \in DOMAIN log \ skipped :
     \E k \in DOMAIN PlanOf[log[i]] : PlanOf[log[i]][k].key = key /\ Reached(i, k)}
Expected(key) ==
  IF Writers(key) = {} THEN <<>>
  ELSE IF store = "memory" /\ IsNode(key) THEN <<Writers(key)>>
  ELSE <<{Max(Writers(key))}>>

Settled == ~overlapped /\ ~interrupted /\ \A j \in Jobs : pc[j] = "idle"

\* Emitting one by one and rebuilding give the same graph, the one the log describes: an
\* event that threw half-way has left the same half in both; only what comes after an event
\* at which a rebuild threw is missing.
GraphIsLog == Settled => \A key \in Keys : graph[key] = Expected(key)

\* What the agents are given is in the graph, with all its links: a task whose projection
\* threw is not dispatched, although it is in the log.  (Until a rebuild: when emits have
\* overlapped, the log may hold a dispatched task before its subject, and the rebuild throws.)
DispatchedIsProjected ==
  ~interrupted /\ rebuilds = MaxRebuilds =>
    \A i \in outbox : \A k \in DOMAIN PlanOf[log[i]] :
      PlanOf[log[i]][k].if = {} => graph[PlanOf[log[i]][k].key] # <<>>
=============================================================================
