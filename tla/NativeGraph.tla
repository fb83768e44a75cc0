----------------------------- MODULE NativeGraph -----------------------------
(***************************************************************************)
(* EventIngest composed with the native HydraDB graph it projects into.    *)
(* projectEvent (src/graph/hydradb/projector.js) turns an envelope into at *)
(* most one statement: CREATE, which makes another node each time it runs, *)
(* or MATCH SET, which sets every node it finds and is lost when there is  *)
(* none.                                                                   *)
(***************************************************************************)
EXTENDS EventIngest

CONSTANTS
  Subject, \* of each envelope: the id of the node it is about
  None

CreateLabels == [
  build_started |-> "BuildRun", build_attempt_started |-> "BuildAttempt",
  build_task_completed |-> "Task", build_failure_recorded |-> "Failure",
  build_repair_started |-> "RepairAttempt", build_audit_completed |-> "ReleaseGate",
  build_artifact_created |-> "Artifact", strategy_registered |-> "Strategy",
  strategy_version_registered |-> "StrategyVersion", observation_recorded |-> "Observation",
  site_registered |-> "Site", failure_classified |-> "FailureClass",
  hypothesis_created |-> "Hypothesis", experiment_created |-> "Experiment",
  idea_created |-> "Idea", capability_defined |-> "Capability",
  product_graduated |-> "Product"]
SetLabels == [build_completed |-> "BuildRun", build_repair_completed |-> "RepairAttempt"]

Creates(e) == Type[e] \in DOMAIN CreateLabels
Sets(e) == Type[e] \in DOMAIN SetLabels
Node(e) ==
  IF Creates(e) THEN <<CreateLabels[Type[e]], Subject[e]>>
  ELSE IF Sets(e) THEN <<SetLabels[Type[e]], Subject[e]>> ELSE <<>>
Nodes == {Node(e) : e \in {f \in Envelopes : Creates(f) \/ Sets(f)}}

VARIABLES
  native, \* the copies of each node: the envelope that made it, and the one that set it last
  raced   \* history: envelopes of one node have been in progress in two requests together

nvars == <<vars, native, raced>>

\* Mutant: a node that is set and does not exist is made.
RunUpsert(graph, e) ==
  IF Creates(e) THEN [graph EXCEPT ![Node(e)] = Append(@, [made |-> e, set |-> None])]
  ELSE IF Sets(e)
  THEN [graph EXCEPT ![Node(e)] =
         IF @ = <<>> THEN <<[made |-> e, set |-> e]>> ELSE [c \in DOMAIN @ |-> [@[c] EXCEPT !.set = e]]]
  ELSE graph

\* graph.query of the envelope's statement.
Run(graph, e) ==
  IF Creates(e) THEN [graph EXCEPT ![Node(e)] = Append(@, [made |-> e, set |-> None])]
  ELSE IF Sets(e) THEN [graph EXCEPT ![Node(e)] = [c \in DOMAIN @ |-> [@[c] EXCEPT !.set = e]]]
  ELSE graph

About(q) == IF pc[q] \in InProgress THEN {Node(batch[q][i]) : i \in DOMAIN batch[q]} ELSE {}

NInit == Init /\ native = [n \in Nodes |-> <<>>] /\ raced = FALSE

NReceive(q, b) ==
  /\ Receive(q, b)
  /\ raced' = (raced \/ \E p \in Requests \ {q} : \E i \in DOMAIN b : Node(b[i]) \in About(p) \cap Nodes)
  /\ UNCHANGED native

\* The statement runs, or the query fails and nothing of it is repeated.
NProject(q) ==
  /\ Project(q)
  /\ native' = IF projected' = projected THEN native ELSE Run(native, Current(q))
  /\ UNCHANGED raced

NNext ==
  \/ \E q \in Requests : NProject(q) \/ \E b \in Batches : NReceive(q, b)
  \/ \E q \in Requests : (Lookup(q) \/ AppendEnvelope(q) \/ UpdateCheckpoint(q)) /\ UNCHANGED <<native, raced>>
  \/ Crash /\ UNCHANGED <<native, raced>>

NSpec == NInit /\ [][NNext]_nvars
-----------------------------------------------------------------------------
(* Properties                                                              *)

\* The graph, read off the log as a whole: every projected CREATE in it is a copy, set last by
\* the last projected SET that follows it in the log.
Ran(i) == projected[log[i]] > 0
Makers(n) == {i \in DOMAIN log : Creates(log[i]) /\ Node(log[i]) = n /\ Ran(i)}
Setters(n) == {i \in DOMAIN log : Sets(log[i]) /\ Node(log[i]) = n /\ Ran(i)}
Copy(n, i) ==
  LET later == {j \in Setters(n) : j > i}
  IN  [made |-> log[i],
       set |-> IF later = {} THEN None ELSE log[CHOOSE j \in later : \A k \in later : k <= j]]

\* Unless envelopes of one node race, the native graph is what the log says of the events that
\* were projected, whatever is redelivered, refused, lost to a failing graph or cut off by a
\* crash: no copy of its own, no completion lost or applied out of order.
NativeIsLog ==
  ~raced => \A n \in Nodes :
    /\ Len(native[n]) = Cardinality(Makers(n))
    /\ \A i \in Makers(n) : \E c \in DOMAIN native[n] : native[n][c] = Copy(n, i)

\* Even when they race, a node is made and set only by stored events about it.
NativeFollowsLog ==
  \A n \in Nodes : \A c \in DOMAIN native[n] :
    LET made == native[n][c].made
        set == native[n][c].set
    IN  /\ InLog(made) /\ Creates(made) /\ Node(made) = n
        /\ set # None => InLog(set) /\ Sets(set) /\ Node(set) = n
=============================================================================
