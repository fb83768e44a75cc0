----------------------------- MODULE EventIngest -----------------------------
(***************************************************************************)
(* CanonicalEventIngestor behind POST /v1/events and /v1/events/batch: the *)
(* server takes requests of one or more envelopes, looks each one up,      *)
(* persists it, projects it into HydraDB and moves the checkpoint.  Every  *)
(* await is the end of a step, because the server runs other requests      *)
(* there; the event store, the graph and the checkpoint outlive the server.*)
(*                                                                         *)
(* EventLog models how the store appends; here appending and reading it    *)
(* are atomic.                                                             *)
(***************************************************************************)
EXTENDS Naturals, Sequences, FiniteSets

CONSTANTS
  Requests,      \* requests that reach the server
  Envelopes, Id, \* envelopes, and the event_id of each
  Type, System,  \* their event_type, with _ for the dots, and source.system
  Complete,      \* envelopes with every other field the contract asks for, of its version
  Intact,        \* envelopes whose payload_sha256, if there is one, is right
  Batches,       \* what a request may carry: a sequence of envelopes
  NoId,          \* the checkpoint of a new installation
  Crashes        \* bound: how often the server dies

Ids == {Id[e] : e \in Envelopes}

ASSUME EnvelopeAssumption == NoId \notin Ids
ASSUME BatchAssumption == Batches \subseteq Seq(Envelopes) \ {<<>>}
ASSUME CrashAssumption == Crashes \in Nat

EVENT_TYPES == {
  "idea_created", "idea_generator_executed", "research_recorded", "capability_defined",
  "capability_updated", "build_requested", "build_started", "build_attempt_started",
  "build_task_started", "build_task_completed", "build_failure_recorded",
  "build_repair_started", "build_repair_completed", "build_audit_completed",
  "build_artifact_created", "build_completed", "product_graduated", "site_registered",
  "deployment_started", "deployment_completed", "deployment_rolled_back",
  "observation_recorded", "observation_invalidated", "hypothesis_created",
  "experiment_created", "experiment_arm_created", "experiment_arm_assigned",
  "experiment_observation_recorded", "experiment_completed", "standard_registered",
  "standard_version_registered", "standard_conformance_observed", "strategy_registered",
  "strategy_version_registered", "strategy_evaluated", "strategy_promoted",
  "strategy_deprecated", "strategy_rolled_back", "failure_classified",
  "model_execution_recorded", "artifact_created", "artifact_invalidated"}
SYSTEMS == {"finalbuilds2", "builda-v2", "agentseolab", "unbundled"}

\* The contract, and then the hash of the payload.
validateEvent(e) == e \in Complete /\ Type[e] \in EVENT_TYPES /\ System[e] \in SYSTEMS
Valid == {e \in Envelopes : validateEvent(e) /\ e \in Intact}

VARIABLES
  log,        \* events.jsonl
  projected,  \* how often the statements of an envelope ran in the graph
  checkpoint, \* last_event_id
  pc,         \* where each request is
  batch,      \* its envelopes
  answers,    \* the results of those dealt with so far
  crashes,    \* remaining deaths
  shared      \* history: the ids two requests have carried that were in progress together

vars == <<log, projected, checkpoint, pc, batch, answers, crashes, shared>>

InProgress == {"lookup", "append", "project", "checkpoint"}
PCs == {"idle", "done", "lost"} \cup InProgress
Answers == {"new", "duplicate", "invalid", "conflict"}

Init ==
  /\ log = <<>>
  /\ projected = [e \in Envelopes |-> 0]
  /\ checkpoint = NoId
  /\ pc = [q \in Requests |-> "idle"]
  /\ batch = [q \in Requests |-> <<>>]
  /\ answers = [q \in Requests |-> <<>>]
  /\ crashes = Crashes
  /\ shared = {}

Goto(q, l) == pc' = [pc EXCEPT ![q] = l]

\* The envelope of the request that is being ingested.
Current(q) == batch[q][Len(answers[q]) + 1]

\* Mutant: one envelope too many.
AnswerOneMore(q, result) ==
  /\ answers' = [answers EXCEPT ![q] = Append(@, result)]
  /\ Goto(q, IF Len(answers[q]) = Len(batch[q]) THEN "done" ELSE "lookup")

\* The envelope is dealt with; the response is sent after the last one.
Answer(q, result) ==
  /\ answers' = [answers EXCEPT ![q] = Append(@, result)]
  /\ Goto(q, IF Len(answers[q]) + 1 = Len(batch[q]) THEN "done" ELSE "lookup")

Carries(b, id) == \E i \in DOMAIN b : Id[b[i]] = id
Stored(id) == Carries(log, id)
InLog(e) == \E i \in DOMAIN log : log[i] = e

\* getById: the first line with the id.
Existing(id) ==
  log[CHOOSE i \in DOMAIN log : Id[log[i]] = id /\ \A j \in 1 .. i - 1 : Id[log[j]] # id]

\* The ids of a new request that others in progress carry too: nothing keeps them apart.
SharedWith(b) ==
  {id \in Ids : Carries(b, id) /\ \E p \in Requests : pc[p] \in InProgress /\ Carries(batch[p], id)}

Receive(q, b) ==
  /\ pc[q] = "idle"
  /\ batch' = [batch EXCEPT ![q] = b]
  /\ shared' = shared \cup SharedWith(b)
  /\ Goto(q, "lookup")
  /\ UNCHANGED <<log, projected, checkpoint, answers, crashes>>

\* Mutant: the whole envelope is looked up, not its id.
LookupEnvelope(q) ==
  /\ pc[q] = "lookup"
  /\ LET e == Current(q) IN
     \/ e \notin Valid /\ Answer(q, "invalid")
     \/ e \in Valid /\ ~InLog(e) /\ Goto(q, "append") /\ UNCHANGED answers
     \/ e \in Valid /\ InLog(e) /\ Answer(q, "duplicate")
  /\ UNCHANGED <<log, projected, checkpoint, batch, crashes, shared>>

\* Mutant: a known id is a duplicate, whatever the envelope says.
LookupId(q) ==
  /\ pc[q] = "lookup"
  /\ LET e == Current(q) IN
     \/ e \notin Valid /\ Answer(q, "invalid")
     \/ e \in Valid /\ ~Stored(Id[e]) /\ Goto(q, "append") /\ UNCHANGED answers
     \/ e \in Valid /\ Stored(Id[e]) /\ Answer(q, "duplicate")
  /\ UNCHANGED <<log, projected, checkpoint, batch, crashes, shared>>

\* Mutant: a duplicate is projected again.
LookupAndProject(q) ==
  /\ pc[q] = "lookup"
  /\ LET e == Current(q) IN
     \/ e \notin Valid /\ Answer(q, "invalid")
     \/ e \in Valid /\ ~Stored(Id[e]) /\ Goto(q, "append") /\ UNCHANGED answers
     \/ e \in Valid /\ Stored(Id[e]) /\ Goto(q, "project") /\ UNCHANGED answers
  /\ UNCHANGED <<log, projected, checkpoint, batch, crashes, shared>>

\* validateEvent and the payload hash, then getById: identical envelopes are duplicates,
\* different ones under one id conflict.
Lookup(q) ==
  /\ pc[q] = "lookup"
  /\ LET e == Current(q) IN
     \/ e \notin Valid /\ Answer(q, "invalid")
     \/ e \in Valid /\ ~Stored(Id[e]) /\ Goto(q, "append") /\ UNCHANGED answers
     \/ /\ e \in Valid /\ Stored(Id[e])
        /\ Answer(q, IF Existing(Id[e]) = e THEN "duplicate" ELSE "conflict")
  /\ UNCHANGED <<log, projected, checkpoint, batch, crashes, shared>>

AppendEnvelope(q) ==
  /\ pc[q] = "append"
  /\ log' = Append(log, Current(q))
  /\ Goto(q, "project")
  /\ UNCHANGED <<projected, checkpoint, batch, answers, crashes, shared>>

\* Best effort: an error of the graph is caught and nothing is retried.
Project(q) ==
  /\ pc[q] = "project"
  /\ \/ projected' = [projected EXCEPT ![Current(q)] = @ + 1]
     \/ UNCHANGED projected
  /\ Goto(q, "checkpoint")
  /\ UNCHANGED <<log, checkpoint, batch, answers, crashes, shared>>

\* update keeps what it does not set, and starts from an empty record if the file is torn.
SaveCheckpoint(id) == checkpoint' = id

\* The checkpoint moves whether or not the projection succeeded.
UpdateCheckpoint(q) ==
  /\ pc[q] = "checkpoint"
  /\ SaveCheckpoint(Id[Current(q)])
  /\ Answer(q, "new")
  /\ UNCHANGED <<log, projected, batch, crashes, shared>>

\* The server dies: the requests in progress get no response.
Crash ==
  /\ crashes > 0 /\ crashes' = crashes - 1
  /\ pc' = [q \in Requests |-> IF pc[q] \in InProgress THEN "lost" ELSE pc[q]]
  /\ UNCHANGED <<log, projected, checkpoint, batch, answers, shared>>

Ingest(q) == Lookup(q) \/ AppendEnvelope(q) \/ Project(q) \/ UpdateCheckpoint(q)

Next ==
  \/ \E q \in Requests : Ingest(q) \/ \E b \in Batches : Receive(q, b)
  \/ Crash

Spec == Init /\ [][Next]_vars
-----------------------------------------------------------------------------
(* Properties                                                              *)

TypeOK ==
  /\ log \in Seq(Envelopes)
  /\ projected \in [Envelopes -> Nat]
  /\ checkpoint \in Ids \cup {NoId}
  /\ pc \in [Requests -> PCs]
  /\ batch \in [Requests -> Batches \cup {<<>>}]
  /\ answers \in [Requests -> Seq(Answers)]
  /\ \A q \in Requests : pc[q] = "idle" => answers[q] = <<>>
  /\ \A q \in Requests : pc[q] \in InProgress => Len(answers[q]) < Len(batch[q])
  /\ crashes \in 0 .. Crashes
  /\ shared \subseteq Ids

Answered(q, i, results) == i \in DOMAIN answers[q] /\ answers[q][i] \in results

\* An accepted envelope is in the store exactly as it was received, and one refused for a
\* conflict is not, and never will be, whatever is redelivered after a crash
\* (canonical-ingestor.js: "idempotent / conflict detection"), unless requests with its id were
\* in progress together: of two versions of an event both may be looked up before either is
\* appended, and a later redelivery of the second is refused although it is stored.
AnswersAreTrue ==
  \A q \in Requests : \A i \in DOMAIN batch[q] :
    /\ Answered(q, i, {"new", "duplicate"}) => InLog(batch[q][i])
    /\ Answered(q, i, {"conflict"}) =>
         /\ Stored(Id[batch[q][i]])
         /\ Id[batch[q][i]] \in shared \/ ~InLog(batch[q][i])

\* CREATE is not idempotent in HydraDB: the statements of an event run at most once for
\* each time it is in the store, however often it is redelivered and whoever overlaps.
ProjectedAsStored ==
  \A e \in Envelopes : projected[e] <= Cardinality({i \in DOMAIN log : log[i] = e})

\* Every event_id is acknowledged only after it is stored, and stored once unless requests
\* that carry it were in progress together.
Log == INSTANCE AppendLog WITH
  Events <- Ids,
  lines <- [i \in DOMAIN log |-> Id[log[i]]],
  acked <- {id \in Ids : \E q \in Requests : \E i \in DOMAIN batch[q] :
              /\ pc[q] = "done" /\ Answered(q, i, {"new", "duplicate"})
              /\ Id[batch[q][i]] = id},
  contested <- shared

ImplementsLog == Log!Spec
=============================================================================
