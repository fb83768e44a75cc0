------------------------------- MODULE FleetLoop -------------------------------
(***************************************************************************)
(* The control loop over the fleet.  deploy-and-register.mjs publishes a   *)
(* site and lists it; bootstrap-registry registers the listed sites and    *)
(* the standards they desire; observe-sites.mjs probes every listed site;  *)
(* conformance.mjs turns the latest observations into a compliance         *)
(* verdict; /v1/drift/repair turns verdicts into tasks, which the bus      *)
(* hands to the outbox; outbox-consumer.mjs turns tasks into repairs on    *)
(* the agents' board.  A site stands for the pair of a site and the        *)
(* standard version it desires, and conforms or not: "ok" or "bad".        *)
(***************************************************************************)
EXTENDS Naturals, Sequences, FiniteSets, SequencesExt

CONSTANTS
  Sites,
  Fleet,       \* the sites that are registered and observed when the model starts
  Observers,   \* observe-sites.mjs that may be in progress together (cron, agents, operators)
  Judges,      \* conformance.mjs that may be in progress together
  Consumers,   \* outbox-consumer.mjs that may be in progress together
  KeepLast,    \* how many consumed ids a pass saves (500)
  MaxTasks,    \* bound: length of the outbox
  MaxBreaks,   \* bound: how often sites break
  MaxFaults,   \* bound: failed commands, failed queries and killed consumers
  Commands     \* whether REPAIR_CMD is set: TRUE, FALSE or both, to be tried in turn

ASSUME FleetAssumption ==
  /\ IsFiniteSet(Sites) /\ Fleet \subseteq Sites
  /\ {KeepLast, MaxTasks, MaxBreaks, MaxFaults} \subseteq Nat /\ Commands \subseteq BOOLEAN

Tasks == 1 .. MaxTasks       \* a task is its line of the outbox
None == "none"

VARIABLES
  real,        \* whether each site really conforms; "none" before it is deployed
  listed,      \* the sites with a manifest in registry/sites
  desired,     \* the sites the graph holds with a CONFORMS_TO edge
  seen,        \* the latest observation of each site
  verdict,     \* its standard.compliance observation
  probe, ruling, \* what observers and judges have read and not yet recorded
  deploy,      \* deploy-and-register: [site, at]
  drift,       \* what a /v1/drift/repair in progress has still to emit
  outbox,      \* the tasks, [site, kind]
  consumer,    \* passes of the consumer: [at, line, last, consumed, open]
  consumed,    \* runtime/consumer-state.json
  open,        \* runtime/open-repairs.json: the sites with an open repair
  command,     \* whether REPAIR_CMD is set (.env); it is "" by default
  board,       \* the agents' board: the state of each task's repair; "brief" when the task was
               \* consumed for a brief in runtime/repairs alone
  overlapped, lost, \* history: two passes were in progress together; a pass was cut off
  breaks, faults

sensing == <<seen, verdict, probe, ruling>>
registry == <<listed, desired, deploy>>
estate == <<real, sensing, registry, command>>
files == <<consumed, open>>
queue == <<outbox, consumer, files, board, overlapped, lost>>
vars == <<real, sensing, registry, drift, queue, breaks, faults, command>>

Idle == [at |-> "idle", line |-> 1, last |-> 0, consumed |-> <<>>, open |-> {}]
NoDeploy == [site |-> None, at |-> "idle"]

Init ==
  /\ real \in [Sites -> {"ok", "bad", None}] /\ \A s \in Sites : real[s] = None <=> s \notin Fleet
  /\ listed = Fleet /\ desired = Fleet /\ deploy = NoDeploy
  /\ seen = [s \in Sites |-> None] /\ verdict = [s \in Sites |-> None]
  /\ probe = [o \in Observers |-> <<>>] /\ ruling = [k \in Judges |-> <<>>]
  /\ drift = <<>> /\ outbox = <<>>
  /\ consumer = [c \in Consumers |-> Idle] /\ consumed = <<>> /\ open = {}
  /\ board = [t \in Tasks |-> None] /\ command \in Commands
  /\ overlapped = FALSE /\ lost = FALSE /\ breaks = MaxBreaks /\ faults = MaxFaults
-----------------------------------------------------------------------------
(* Deployment and registration                                             *)

At(l) == deploy' = [deploy EXCEPT !.at = l]
Judge(s) == IF seen[s] = "ok" THEN "ok" ELSE "bad"

\* The receipt says release_passed; wrangler publishes the site.
Deploy(s) ==
  /\ deploy = NoDeploy /\ s \notin listed
  /\ deploy' = [site |-> s, at |-> "add"]
  /\ \E q \in {"ok", "bad"} : real' = [real EXCEPT ![s] = q]
  /\ UNCHANGED <<sensing, listed, desired, drift, queue, breaks, faults, command>>

\* site-add.mjs writes the manifest.
AddSite ==
  /\ deploy.at = "add" /\ listed' = listed \cup {deploy.site} /\ At("register")
  /\ UNCHANGED <<real, sensing, desired, drift, queue, breaks, faults, command>>

\* register-sites.mjs posts a canonical site.registered event for every manifest, each under a
\* fresh event_id: they reach the native graph, not the entities this loop reads.
RegisterSites ==
  /\ deploy.at = "register" /\ At("observe")
  /\ UNCHANGED <<real, sensing, listed, desired, drift, queue, breaks, faults, command>>

\* The script's own observe-sites.mjs, all sites in one step.
ObserveAll ==
  /\ deploy.at = "observe" /\ At("conformance")
  /\ seen' = [s \in Sites |-> IF s \in listed THEN real[s] ELSE seen[s]]
  /\ UNCHANGED <<real, listed, desired, verdict, probe, ruling, drift, queue, breaks, faults, command>>

Ended == [site |-> None, at |-> "ended"]

\* Its own conformance.mjs.  (Its exit status, 1 when any site of the fleet fails, becomes the
\* deployment's and is left out.)
JudgeAll ==
  /\ deploy.at = "conformance"
  /\ verdict' = [s \in Sites |-> IF s \in desired THEN Judge(s) ELSE verdict[s]]
  /\ deploy' = Ended
  /\ UNCHANGED <<real, listed, desired, seen, probe, ruling, drift, queue, breaks, faults, command>>

\* One of the four commands fails or times out; what is done stays done.
DeployFails ==
  /\ deploy.at \in {"add", "register", "observe", "conformance"} /\ faults > 0 /\ faults' = faults - 1
  /\ deploy' = Ended
  /\ UNCHANGED <<real, sensing, listed, desired, drift, queue, breaks, command>>

\* bootstrap-registry.mjs, one manifest.
Bootstrap(s) ==
  /\ s \in listed \ desired /\ desired' = desired \cup {s}
  /\ UNCHANGED <<real, sensing, listed, deploy, drift, queue, breaks, faults, command>>
-----------------------------------------------------------------------------
(* Observation and judgement                                               *)

Probe(o, s) ==
  /\ probe[o] = <<>> /\ s \in listed
  /\ probe' = [probe EXCEPT ![o] = <<s, real[s]>>]
  /\ UNCHANGED <<real, seen, verdict, ruling, registry, drift, queue, breaks, faults, command>>

Post(o) ==
  /\ probe[o] # <<>>
  /\ seen' = [seen EXCEPT ![probe[o][1]] = probe[o][2]]
  /\ probe' = [probe EXCEPT ![o] = <<>>]
  /\ UNCHANGED <<real, verdict, ruling, registry, drift, queue, breaks, faults, command>>

Evaluate(k, s) ==
  /\ ruling[k] = <<>> /\ s \in desired
  /\ ruling' = [ruling EXCEPT ![k] = <<s, Judge(s)>>]
  /\ UNCHANGED <<real, seen, verdict, probe, registry, drift, queue, breaks, faults, command>>

\* Mutant: only failures are recorded.
RecordFailure(k) ==
  /\ ruling[k] # <<>>
  /\ verdict' = [verdict EXCEPT ![ruling[k][1]] = IF ruling[k][2] = "bad" THEN "bad" ELSE @]
  /\ ruling' = [ruling EXCEPT ![k] = <<>>]
  /\ UNCHANGED <<real, seen, probe, registry, drift, queue, breaks, faults, command>>

\* recordCompliance: one observation id per site and version, overwritten.
Record(k) ==
  /\ ruling[k] # <<>>
  /\ verdict' = [verdict EXCEPT ![ruling[k][1]] = ruling[k][2]]
  /\ ruling' = [ruling EXCEPT ![k] = <<>>]
  /\ UNCHANGED <<real, seen, probe, registry, drift, queue, breaks, faults, command>>
-----------------------------------------------------------------------------
(* Drift and repair tasks                                                  *)

\* standardDrift: what is desired and was not found compliant.
Drift == {s \in desired : verdict[s] # "ok"}

FindDrift ==
  /\ drift = <<>> /\ Len(outbox) < MaxTasks /\ Drift # {}
  /\ drift' = SetToSeq(Drift)
  /\ UNCHANGED <<estate, queue, breaks, faults>>

\* createRepairTasks: a fresh task each time; the bus dispatches it to the outbox.
CreateTask ==
  /\ drift # <<>>
  /\ outbox' = IF Len(outbox) < MaxTasks
               THEN Append(outbox, [site |-> Head(drift), kind |-> "standard-reconcile"]) ELSE outbox
  /\ drift' = Tail(drift)
  /\ UNCHANGED <<estate, consumer, files, board, overlapped, lost, breaks, faults>>

\* The mirror of a product build, which is not a repair.
MirrorBuild ==
  /\ Len(outbox) < MaxTasks
  /\ outbox' = Append(outbox, [site |-> None, kind |-> "product-build"])
  /\ UNCHANGED <<estate, drift, consumer, files, board, overlapped, lost, breaks, faults>>
-----------------------------------------------------------------------------
(* outbox-consumer.mjs                                                     *)

Line(c) == consumer[c].line
Task(c) == outbox[Line(c)]
Repairing(c) == consumer[c].at = "line" /\ Line(c) <= consumer[c].last
Set(c, r) == consumer' = [consumer EXCEPT ![c] = r]
Ack(c) == [consumer[c] EXCEPT !.at = "line", !.line = @ + 1, !.consumed = Append(@, Line(c))]

Load(c) ==
  /\ consumer[c].at = "idle"
  /\ Set(c, [at |-> "line", line |-> 1, last |-> Len(outbox), consumed |-> consumed, open |-> open])
  /\ overlapped' = (overlapped \/ \E d \in Consumers : consumer[d].at # "idle")
  /\ UNCHANGED <<estate, drift, outbox, files, board, lost, breaks, faults>>

Consumed(c) == Line(c) \in ToSet(consumer[c].consumed)
IsRepair(t) == outbox[t].kind # "product-build"

\* A line that is consumed already, not a repair, or a duplicate of an open repair.
SkipLine(c) ==
  /\ Repairing(c)
  /\ \/ Consumed(c) /\ Set(c, [consumer[c] EXCEPT !.line = @ + 1])
     \/ ~Consumed(c) /\ ~IsRepair(Line(c)) /\ Set(c, Ack(c))
     \/ ~Consumed(c) /\ IsRepair(Line(c)) /\ Task(c).site \in consumer[c].open /\ Set(c, Ack(c))
  /\ UNCHANGED <<estate, drift, outbox, files, board, overlapped, lost, breaks, faults>>

\* Mutant: the open repairs are not looked at.
WantedAlways(c) == Repairing(c) /\ ~Consumed(c) /\ IsRepair(Line(c))

Wanted(c) ==
  Repairing(c) /\ ~Consumed(c) /\ IsRepair(Line(c)) /\ Task(c).site \notin consumer[c].open

\* dispatch-repair.sh: the idempotency key is the task's, so it has one repair at most.  Without
\* REPAIR_CMD nothing is asked: the brief in a file is all there is of the repair.
Accept(t) ==
  board' = [board EXCEPT ![t] = IF @ # None THEN @ ELSE IF command THEN "open" ELSE "brief"]

\* The brief is written, and REPAIR_CMD succeeds or there is none.
DispatchRepair(c) ==
  /\ Wanted(c) /\ Accept(Line(c))
  /\ Set(c, [consumer[c] EXCEPT !.at = "open", !.open = @ \cup {Task(c).site}])
  /\ UNCHANGED <<estate, drift, outbox, files, overlapped, lost, breaks, faults>>

\* Mutant: a task whose command failed is consumed.
AckFailed(c) ==
  /\ Wanted(c) /\ command /\ faults > 0 /\ faults' = faults - 1
  /\ Set(c, Ack(c))
  /\ UNCHANGED <<estate, drift, outbox, files, board, overlapped, lost, breaks>>

\* REPAIR_CMD fails: the task stays unconsumed and the pass goes on.
RepairFails(c) ==
  /\ Wanted(c) /\ command /\ faults > 0 /\ faults' = faults - 1
  /\ Set(c, [consumer[c] EXCEPT !.line = @ + 1])
  /\ UNCHANGED <<estate, drift, outbox, files, board, overlapped, lost, breaks>>

\* open-repairs.json is written whole; repair.dispatched is reported; the task is consumed.
WriteOpen(c) ==
  /\ consumer[c].at = "open"
  /\ open' = consumer[c].open /\ Set(c, Ack(c))
  /\ UNCHANGED <<estate, drift, outbox, consumed, board, overlapped, lost, breaks, faults>>

\* The last consumed ids are saved at the end of the pass.
Save(c) ==
  /\ consumer[c].at = "line" /\ Line(c) > consumer[c].last
  /\ LET ids == consumer[c].consumed
     IN  consumed' = SubSeq(ids, IF Len(ids) > KeepLast THEN Len(ids) - KeepLast + 1 ELSE 1, Len(ids))
  /\ Set(c, Idle)
  /\ UNCHANGED <<estate, drift, outbox, open, board, overlapped, lost, breaks, faults>>

\* A query of HydraDB throws, or the pass is killed: nothing more is saved.
CutOff(c) ==
  /\ consumer[c].at # "idle" /\ faults > 0 /\ faults' = faults - 1
  /\ Set(c, Idle) /\ lost' = TRUE
  /\ UNCHANGED <<estate, drift, outbox, files, board, overlapped, breaks>>
-----------------------------------------------------------------------------
(* Sites and agents                                                        *)

Break(s) ==
  /\ real[s] = "ok" /\ breaks > 0 /\ breaks' = breaks - 1
  /\ real' = [real EXCEPT ![s] = "bad"]
  /\ UNCHANGED <<sensing, registry, drift, queue, faults, command>>

\* An agent repairs the site and completes its task.
Repair(t) ==
  /\ board[t] = "open" /\ board' = [board EXCEPT ![t] = "done"]
  /\ real' = [real EXCEPT ![outbox[t].site] = "ok"]
  /\ UNCHANGED <<sensing, registry, drift, outbox, consumer, files, overlapped, lost>>
  /\ UNCHANGED <<breaks, faults, command>>

Consume(c) == Load(c) \/ SkipLine(c) \/ DispatchRepair(c) \/ WriteOpen(c) \/ Save(c)

Next ==
  \/ \E s \in Sites : Deploy(s) \/ Bootstrap(s) \/ Break(s)
  \/ AddSite \/ RegisterSites \/ ObserveAll \/ JudgeAll \/ DeployFails
  \/ \E o \in Observers : Post(o) \/ \E s \in Sites : Probe(o, s)
  \/ \E k \in Judges : Record(k) \/ \E s \in Sites : Evaluate(k, s)
  \/ FindDrift \/ CreateTask \/ MirrorBuild
  \/ \E c \in Consumers : Consume(c) \/ RepairFails(c) \/ CutOff(c)
  \/ \E t \in Tasks : Repair(t)

Spec == Init /\ [][Next]_vars

\* Cron runs the sensors, the judge and the consumer; the server finishes what it has begun.
\* Nothing schedules /v1/drift/repair, bootstrap-registry, a deployment or an agent.
FairSpec ==
  /\ Spec /\ WF_vars(CreateTask)
  /\ \A o \in Observers : WF_vars(Post(o)) /\ \A s \in Sites : SF_vars(Probe(o, s))
  /\ \A k \in Judges : WF_vars(Record(k)) /\ \A s \in Sites : SF_vars(Evaluate(k, s))
  /\ \A c \in Consumers : WF_vars(Consume(c))
-----------------------------------------------------------------------------
(* Properties                                                              *)

\* What becomes of a task that is consumed for itself: a repair on the board, which an agent may
\* have completed, or, without REPAIR_CMD, a brief that nobody is handed.
Outcomes == IF command THEN {"open", "done"} ELSE {"brief"}

TypeOK ==
  /\ real \in [Sites -> {"ok", "bad", None}] /\ listed \subseteq Sites /\ desired \subseteq listed
  /\ seen \in [Sites -> {"ok", "bad", None}] /\ verdict \in [Sites -> {"ok", "bad", None}]
  /\ \A o \in Observers : probe[o] = <<>> \/ probe[o] \in Sites \X {"ok", "bad"}
  /\ \A k \in Judges : ruling[k] = <<>> \/ ruling[k] \in Sites \X {"ok", "bad"}
  /\ deploy \in [site : Sites \cup {None},
                 at : {"idle", "add", "register", "observe", "conformance", "ended"}]
  /\ drift \in Seq(Sites)
  /\ outbox \in Seq([site : Sites \cup {None}, kind : {"standard-reconcile", "product-build"}])
  /\ Len(outbox) <= MaxTasks
  /\ consumer \in [Consumers -> [at : {"idle", "line", "open"}, line : Nat, last : Nat,
                                 consumed : Seq(Tasks), open : SUBSET Sites]]
  /\ consumed \in Seq(Tasks) /\ Len(consumed) <= KeepLast /\ open \subseteq Sites
  /\ board \in [Tasks -> {None} \cup Outcomes] /\ command \in Commands
  /\ overlapped \in BOOLEAN /\ lost \in BOOLEAN
  /\ breaks \in 0 .. MaxBreaks /\ faults \in 0 .. MaxFaults

RepairsOf(s) == {t \in DOMAIN outbox : outbox[t].site = s /\ board[t] \in Outcomes}

\* "ACK only after downstream acceptance": with REPAIR_CMD a repair task leaves the queue only
\* when a repair of its site has reached the board, whatever fails, is cut off or overlaps.
\* Without it the comment is not kept, and what the code does keep is that a brief for the
\* site was written.
AckedIsAccepted ==
  \A t \in ToSet(consumed) : IsRepair(t) => RepairsOf(outbox[t].site) # {}

\* "one OPEN repair per (site, standard, ...)": tasks for one site, created by each drift call
\* anew, and a consumed list that forgets do not make a second repair, or a second brief where
\* there is no REPAIR_CMD.
OneRepairPerSite == ~overlapped /\ ~lost => \A s \in Sites : Cardinality(RepairsOf(s)) <= 1

\* Reality wins: once a site of the loop conforms for good, so does its verdict, although
\* observers and judges in progress may still record what they read before.
VerdictCatchesUp == \A s \in Sites : <>[](s \in desired /\ real[s] = "ok") => <>[](verdict[s] = "ok")

\* Every repair task of the outbox leads to a repair of its site on the board, although
\* commands fail and passes are cut off.  Without REPAIR_CMD it leads to a brief and no further.
TasksAreActedOn ==
  \A t \in Tasks :
    (t \in DOMAIN outbox /\ IsRepair(t)) ~> (t \in DOMAIN outbox /\ RepairsOf(outbox[t].site) # {})

\* What the dedup promises by its comment: a task is dropped as a duplicate only of a repair
\* that is still open (outbox-consumer.mjs:91).
DuplicateOfOpenRepair ==
  [][\A c \in Consumers :
       Repairing(c) /\ ~Consumed(c) /\ IsRepair(Line(c)) /\ Task(c).site \in consumer[c].open
         /\ consumer'[c] = Ack(c)
       => \E t \in RepairsOf(Task(c).site) : board[t] = "open"]_vars
=============================================================================
