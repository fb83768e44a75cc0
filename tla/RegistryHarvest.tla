--------------------------- MODULE RegistryHarvest ---------------------------
(***************************************************************************)
(* The scripts that rewrite whole JSON files: supervisor.mjs lane B (the   *)
(* registry builds of the board, their post_build.sh and                   *)
(* postbuild-state.json), the LAND and HARVEST parts of watchdog.mjs       *)
(* (incumbents into ideas.registry.json, hypothesis drafts into            *)
(* hypotheses.json) and classify-and-queue.mjs (which stamps every idea).  *)
(* None of them takes a lock: each reads a file, works, and writes all of  *)
(* it back.  cron starts them whatever is still running; the watchdog      *)
(* starts a supervisor of its own and kills it after 110 s, though the     *)
(* post_build.sh it waits for may take 300 s and lives on.                 *)
(***************************************************************************)
EXTENDS Integers, FiniteSets

CONSTANTS
  Jobs,           \* scripts that may be in progress together
  Ideas,          \* ideas somebody speaks of
  Registered,     \* those in ideas.registry.json
  Tasks, NoTask,  \* registry builds on the board
  TaskIdea,       \* their [idea_id]
  Priced,         \* ideas whose incumbent entry has an http pricing_url
  Drafts, DraftId,\* hypothesis drafts, and the id of each
  Cited,          \* drafts with three citations, a metric and a window
  Batches, DraftFiles, \* what the research agents may write
  Deliveries,     \* bound: how often each draft file is (over)written
  Overlaps,       \* bound: how often a job starts while another one is in progress
  Reboots         \* bound

ASSUME HarvestAssumption ==
  /\ Registered \subseteq Ideas /\ Priced \subseteq Ideas /\ Cited \subseteq Drafts
  /\ TaskIdea \in [Tasks -> Ideas] /\ NoTask \notin Tasks
  /\ Batches \subseteq SUBSET Ideas \ {{}} /\ DraftFiles \subseteq SUBSET Drafts \ {{}}
  /\ Deliveries \in Nat /\ Overlaps \in Nat /\ Reboots \in Nat

VARIABLES
  done,       \* board: the tasks shown as done
  registry,   \* ideas.registry.json: the marks of the ideas
  recorded,   \* postbuild-state.json
  hypotheses, \* hypotheses.json: the drafts admitted
  torn,       \* files a kill left half written; JSON.parse refuses them
  batch,      \* incumbent-batch.json; {} when there is none
  drafts,     \* hypothesis-drafts.json; {} when there is none
  lastCount,  \* .last-done-count; -1 when there is none
  announced,  \* ids of the hypothesis.created events that reached the server
  orphans,    \* ideas whose post_build.sh outlived its supervisor
  pc, watching, count, todo, reg, notes, cur, input, hyp, \* of each job
  deliveries, overlaps, reboots

files == <<registry, recorded, hypotheses, torn>>
inbox == <<batch, drafts, deliveries>>
harvest == <<input, hyp>>
lane == <<todo, reg, notes, cur>>
rest == <<overlaps, reboots>>
vars == <<done, files, inbox, lastCount, announced, orphans, pc, watching, count, lane, harvest, rest>>

Marks == {"built", "priced", "stamped"} \X Ideas
Verdicts == {"none", "integrated", "already", "failed"}
Nothing == [t \in Tasks |-> "none"]

Init ==
  /\ done = {} /\ registry = {} /\ recorded = Nothing /\ hypotheses = {} /\ torn = {}
  /\ batch = {} /\ drafts = {} /\ deliveries = Deliveries
  /\ lastCount = -1 /\ announced = {} /\ orphans = {}
  /\ pc = [j \in Jobs |-> "idle"] /\ watching = [j \in Jobs |-> FALSE]
  /\ count = [j \in Jobs |-> 0] /\ todo = [j \in Jobs |-> {}] /\ reg = [j \in Jobs |-> {}]
  /\ notes = [j \in Jobs |-> Nothing] /\ cur = [j \in Jobs |-> NoTask]
  /\ input = [j \in Jobs |-> {}] /\ hyp = [j \in Jobs |-> {}]
  /\ overlaps = Overlaps /\ reboots = Reboots

Goto(j, l) == pc' = [pc EXCEPT ![j] = l]
Set(f, j, v) == [f EXCEPT ![j] = v]

\* A job ends and forgets what it has read.
Forget(j) ==
  /\ todo' = Set(todo, j, {}) /\ reg' = Set(reg, j, {})
  /\ notes' = Set(notes, j, Nothing) /\ cur' = Set(cur, j, NoTask)

\* Short of the bound, nothing keeps a job from starting.
Start(j) ==
  /\ pc[j] = "idle"
  /\ \/ (\A k \in Jobs : pc[k] = "idle") /\ UNCHANGED overlaps
     \/ /\ \E k \in Jobs : pc[k] # "idle"
        /\ overlaps > 0 /\ overlaps' = overlaps - 1
-----------------------------------------------------------------------------
(* supervisor.mjs, lane B                                                  *)

\* The board is listed at the start, before lane A.
StartSupervisor(j) ==
  /\ Start(j) /\ Goto(j, "state")
  /\ todo' = Set(todo, j, done)
  /\ UNCHANGED <<done, files, inbox, lastCount, announced, orphans, watching, count,
                 reg, notes, cur, harvest, reboots>>

\* The watchdog waits for its own supervisor; otherwise the script ends.
LaneEnds(j) ==
  /\ Goto(j, IF watching[j] THEN "count" ELSE "idle")
  /\ Forget(j)


\* A state file that cannot be read counts as empty.
ReadState(j) ==
  /\ pc[j] = "state" /\ Goto(j, "registry")
  /\ notes' = Set(notes, j, IF "recorded" \in torn THEN Nothing ELSE recorded)
  /\ UNCHANGED <<done, files, inbox, lastCount, announced, orphans, watching, count,
                 todo, reg, cur, harvest, rest>>

\* statusById: the statuses are read once, before the first integration.
ReadStatuses(j) ==
  /\ pc[j] = "registry"
  /\ \/ /\ "registry" \notin torn /\ Goto(j, "tasks") /\ reg' = Set(reg, j, registry)
        /\ UNCHANGED <<todo, notes, cur>>
     \/ "registry" \in torn /\ LaneEnds(j)
  /\ UNCHANGED <<done, files, inbox, lastCount, announced, orphans, watching, count,
                 harvest, rest>>

Pending(j) == {t \in todo[j] : notes[j][t] = "none" /\ TaskIdea[t] \in Registered}

Note(j, t, verdict) == notes' = [notes EXCEPT ![j][t] = verdict]

Consider(j, t) ==
  /\ pc[j] = "tasks" /\ t \in Pending(j)
  /\ \/ /\ <<"built", TaskIdea[t]>> \in reg[j]
        /\ Note(j, t, "already") /\ UNCHANGED <<pc, cur>>
     \/ /\ <<"built", TaskIdea[t]>> \notin reg[j]
        /\ Goto(j, "building") /\ cur' = Set(cur, j, t) /\ UNCHANGED notes
  /\ UNCHANGED <<done, files, inbox, lastCount, announced, orphans, watching, count,
                 todo, reg, harvest, rest>>

\* post_build.sh marks the idea BUILT_PLATFORM, or fails.  It may fail, or run into the timeout,
\* with the mark already made: exit 2 is "registry promoted but Hydra down".  (The script is not
\* in the repository; its mark is taken to be one step.)
Integrates(i) == "registry" \notin torn /\ registry' = registry \cup {<<"built", i>>}
FailsToIntegrate(i) == UNCHANGED registry \/ Integrates(i)

\* Mutant: the exit status of post_build.sh is not looked at.
PostBuildEndsSomehow(j) ==
  /\ pc[j] = "building" /\ Goto(j, "tasks")
  /\ FailsToIntegrate(TaskIdea[cur[j]])
  /\ Note(j, cur[j], "integrated")
  /\ cur' = Set(cur, j, NoTask)
  /\ UNCHANGED <<done, recorded, hypotheses, torn, inbox, lastCount, announced, orphans,
                 watching, count, todo, reg, harvest, rest>>

\* The exit status decides; the 300 s timeout is a failure, and no failure is retried.
PostBuildEnds(j) ==
  /\ pc[j] = "building" /\ Goto(j, "tasks")
  /\ \/ Integrates(TaskIdea[cur[j]]) /\ Note(j, cur[j], "integrated")
     \/ FailsToIntegrate(TaskIdea[cur[j]]) /\ Note(j, cur[j], "failed")
  /\ cur' = Set(cur, j, NoTask)
  /\ UNCHANGED <<done, recorded, hypotheses, torn, inbox, lastCount, announced, orphans,
                 watching, count, todo, reg, harvest, rest>>

LaneConsidered(j) ==
  /\ pc[j] = "tasks" /\ Pending(j) = {} /\ Goto(j, "record")
  /\ UNCHANGED <<done, files, inbox, lastCount, announced, orphans, watching, count, lane,
                 harvest, rest>>

RecordState(j) ==
  /\ pc[j] = "record"
  /\ recorded' = notes[j] /\ torn' = torn \ {"recorded"}
  /\ LaneEnds(j)
  /\ UNCHANGED <<done, registry, hypotheses, inbox, lastCount, announced, orphans, watching,
                 count, harvest, rest>>
-----------------------------------------------------------------------------
(* watchdog.mjs                                                            *)

StartWatchdog(j) ==
  /\ Start(j) /\ Goto(j, "land")
  /\ watching' = Set(watching, j, TRUE) /\ count' = Set(count, j, Cardinality(done))
  /\ UNCHANGED <<done, files, inbox, lastCount, announced, orphans, lane, harvest, reboots>>

\* LAND: a supervisor, if the number of done tasks has changed since it was last written.
Land(j) ==
  /\ pc[j] = "land"
  /\ \/ /\ lastCount \notin {-1, count[j]}
        /\ Goto(j, "state") /\ todo' = Set(todo, j, done)
     \/ lastCount \in {-1, count[j]} /\ Goto(j, "count") /\ UNCHANGED todo
  /\ UNCHANGED <<done, files, inbox, lastCount, announced, orphans, watching, count,
                 reg, notes, cur, harvest, rest>>

\* 110 s are over: the supervisor is killed, its post_build.sh is not.
LandTimeout(j) ==
  /\ watching[j] /\ pc[j] \in {"state", "registry", "tasks", "building", "record"}
  /\ orphans' = IF pc[j] = "building" THEN orphans \cup {TaskIdea[cur[j]]} ELSE orphans
  /\ torn' \in {torn} \cup (IF pc[j] = "record" THEN {torn \cup {"recorded"}} ELSE {})
  /\ LaneEnds(j)
  /\ UNCHANGED <<done, registry, recorded, hypotheses, inbox, lastCount, announced, watching,
                 count, harvest, rest>>

WriteCount(j) ==
  /\ pc[j] = "count" /\ Goto(j, "batch")
  /\ lastCount' = count[j] /\ count' = Set(count, j, 0)
  /\ UNCHANGED <<done, files, inbox, announced, orphans, watching, lane, harvest, rest>>

\* HARVEST of incumbents: the batch, then the registry, then all of the registry again.
ReadBatch(j) ==
  /\ pc[j] = "batch"
  /\ Goto(j, IF batch = {} THEN "drafts" ELSE "incumbents")
  /\ input' = Set(input, j, batch)
  /\ UNCHANGED <<done, files, inbox, lastCount, announced, orphans, watching, count, lane, hyp,
                 rest>>

ReadIdeas(j) ==
  /\ pc[j] = "incumbents"
  /\ Goto(j, IF "registry" \in torn THEN "drafts" ELSE "declare")
  /\ reg' = Set(reg, j, IF "registry" \in torn THEN {} ELSE registry)
  /\ UNCHANGED <<done, files, inbox, lastCount, announced, orphans, watching, count,
                 todo, notes, cur, harvest, rest>>

\* Of the ideas the batch names, those in the registry with a price to look at; one that has
\* an incumbent keeps it.
Declare(j) ==
  /\ pc[j] = "declare" /\ Goto(j, "rename")
  /\ registry' = reg[j] \cup {<<"priced", i>> : i \in input[j] \cap Priced \cap Registered}
  /\ torn' = torn \ {"registry"}
  /\ reg' = Set(reg, j, {}) /\ input' = Set(input, j, {})
  /\ UNCHANGED <<done, recorded, hypotheses, inbox, lastCount, announced, orphans, watching,
                 count, todo, notes, cur, hyp, rest>>

\* What is renamed is the file of that name, though it may be a newer one.
RenameBatch(j) ==
  /\ pc[j] = "rename" /\ Goto(j, "drafts")
  /\ batch' = {}
  /\ UNCHANGED <<done, files, drafts, deliveries, lastCount, announced, orphans, watching,
                 count, lane, harvest, rest>>

\* HARVEST of hypotheses.
WatchdogEnds(j) ==
  /\ Goto(j, "idle") /\ Forget(j)
  /\ watching' = Set(watching, j, FALSE) /\ count' = Set(count, j, 0)
  /\ input' = Set(input, j, {}) /\ hyp' = Set(hyp, j, {})

ReadDrafts(j) ==
  /\ pc[j] = "drafts"
  /\ \/ drafts = {} /\ WatchdogEnds(j)
     \/ /\ drafts # {} /\ Goto(j, "hypotheses") /\ input' = Set(input, j, drafts)
        /\ UNCHANGED <<watching, count, lane, hyp>>
  /\ UNCHANGED <<done, files, inbox, lastCount, announced, orphans, rest>>

IdsOf(ds) == {DraftId[d] : d \in ds}

\* Mutant: drafts are compared with the registry only, not with each other.
AdmissibleAlone(ds, known) == {{d \in ds \cap Cited : DraftId[d] \notin IdsOf(known)}}

\* The gate: the first draft of each id that is not known yet, in the order of the file.
Admissible(ds, known) ==
  LET fresh == {d \in ds \cap Cited : DraftId[d] \notin IdsOf(known)}
  IN  {A \in SUBSET fresh :
         /\ IdsOf(A) = IdsOf(fresh)
         /\ \A d, e \in A : DraftId[d] = DraftId[e] => d = e}

ReadHypotheses(j) ==
  /\ pc[j] = "hypotheses"
  /\ \/ "hypotheses" \in torn /\ WatchdogEnds(j)
     \/ /\ "hypotheses" \notin torn
        /\ \E A \in Admissible(input[j], hypotheses) :
             /\ input' = Set(input, j, A)
             /\ Goto(j, IF A = {} THEN "consume" ELSE "admit")
             /\ hyp' = Set(hyp, j, IF A = {} THEN {} ELSE hypotheses)
        /\ UNCHANGED <<watching, count, lane>>
  /\ UNCHANGED <<done, files, inbox, lastCount, announced, orphans, rest>>

Admit(j) ==
  /\ pc[j] = "admit" /\ Goto(j, "announce")
  /\ hypotheses' = hyp[j] \cup input[j] /\ torn' = torn \ {"hypotheses"}
  /\ hyp' = Set(hyp, j, {})
  /\ UNCHANGED <<done, registry, recorded, inbox, lastCount, announced, orphans, watching,
                 count, lane, input, rest>>

\* The events are posted without waiting for the answers; some may not arrive.
Announce(j) ==
  /\ pc[j] = "announce" /\ Goto(j, "consume")
  /\ \E ids \in SUBSET IdsOf(input[j]) : announced' = announced \cup ids
  /\ input' = Set(input, j, {})
  /\ UNCHANGED <<done, files, inbox, lastCount, orphans, watching, count, lane, hyp, rest>>

ConsumeDrafts(j) ==
  /\ pc[j] = "consume"
  /\ drafts' = {}
  /\ WatchdogEnds(j)
  /\ UNCHANGED <<done, files, batch, deliveries, lastCount, announced, orphans, rest>>
-----------------------------------------------------------------------------
(* classify-and-queue.mjs                                                  *)

StartClassifier(j) ==
  /\ "registry" \notin torn
  /\ Start(j) /\ Goto(j, "classify")
  /\ reg' = Set(reg, j, registry)
  /\ UNCHANGED <<done, files, inbox, lastCount, announced, orphans, watching, count,
                 todo, notes, cur, harvest, reboots>>

\* Written after every idea has been classified, given a suite and seeded.
Stamp(j) ==
  /\ pc[j] = "classify" /\ Goto(j, "idle")
  /\ registry' = reg[j] \cup {<<"stamped", i>> : i \in Registered}
  /\ torn' = torn \ {"registry"}
  /\ Forget(j)
  /\ UNCHANGED <<done, recorded, hypotheses, inbox, lastCount, announced, orphans, watching,
                 count, harvest, rest>>
-----------------------------------------------------------------------------
(* The environment                                                         *)

CompleteTask(t) ==
  /\ t \notin done /\ done' = done \cup {t}
  /\ UNCHANGED <<files, inbox, lastCount, announced, orphans, pc, watching, count, lane, harvest,
                 rest>>

\* A research agent writes a file, over the one that may still be there.
Deliver ==
  /\ deliveries > 0 /\ deliveries' = deliveries - 1
  /\ \/ batch' \in Batches /\ UNCHANGED drafts
     \/ drafts' \in DraftFiles /\ UNCHANGED batch
  /\ UNCHANGED <<done, files, lastCount, announced, orphans, pc, watching, count, lane, harvest,
                 rest>>

\* Nobody looks at how it ended.
OrphanEnds(i) ==
  /\ i \in orphans /\ orphans' = orphans \ {i}
  /\ FailsToIntegrate(i)
  /\ UNCHANGED <<done, recorded, hypotheses, torn, inbox, lastCount, announced, pc, watching,
                 count, lane, harvest, rest>>

\* The file a job is writing.
Target(l) ==
  CASE l = "record" -> {"recorded"} [] l \in {"declare", "classify"} -> {"registry"}
    [] l = "admit" -> {"hypotheses"} [] OTHER -> {}

\* Everything dies, and what was being written may be half written.
Reboot ==
  /\ reboots > 0 /\ reboots' = reboots - 1
  /\ \E broken \in SUBSET UNION {Target(pc[j]) : j \in Jobs} : torn' = torn \cup broken
  /\ orphans' = {}
  /\ pc' = [j \in Jobs |-> "idle"] /\ watching' = [j \in Jobs |-> FALSE]
  /\ count' = [j \in Jobs |-> 0] /\ todo' = [j \in Jobs |-> {}] /\ reg' = [j \in Jobs |-> {}]
  /\ notes' = [j \in Jobs |-> Nothing] /\ cur' = [j \in Jobs |-> NoTask]
  /\ input' = [j \in Jobs |-> {}] /\ hyp' = [j \in Jobs |-> {}]
  /\ UNCHANGED <<done, registry, recorded, hypotheses, inbox, lastCount, announced, overlaps>>

Supervise(j) ==
  \/ ReadState(j) \/ ReadStatuses(j) \/ (\E t \in Tasks : Consider(j, t))
  \/ PostBuildEnds(j) \/ LaneConsidered(j) \/ RecordState(j)

Harvest(j) ==
  \/ Land(j) \/ WriteCount(j) \/ ReadBatch(j) \/ ReadIdeas(j) \/ Declare(j) \/ RenameBatch(j)
  \/ ReadDrafts(j) \/ ReadHypotheses(j) \/ Admit(j) \/ Announce(j) \/ ConsumeDrafts(j)

Step(j) == Supervise(j) \/ Harvest(j) \/ Stamp(j)

Next ==
  \/ \E j \in Jobs :
       \/ StartSupervisor(j) \/ StartWatchdog(j) \/ StartClassifier(j)
       \/ Step(j) \/ LandTimeout(j)
  \/ (\E t \in Tasks : CompleteTask(t)) \/ (\E i \in Ideas : OrphanEnds(i))
  \/ Deliver \/ Reboot

Spec == Init /\ [][Next]_vars

\* A script that runs takes its next step; cron starts supervisors, whatever else runs.
FairSpec ==
  Spec /\ (\A j \in Jobs : WF_vars(Step(j))) /\ SF_vars(\E j \in Jobs : StartSupervisor(j))
-----------------------------------------------------------------------------
(* Properties                                                              *)

Success == {"integrated", "already"}

\* While jobs did not overlap, a build recorded as integrated is BUILT_PLATFORM in the
\* registry, although orphans of killed supervisors write the registry while the watchdog
\* and the classifier hold an older copy of it: a mark lost that way is not recorded.
IntegratedIsBuilt ==
  overlaps < Overlaps \/ torn # {} \/
    \A t \in Tasks : recorded[t] \in Success => <<"built", TaskIdea[t]>> \in registry

\* No hypothesis is admitted twice, whatever overlaps and however often a draft is delivered;
\* and while jobs did not overlap, an event hypothesis.created speaks of a hypothesis that
\* hypotheses.json holds.
AnnouncedIsAdmitted ==
  /\ \A d, e \in hypotheses : DraftId[d] = DraftId[e] => d = e
  /\ overlaps < Overlaps \/ "hypotheses" \in torn \/ announced \subseteq IdsOf(hypotheses)

=============================================================================
