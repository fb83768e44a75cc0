------------------------- MODULE RegistryHarvestProofs -------------------------
(***************************************************************************)
(* Theorems about RegistryHarvest for any jobs, builds, drafts, batches    *)
(* and reboots: no hypothesis is admitted twice; and as long as jobs do    *)
(* not overlap, what is recorded as integrated and what is announced is in *)
(* the files, although orphans write them, too.                            *)
(***************************************************************************)
EXTENDS RegistryHarvest, TLAPS

USE DEF Goto, Set, Note, Forget, LaneEnds, WatchdogEnds, Start, files, inbox, harvest, lane, rest

Lane == {"state", "registry", "tasks", "building", "record"}
Watch == {"land", "count", "batch", "incumbents", "declare", "rename", "drafts", "hypotheses",
          "admit", "announce", "consume"}
PCs == {"idle", "classify"} \cup Lane \cup Watch

Types ==
  /\ registry \subseteq Marks /\ recorded \in [Tasks -> Verdicts] /\ hypotheses \subseteq Drafts
  /\ drafts \subseteq Drafts
  /\ pc \in [Jobs -> PCs] /\ reg \in [Jobs -> SUBSET Marks]
  /\ notes \in [Jobs -> [Tasks -> Verdicts]] /\ cur \in [Jobs -> Tasks \cup {NoTask}]
  /\ \A j \in Jobs : pc[j] = "building" => cur[j] \in Tasks
  /\ DOMAIN input = Jobs /\ hyp \in [Jobs -> SUBSET Drafts]
  /\ \A j \in Jobs : pc[j] \in {"hypotheses", "admit", "announce"} => input[j] \subseteq Drafts
  /\ overlaps \in Nat /\ overlaps <= Overlaps
-----------------------------------------------------------------------------
(* Types                                                                   *)

\* Only job j moves.
OnlyMoves(j) ==
  \A k \in Jobs \ {j} :
    /\ pc'[k] = pc[k] /\ reg'[k] = reg[k] /\ notes'[k] = notes[k] /\ cur'[k] = cur[k]
    /\ input'[k] = input[k] /\ hyp'[k] = hyp[k]

LEMMA NothingType == Nothing \in [Tasks -> Verdicts]
BY DEF Nothing, Verdicts

LEMMA TypesInit == Init => Types
BY NothingType, HarvestAssumption DEF Init, Types, PCs

\* A job takes a note of what became of a task.
LEMMA Noted ==
  ASSUME Types, NEW j \in Jobs, NEW t \in Tasks, NEW verdict \in Verdicts, Note(j, t, verdict)
  PROVE  /\ notes' \in [Jobs -> [Tasks -> Verdicts]]
         /\ \A k \in Jobs \ {j} : notes'[k] = notes[k]
         /\ \A u \in Tasks : notes'[j][u] = IF u = t THEN verdict ELSE notes[j][u]
BY DEF Types

LEMMA SuperviseTypes ==
  ASSUME Types, NEW j \in Jobs, Supervise(j)
  PROVE  Types' /\ OnlyMoves(j)
<1> USE DEF Types, OnlyMoves, PCs, Lane, Watch
<1>1. CASE ReadState(j) BY <1>1, NothingType DEF ReadState
<1>2. CASE ReadStatuses(j)
  <2>1. CASE LaneEnds(j) BY <1>2, <2>1, NothingType DEF ReadStatuses
  <2>2. CASE Goto(j, "tasks") /\ reg' = [reg EXCEPT ![j] = registry] /\ UNCHANGED <<todo, notes, cur>>
    BY <1>2, <2>2 DEF ReadStatuses
  <2> QED BY <1>2, <2>1, <2>2 DEF ReadStatuses
<1>3. ASSUME NEW t \in Tasks, Consider(j, t) PROVE Types' /\ OnlyMoves(j)
  <2>1. UNCHANGED <<registry, recorded, hypotheses, drafts, reg, input, hyp, overlaps>> /\ pc[j] = "tasks"
    BY <1>3 DEF Consider
  <2>2. CASE Note(j, t, "already") /\ UNCHANGED <<pc, cur>>
    <3>1. /\ notes' \in [Jobs -> [Tasks -> Verdicts]]
          /\ \A k \in Jobs \ {j} : notes'[k] = notes[k]
      BY <2>2, Noted DEF Verdicts
    <3> QED BY <2>1, <2>2, <3>1
  <2>3. CASE Goto(j, "building") /\ cur' = [cur EXCEPT ![j] = t] /\ UNCHANGED notes
    BY <2>1, <2>3
  <2> QED BY <1>3, <2>2, <2>3 DEF Consider
<1>4. CASE PostBuildEnds(j)
  <2>1. <<"built", TaskIdea[cur[j]]>> \in Marks
    BY <1>4, HarvestAssumption DEF PostBuildEnds, Marks
  <2>2. registry' \subseteq Marks
    BY <1>4, <2>1 DEF PostBuildEnds, Integrates, FailsToIntegrate
  <2>3. cur[j] \in Tasks /\ \E verdict \in {"integrated", "failed"} : Note(j, cur[j], verdict)
    BY <1>4 DEF PostBuildEnds
  <2>4. /\ notes' \in [Jobs -> [Tasks -> Verdicts]]
        /\ \A k \in Jobs \ {j} : notes'[k] = notes[k]
    BY <2>3, Noted DEF Verdicts
  <2>5. /\ pc' = [pc EXCEPT ![j] = "tasks"] /\ cur' = [cur EXCEPT ![j] = NoTask]
        /\ UNCHANGED <<recorded, hypotheses, drafts, reg, input, hyp, overlaps>>
    BY <1>4 DEF PostBuildEnds
  <2> QED BY <2>2, <2>4, <2>5
<1>5. CASE LaneConsidered(j) BY <1>5 DEF LaneConsidered
<1>6. CASE RecordState(j) BY <1>6, NothingType DEF RecordState
<1> QED BY <1>1, <1>2, <1>3, <1>4, <1>5, <1>6 DEF Supervise

LEMMA HarvestTypes ==
  ASSUME Types, NEW j \in Jobs, Harvest(j)
  PROVE  Types' /\ OnlyMoves(j)
<1> USE DEF Types, OnlyMoves, PCs, Lane, Watch
<1>1. CASE Land(j) BY <1>1 DEF Land
<1>2. CASE WriteCount(j) BY <1>2 DEF WriteCount
<1>3. CASE ReadBatch(j) BY <1>3 DEF ReadBatch
<1>4. CASE ReadIdeas(j) BY <1>4 DEF ReadIdeas
<1>5. CASE Declare(j)
  <2>1. {<<"priced", i>> : i \in input[j] \cap Priced \cap Registered} \subseteq Marks
    BY HarvestAssumption DEF Marks
  <2> QED BY <1>5, <2>1 DEF Declare
<1>6. CASE RenameBatch(j) BY <1>6 DEF RenameBatch
<1>7. CASE ReadDrafts(j)
  <2>1. CASE WatchdogEnds(j) BY <1>7, <2>1, NothingType DEF ReadDrafts
  <2>2. CASE /\ pc' = [pc EXCEPT ![j] = "hypotheses"] /\ input' = [input EXCEPT ![j] = drafts]
             /\ UNCHANGED <<reg, notes, cur, hyp>>
    BY <1>7, <2>2 DEF ReadDrafts
  <2> QED BY <1>7, <2>1, <2>2 DEF ReadDrafts
<1>8. CASE ReadHypotheses(j)
  <2>1. CASE WatchdogEnds(j) /\ UNCHANGED <<registry, recorded, hypotheses, drafts, overlaps>>
    BY <2>1, NothingType
  <2>2. ASSUME NEW A \in Admissible(input[j], hypotheses), pc[j] = "hypotheses",
               input' = [input EXCEPT ![j] = A],
               pc' = [pc EXCEPT ![j] = IF A = {} THEN "consume" ELSE "admit"],
               hyp' = [hyp EXCEPT ![j] = IF A = {} THEN {} ELSE hypotheses],
               UNCHANGED <<files, inbox, reg, notes, cur, overlaps>>
        PROVE  Types' /\ OnlyMoves(j)
    <3>1. A \subseteq Drafts BY <2>2 DEF Admissible
    <3> QED BY <2>2, <3>1
  <2> QED BY <1>8, <2>1, <2>2 DEF ReadHypotheses
<1>9. CASE Admit(j) BY <1>9 DEF Admit
<1>10. CASE Announce(j) BY <1>10 DEF Announce
<1>11. CASE ConsumeDrafts(j) BY <1>11, NothingType DEF ConsumeDrafts
<1> QED BY <1>1, <1>2, <1>3, <1>4, <1>5, <1>6, <1>7, <1>8, <1>9, <1>10, <1>11 DEF Harvest

\* A job starts, is stopped, or stamps the ideas.
LEMMA StartTypes ==
  ASSUME Types, NEW j \in Jobs,
         StartSupervisor(j) \/ StartWatchdog(j) \/ StartClassifier(j) \/ Stamp(j) \/ LandTimeout(j)
  PROVE  Types' /\ OnlyMoves(j)
<1> USE DEF Types, OnlyMoves, PCs, Lane, Watch
<1>0. Overlaps \in Nat BY HarvestAssumption
<1>1. CASE StartSupervisor(j) BY <1>0, <1>1 DEF StartSupervisor
<1>2. CASE StartWatchdog(j) BY <1>0, <1>2 DEF StartWatchdog
<1>3. CASE StartClassifier(j) BY <1>0, <1>3 DEF StartClassifier
<1>4. CASE Stamp(j)
  <2>1. {<<"stamped", i>> : i \in Registered} \subseteq Marks BY HarvestAssumption DEF Marks
  <2> QED BY <1>4, <2>1, NothingType DEF Stamp
<1>5. CASE LandTimeout(j) BY <1>5, NothingType DEF LandTimeout
<1> QED BY <1>1, <1>2, <1>3, <1>4, <1>5

\* What happens around the jobs.
Outside ==
  (\E t \in Tasks : CompleteTask(t)) \/ (\E i \in Ideas : OrphanEnds(i)) \/ Deliver

LEMMA OutsideEffects ==
  ASSUME Types, Outside
  PROVE  /\ Types' /\ registry \subseteq registry'
         /\ UNCHANGED <<pc, reg, notes, cur, harvest, recorded, hypotheses, announced, overlaps>>
<1> DEFINE Others == UNCHANGED <<pc, reg, notes, cur, harvest, recorded, hypotheses, announced, overlaps>>
<1>1. CASE Deliver
  <2>1. drafts' \subseteq Drafts
    BY <1>1, HarvestAssumption DEF Deliver, Types
  <2> QED BY <1>1, <2>1 DEF Deliver, Types
<1>2. ASSUME NEW t \in Tasks, CompleteTask(t) PROVE Types' /\ registry' = registry /\ Others
  BY <1>2 DEF CompleteTask, Types
<1>3. ASSUME NEW i \in Ideas, OrphanEnds(i) PROVE Types' /\ registry \subseteq registry' /\ Others
  <2>1. <<"built", i>> \in Marks BY DEF Marks
  <2> QED BY <1>3, <2>1 DEF OrphanEnds, Integrates, FailsToIntegrate, Types
<1> QED BY <1>1, <1>2, <1>3 DEF Outside

LEMMA RebootEffects ==
  ASSUME Types, Reboot
  PROVE  /\ Types' /\ \A j \in Jobs : pc'[j] = "idle"
         /\ UNCHANGED <<registry, recorded, hypotheses, announced, overlaps>>
BY NothingType DEF Reboot, Types, PCs

LEMMA NextCases ==
  ASSUME Next
  PROVE  \/ \E j \in Jobs : \/ Supervise(j) \/ Harvest(j)
                            \/ StartSupervisor(j) \/ StartWatchdog(j) \/ StartClassifier(j)
                            \/ Stamp(j) \/ LandTimeout(j)
         \/ Outside \/ Reboot
BY DEF Next, Step, Outside

LEMMA TypesStep == Types /\ [Next]_vars => Types'
<1> SUFFICES ASSUME Types, [Next]_vars PROVE Types' OBVIOUS
<1>1. CASE UNCHANGED vars BY <1>1 DEF vars, Types
<1> QED BY <1>1, NextCases, SuperviseTypes, HarvestTypes, StartTypes, OutsideEffects, RebootEffects

\* What the files and the jobs hold has its type, whatever overlaps and is killed.
THEOREM TypeCorrect == Spec => []Types
BY TypesInit, TypesStep, PTL DEF Spec
-----------------------------------------------------------------------------
(* No hypothesis is admitted twice                                         *)

Distinct(ds) == \A d, e \in ds : DraftId[d] = DraftId[e] => d = e

\* What a job is about to write is what it has read with new drafts, one of each id.
AdmittedOnce ==
  /\ Distinct(hypotheses)
  /\ \A j \in Jobs : pc[j] = "admit" => Distinct(hyp[j] \cup input[j])

LEMMA AdmissibleDistinct ==
  ASSUME NEW ds, NEW known, Distinct(known), NEW A \in Admissible(ds, known)
  PROVE  Distinct(known \cup A)
<1>1. \A d, e \in A : DraftId[d] = DraftId[e] => d = e BY DEF Admissible
<1>2. \A d \in A : DraftId[d] \notin IdsOf(known) BY DEF Admissible
<1>3. \A d \in known : DraftId[d] \in IdsOf(known) BY DEF IdsOf
<1> QED BY <1>1, <1>2, <1>3 DEF Distinct

LEMMA AdmittedStep ==
  ASSUME Types, AdmittedOnce, [Next]_vars
  PROVE  AdmittedOnce'
<1>1. ASSUME NEW j \in Jobs, OnlyMoves(j), hypotheses' = hypotheses, pc'[j] # "admit"
      PROVE  AdmittedOnce'
  BY <1>1 DEF AdmittedOnce, OnlyMoves, Distinct
<1>2. ASSUME NEW j \in Jobs, Supervise(j) PROVE AdmittedOnce'
  <2>1. OnlyMoves(j) BY <1>2, SuperviseTypes
  <2>2. hypotheses' = hypotheses /\ pc'[j] # "admit"
    BY <1>2 DEF Supervise, ReadState, ReadStatuses, Consider, PostBuildEnds, LaneConsidered,
       RecordState, Types
  <2> QED BY <1>1, <2>1, <2>2
<1>3. ASSUME NEW j \in Jobs, Harvest(j) PROVE AdmittedOnce'
  <2>1. OnlyMoves(j) BY <1>3, HarvestTypes
  <2>2. CASE Admit(j)
    <3>1. hypotheses' = hyp[j] \cup input[j] /\ pc[j] = "admit" /\ pc'[j] = "announce"
      BY <2>2 DEF Admit, Types
    <3>2. Distinct(hyp[j] \cup input[j]) BY <3>1 DEF AdmittedOnce
    <3> QED BY <2>1, <3>1, <3>2 DEF AdmittedOnce, OnlyMoves, Distinct
  <2>3. CASE ReadHypotheses(j)
    <3>1. CASE pc'[j] # "admit" BY <1>1, <2>1, <2>3, <3>1 DEF ReadHypotheses
    <3>2. ASSUME NEW A \in Admissible(input[j], hypotheses), A # {},
                 hypotheses' = hypotheses, input'[j] = A, hyp'[j] = hypotheses
          PROVE  AdmittedOnce'
      <4>1. Distinct(hypotheses \cup A) BY <3>2, AdmissibleDistinct DEF AdmittedOnce
      <4>2. Distinct(hypotheses') /\ Distinct(hyp'[j] \cup input'[j])
        BY <3>2, <4>1 DEF AdmittedOnce
      <4> QED BY <2>1, <3>2, <4>2 DEF AdmittedOnce, OnlyMoves, Distinct
    <3>3. \/ pc'[j] # "admit"
          \/ \E A \in Admissible(input[j], hypotheses) :
               /\ A # {}
               /\ hypotheses' = hypotheses /\ input'[j] = A /\ hyp'[j] = hypotheses
      BY <2>3 DEF ReadHypotheses, Types
    <3> QED BY <3>1, <3>2, <3>3
  <2>4. CASE ~Admit(j) /\ ~ReadHypotheses(j)
    <3>1. hypotheses' = hypotheses /\ pc'[j] # "admit"
      BY <1>3, <2>4 DEF Harvest, Land, WriteCount, ReadBatch, ReadIdeas, Declare, RenameBatch,
         ReadDrafts, Announce, ConsumeDrafts, Types
    <3> QED BY <1>1, <2>1, <3>1
  <2> QED BY <2>2, <2>3, <2>4
<1>4. ASSUME NEW j \in Jobs, \/ StartSupervisor(j) \/ StartWatchdog(j) \/ StartClassifier(j)
                             \/ Stamp(j) \/ LandTimeout(j)
      PROVE  AdmittedOnce'
  <2>1. OnlyMoves(j) BY <1>4, StartTypes
  <2>2. hypotheses' = hypotheses /\ pc'[j] # "admit"
    BY <1>4 DEF StartSupervisor, StartWatchdog, StartClassifier, Stamp, LandTimeout, Types
  <2> QED BY <1>1, <2>1, <2>2
<1>5. CASE Outside BY <1>5, OutsideEffects DEF AdmittedOnce, Distinct
<1>6. CASE Reboot BY <1>6, RebootEffects DEF AdmittedOnce, Distinct
<1>7. CASE UNCHANGED vars BY <1>7 DEF vars, AdmittedOnce, Distinct
<1> QED BY <1>2, <1>3, <1>4, <1>5, <1>6, <1>7, NextCases
-----------------------------------------------------------------------------
(* One job at a time                                                       *)

Backed(verdicts, marks) ==
  \A t \in Tasks : verdicts[t] \in Success => <<"built", TaskIdea[t]>> \in marks

\* What is recorded and announced is in the files.
Settled == Backed(recorded, registry) /\ announced \subseteq IdsOf(hypotheses)

\* And stays so by what job j will write: what it has noted is built, it will not take back a
\* mark of what is recorded, nor a hypothesis; only orphans write meanwhile, and take nothing back.
Works(j) ==
  /\ pc[j] \in {"registry", "tasks", "building", "record"} => Backed(notes[j], registry)
  /\ pc[j] \in {"tasks", "building"} => reg[j] \subseteq registry
  /\ pc[j] \in {"declare", "classify"} => Backed(recorded, reg[j])
  /\ pc[j] = "admit" => hyp[j] = hypotheses
  /\ pc[j] = "announce" => input[j] \subseteq hypotheses

Alone == \A j, k \in Jobs : pc[j] # "idle" /\ pc[k] # "idle" => j = k
Undisturbed == overlaps = Overlaps => Alone /\ Settled /\ \A j \in Jobs : Works(j)

LEMMA NothingBacked == \A marks : Backed(Nothing, marks)
BY DEF Backed, Nothing, Success

LEMMA IdleWorks == \A j \in Jobs : pc[j] = "idle" => Works(j)
BY DEF Works

LEMMA SuperviseSettled ==
  ASSUME Types, Settled, NEW j \in Jobs, Works(j), Supervise(j)
  PROVE  Settled' /\ Works(j)' /\ pc[j] # "idle" /\ overlaps' = overlaps
<1> USE DEF Types, Settled, Works
<1>1. CASE ReadState(j) BY <1>1, NothingBacked DEF ReadState
<1>2. CASE ReadStatuses(j) BY <1>2 DEF ReadStatuses
<1>3. ASSUME NEW t \in Tasks, Consider(j, t)
      PROVE  Settled' /\ Works(j)' /\ pc[j] # "idle" /\ overlaps' = overlaps
  <2>1. /\ UNCHANGED <<registry, recorded, hypotheses, announced, reg, overlaps>>
        /\ pc[j] = "tasks" /\ pc'[j] \in {"tasks", "building"}
    BY <1>3 DEF Consider
  <2>2. CASE notes' = notes BY <2>1, <2>2
  <2>3. CASE Note(j, t, "already") /\ <<"built", TaskIdea[t]>> \in reg[j]
    <3>1. \A u \in Tasks : notes'[j][u] = IF u = t THEN "already" ELSE notes[j][u]
      BY <2>3, Noted DEF Verdicts
    <3>2. Backed(notes[j], registry) /\ <<"built", TaskIdea[t]>> \in registry BY <2>1, <2>3
    <3>3. Backed(notes'[j], registry) BY <3>1, <3>2 DEF Backed
    <3> QED BY <2>1, <3>3
  <2> QED BY <1>3, <2>2, <2>3 DEF Consider
<1>4. CASE PostBuildEnds(j)
  <2>1. /\ UNCHANGED <<recorded, hypotheses, announced, reg, overlaps>> /\ registry \subseteq registry'
        /\ pc[j] = "building" /\ pc'[j] = "tasks" /\ cur[j] \in Tasks
    BY <1>4 DEF PostBuildEnds, Integrates, FailsToIntegrate
  <2>2. Backed(notes[j], registry') /\ Backed(recorded, registry') BY <2>1 DEF Backed
  <2>3. PICK verdict \in {"integrated", "failed"} :
          /\ Note(j, cur[j], verdict)
          /\ verdict = "integrated" => <<"built", TaskIdea[cur[j]]>> \in registry'
    BY <1>4 DEF PostBuildEnds, Integrates
  <2>4. \A u \in Tasks : notes'[j][u] = IF u = cur[j] THEN verdict ELSE notes[j][u]
    BY <2>1, <2>3, Noted DEF Verdicts
  <2>5. Backed(notes'[j], registry') BY <2>2, <2>3, <2>4 DEF Backed, Success
  <2> QED BY <2>1, <2>2, <2>5
<1>5. CASE LaneConsidered(j) BY <1>5 DEF LaneConsidered
<1>6. CASE RecordState(j) BY <1>6 DEF RecordState
<1> QED BY <1>1, <1>2, <1>3, <1>4, <1>5, <1>6 DEF Supervise

LEMMA HarvestSettled ==
  ASSUME Types, Settled, NEW j \in Jobs, Works(j), Harvest(j)
  PROVE  Settled' /\ Works(j)' /\ pc[j] # "idle" /\ overlaps' = overlaps
<1> USE DEF Types, Settled, Works
<1>1. CASE Land(j) BY <1>1 DEF Land
<1>2. CASE WriteCount(j) BY <1>2 DEF WriteCount
<1>3. CASE ReadBatch(j) BY <1>3 DEF ReadBatch
<1>4. CASE ReadIdeas(j) BY <1>4 DEF ReadIdeas
<1>5. CASE Declare(j) BY <1>5 DEF Declare, Backed
<1>6. CASE RenameBatch(j) BY <1>6 DEF RenameBatch
<1>7. CASE ReadDrafts(j) BY <1>7 DEF ReadDrafts
<1>8. CASE ReadHypotheses(j) BY <1>8 DEF ReadHypotheses
<1>9. CASE Admit(j) BY <1>9 DEF Admit, IdsOf
<1>10. CASE Announce(j) BY <1>10 DEF Announce, IdsOf
<1>11. CASE ConsumeDrafts(j) BY <1>11 DEF ConsumeDrafts
<1> QED BY <1>1, <1>2, <1>3, <1>4, <1>5, <1>6, <1>7, <1>8, <1>9, <1>10, <1>11 DEF Harvest

LEMMA StartSettled ==
  ASSUME Types, Settled, NEW j \in Jobs, Works(j),
         StartSupervisor(j) \/ StartWatchdog(j) \/ StartClassifier(j)
  PROVE  Settled' /\ Works(j)' /\ ((\A k \in Jobs : pc[k] = "idle") \/ overlaps' < overlaps)
BY DEF StartSupervisor, StartWatchdog, StartClassifier, Types, Settled, Works

LEMMA EndSettled ==
  ASSUME Types, Settled, NEW j \in Jobs, Works(j), Stamp(j) \/ LandTimeout(j)
  PROVE  Settled' /\ Works(j)' /\ pc[j] # "idle" /\ overlaps' = overlaps
BY DEF Stamp, LandTimeout, Types, Settled, Works, Backed

\* A job goes on alone.
LEMMA StaysAlone ==
  ASSUME Types, Undisturbed, NEW j \in Jobs, OnlyMoves(j), overlaps' <= overlaps, overlaps' \in Nat,
         pc[j] # "idle" \/ (\A k \in Jobs : pc[k] = "idle") \/ overlaps' < overlaps,
         Settled /\ Works(j) => Settled' /\ Works(j)'
  PROVE  Undisturbed'
<1> SUFFICES ASSUME overlaps' = Overlaps PROVE Alone' /\ Settled' /\ \A k \in Jobs : Works(k)'
  BY DEF Undisturbed
<1>1. overlaps = Overlaps /\ ~(overlaps' < overlaps) BY DEF Types
<1>2. Alone /\ Settled /\ Works(j) BY <1>1 DEF Undisturbed
<1>3. ASSUME NEW k \in Jobs \ {j} PROVE pc'[k] = "idle"
  BY <1>1, <1>2 DEF Alone, OnlyMoves
<1>4. \A k \in Jobs \ {j} : Works(k)' BY <1>3 DEF Works
<1>5. Alone' BY <1>3 DEF Alone
<1> QED BY <1>2, <1>4, <1>5

LEMMA UndisturbedStep ==
  ASSUME Types, Undisturbed, [Next]_vars
  PROVE  Undisturbed'
<1>0. overlaps \in Nat BY DEF Types
<1>1. ASSUME NEW j \in Jobs, Supervise(j) PROVE Undisturbed'
  <2>1. OnlyMoves(j) BY <1>1, SuperviseTypes
  <2>2. pc[j] # "idle" /\ overlaps' = overlaps
    BY <1>1 DEF Supervise, ReadState, ReadStatuses, Consider, PostBuildEnds, LaneConsidered, RecordState
  <2>3. Settled /\ Works(j) => Settled' /\ Works(j)' BY <1>1, SuperviseSettled
  <2> QED BY <1>0, <2>1, <2>2, <2>3, StaysAlone
<1>2. ASSUME NEW j \in Jobs, Harvest(j) PROVE Undisturbed'
  <2>1. OnlyMoves(j) BY <1>2, HarvestTypes
  <2>2. pc[j] # "idle" /\ overlaps' = overlaps
    BY <1>2 DEF Harvest, Land, WriteCount, ReadBatch, ReadIdeas, Declare, RenameBatch, ReadDrafts,
       ReadHypotheses, Admit, Announce, ConsumeDrafts
  <2>3. Settled /\ Works(j) => Settled' /\ Works(j)' BY <1>2, HarvestSettled
  <2> QED BY <1>0, <2>1, <2>2, <2>3, StaysAlone
<1>3. ASSUME NEW j \in Jobs, StartSupervisor(j) \/ StartWatchdog(j) \/ StartClassifier(j)
      PROVE  Undisturbed'
  <2>1. OnlyMoves(j) /\ Types' BY <1>3, StartTypes
  <2>2. ((\A k \in Jobs : pc[k] = "idle") /\ overlaps' = overlaps) \/ overlaps' = overlaps - 1
    BY <1>3 DEF StartSupervisor, StartWatchdog, StartClassifier
  <2>3. Settled /\ Works(j) => Settled' /\ Works(j)' BY <1>3, StartSettled
  <2>4. overlaps' \in Nat /\ overlaps' <= overlaps
        /\ ((\A k \in Jobs : pc[k] = "idle") \/ overlaps' < overlaps)
    BY <1>0, <2>1, <2>2 DEF Types
  <2> QED BY <2>1, <2>3, <2>4, StaysAlone
<1>4. ASSUME NEW j \in Jobs, Stamp(j) \/ LandTimeout(j) PROVE Undisturbed'
  <2>1. OnlyMoves(j) BY <1>4, StartTypes
  <2>2. pc[j] # "idle" /\ overlaps' = overlaps BY <1>4 DEF Stamp, LandTimeout
  <2>3. Settled /\ Works(j) => Settled' /\ Works(j)' BY <1>4, EndSettled
  <2> QED BY <1>0, <2>1, <2>2, <2>3, StaysAlone
<1>5. CASE Outside
  BY <1>5, OutsideEffects DEF Undisturbed, Alone, Settled, Works, Backed, harvest
<1>6. CASE Reboot
  BY <1>6, RebootEffects DEF Undisturbed, Alone, Settled, Works, Backed
<1>7. CASE UNCHANGED vars
  BY <1>7 DEF vars, Undisturbed, Alone, Settled, Works, Backed
<1> QED BY <1>1, <1>2, <1>3, <1>4, <1>5, <1>6, <1>7, NextCases

LEMMA UndisturbedAlways == Spec => [](Types /\ Undisturbed)
<1>1. Init => Undisturbed
  BY NothingBacked DEF Init, Undisturbed, Alone, Settled, Works
<1> QED BY <1>1, TypesInit, TypesStep, UndisturbedStep, PTL DEF Spec

\* As long as no job starts while another one is in progress, a build recorded as integrated
\* is BUILT_PLATFORM in the registry (supervisor.mjs, lane B): the scripts that write older
\* copies of the registry back have read them after the record, though orphans write it, too.
\* (post_build.sh is outside the repository, and its mark is taken to be one step.)
THEOREM RecordedIsBuilt == Spec => []IntegratedIsBuilt
<1>1. Types /\ Undisturbed => IntegratedIsBuilt
  BY HarvestAssumption DEF Types, Undisturbed, Settled, Backed, IntegratedIsBuilt
<1> QED BY <1>1, UndisturbedAlways, PTL

\* No hypothesis is admitted twice, whatever overlaps (watchdog.mjs: the gate for the drafts);
\* without overlap, what is announced as created is in hypotheses.json.
THEOREM AdmittedAndAnnounced == Spec => []AnnouncedIsAdmitted
<1>1. Init => AdmittedOnce BY DEF Init, AdmittedOnce, Distinct
<1>2. Types /\ AdmittedOnce /\ [Next]_vars => AdmittedOnce' BY AdmittedStep
<1>3. Types /\ Undisturbed /\ AdmittedOnce => AnnouncedIsAdmitted
  BY HarvestAssumption
     DEF Types, Undisturbed, Settled, AdmittedOnce, Distinct, AnnouncedIsAdmitted
<1> QED BY <1>1, <1>2, <1>3, TypeCorrect, UndisturbedAlways, PTL DEF Spec
=============================================================================
