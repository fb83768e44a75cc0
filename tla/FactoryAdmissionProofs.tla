------------------------ MODULE FactoryAdmissionProofs ------------------------
(***************************************************************************)
(* Theorems about FactoryAdmission for any number of watchdogs, ideas and  *)
(* builds, and every transport: whatever overlaps, fails, is denied or     *)
(* crashes, a build gets one builder although its task is delivered twice, *)
(* and the graph calls no build running that was not handed over; and      *)
(* while cycles do not overlap, an idea is built once and the limits of    *)
(* the factory hold.                                                       *)
(***************************************************************************)
EXTENDS FactoryAdmission, FiniteSetTheorems, TLAPS

Results == {"none", "accepted", "refused"}

Types ==
  /\ status \in [Builds -> Statuses] /\ result \in [Builds -> Results]
  /\ started \in [Builds -> {0, 1}] /\ mailed \subseteq Builds
  /\ pc \in [Watchdogs -> PCs] /\ after \in [Watchdogs -> {"idle", "feed"}]
  /\ cur \in [Watchdogs -> Builds \cup {None}]

\* The watchdogs whose tick is handling a build.
Handling(w) == pc[w] \in {"task", "dispatch", "final"}

\* A build is handled by one tick, after it was recorded.
OwnBuild ==
  /\ \A w \in Watchdogs : Handling(w) => cur[w] \in Builds /\ status[cur[w]] = "queued"
  /\ \A v, w \in Watchdogs : v # w /\ Handling(v) /\ Handling(w) => cur[v] # cur[w]

\* Nothing was started for a build before its task is delivered; afterwards it lies in the
\* outbox, or the router knows the task, so that the second delivery finds its result.
DeliveredOnce ==
  /\ \A b \in Builds : status[b] = "none" => started[b] = 0
  /\ \A w \in Watchdogs : pc[w] = "task" => started[cur[w]] = 0
  /\ \A w \in Watchdogs : pc[w] \in {"dispatch", "final"} =>
       IF transport = "outbox" THEN cur[w] \in mailed ELSE result[cur[w]] # "none"

\* The router calls a task accepted only after the transport took it.
AcceptedWasStarted == \A b \in Builds : result[b] = "accepted" => started[b] = 1

Inv == Types /\ OwnBuild /\ DeliveredOnce /\ AcceptedWasStarted /\ RunningWasHandedOver

USE DEF Goto, None, HandedOver
-----------------------------------------------------------------------------
LEMMA BuildsAreNat == Builds \subseteq Nat /\ None \notin Builds
BY FactoryAssumption DEF Builds

LEMMA Initial == Init => Inv
<1> SUFFICES ASSUME Init PROVE Inv OBVIOUS
<1>1. Types BY DEF Init, Types, Statuses, Results, PCs
<1>2. OwnBuild /\ DeliveredOnce BY DEF Init, OwnBuild, DeliveredOnce, Handling
<1>3. AcceptedWasStarted /\ RunningWasHandedOver
  BY DEF Init, AcceptedWasStarted, RunningWasHandedOver, With
<1> QED BY <1>1, <1>2, <1>3 DEF Inv

\* A step that only takes watchdogs away from their builds, or moves those without one.
LEMMA LeavingStep ==
  ASSUME Inv, UNCHANGED <<status, started, mailed, transport>>, after' \in [Watchdogs -> {"idle", "feed"}],
         result' = result \/ result' = [b \in Builds |-> "none"],
         pc' \in [Watchdogs -> PCs], cur' \in [Watchdogs -> Builds \cup {None}],
         \A w \in Watchdogs :
           ~Handling(w)' \/ (result' = result /\ pc'[w] = pc[w] /\ cur'[w] = cur[w])
  PROVE  Inv'
<1> USE DEF Inv
<1>1. Types' BY DEF Types, Results
<1>2. OwnBuild' BY DEF OwnBuild, Handling
<1>3. DeliveredOnce' BY DEF DeliveredOnce, Handling
<1>4. AcceptedWasStarted' BY DEF AcceptedWasStarted
<1>5. RunningWasHandedOver' BY DEF RunningWasHandedOver, With
<1> QED BY <1>1, <1>2, <1>3, <1>4, <1>5

LEMMA TransportStep ==
  ASSUME Types, NEW b \in Builds, started[b] = 0, Transport(b)
  PROVE  /\ result' \in [Builds -> Results] /\ started' \in [Builds -> {0, 1}]
         /\ result'[b] # "none" /\ (result'[b] = "accepted" => started'[b] = 1)
         /\ \A c \in Builds \ {b} : result'[c] = result[c] /\ started'[c] = started[c]
<1>1. /\ started' = [started EXCEPT ![b] = 1] \/ started' = started
      /\ \/ result' = [result EXCEPT ![b] = "accepted"] /\ started' = [started EXCEPT ![b] = 1]
         \/ result' = [result EXCEPT ![b] = "refused"]
  BY DEF Types, Transport, Begin, WorkOrder, AgentBuild
<1> QED BY <1>1 DEF Types, Results

\* The first delivery starts a builder unless it fails.
LEMMA TaskStep ==
  ASSUME Inv, NEW w \in Watchdogs, EmitTask(w), transport' = transport
  PROVE  Inv'
<1> USE DEF Inv
<1>1. PICK b \in Builds : b = cur[w] /\ started[b] = 0 /\ status[b] = "queued"
  BY DEF EmitTask, OwnBuild, DeliveredOnce, Handling
<1>2. /\ pc[w] = "task" /\ pc' = [pc EXCEPT ![w] = "dispatch"]
      /\ UNCHANGED <<status, after, cur>>
  BY DEF EmitTask, graph
<1>3. /\ result' \in [Builds -> Results] /\ started' \in [Builds -> {0, 1}]
      /\ (result'[b] = "accepted" => started'[b] = 1)
      /\ IF transport = "outbox" THEN b \in mailed' ELSE result'[b] # "none"
      /\ mailed \subseteq mailed' /\ mailed' \subseteq Builds
      /\ \A c \in Builds \ {b} : result'[c] = result[c] /\ started'[c] = started[c]
  <2>1. CASE transport # "outbox" /\ result[b] # "none" /\ UNCHANGED <<router, board, failures>>
    BY <1>1, <2>1 DEF router, Types, AcceptedWasStarted
  <2>2. CASE transport # "outbox" /\ Transport(b) /\ UNCHANGED mailed
    BY <1>1, <2>2, TransportStep DEF Types
  <2>3. CASE transport = "outbox" /\ Mail(b)
    BY <1>1, <2>3 DEF Mail, Types, AcceptedWasStarted
  <2> QED BY <1>1, <2>1, <2>2, <2>3 DEF EmitTask, Route
<1>4. Types' BY <1>2, <1>3 DEF Types, PCs, Ticking
<1>5. OwnBuild' BY <1>2 DEF OwnBuild, Handling, Types
<1>6. \A v \in Watchdogs \ {w} : Handling(v)' => cur'[v] \in Builds /\ cur'[v] # b /\ pc'[v] = pc[v]
  BY <1>1, <1>2 DEF OwnBuild, Handling, Types
<1>7. DeliveredOnce'
  BY <1>1, <1>2, <1>3, <1>6 DEF DeliveredOnce, Handling, Types
<1>8. AcceptedWasStarted' BY <1>1, <1>3 DEF AcceptedWasStarted
<1>9. status[b] # "running" BY <1>1 DEF RunningWasHandedOver, With
<1>10. RunningWasHandedOver' BY <1>1, <1>2, <1>3, <1>9 DEF RunningWasHandedOver, With
<1> QED BY <1>4, <1>5, <1>7, <1>8, <1>10

\* The second one finds the result of the first.
LEMMA DispatchStep ==
  ASSUME Inv, NEW w \in Watchdogs, Dispatch(w), transport' = transport
  PROVE  Inv'
<1> USE DEF Inv
<1>1. /\ IF transport = "outbox" THEN cur[w] \in mailed ELSE result[cur[w]] # "none"
      /\ cur[w] \in Builds
  BY DEF Dispatch, DeliveredOnce, OwnBuild, Handling
<1>2. /\ pc[w] = "dispatch" /\ pc' = [pc EXCEPT ![w] = "final"]
      /\ UNCHANGED <<status, result, started, mailed, after, cur>>
  BY <1>1 DEF Dispatch, Route, Mail, graph, router
<1>3. Types' BY <1>2 DEF Types, PCs, Ticking
<1>4. OwnBuild' BY <1>2 DEF OwnBuild, Handling, Types
<1>5. DeliveredOnce' BY <1>1, <1>2 DEF DeliveredOnce, Types
<1>6. AcceptedWasStarted' /\ RunningWasHandedOver'
  BY <1>2 DEF AcceptedWasStarted, RunningWasHandedOver, With
<1> QED BY <1>3, <1>4, <1>5, <1>6

\* A build is recorded under an id no tick is handling.
LEMMA QueuedStep ==
  ASSUME Inv, NEW w \in Watchdogs, EmitQueued(w), transport' = transport
  PROVE  Inv'
<1> USE DEF Inv
<1>1. PICK b \in Builds : /\ b \in Free /\ status' = [status EXCEPT ![b] = "queued"]
                          /\ result' = [result EXCEPT ![b] = "none"]
                          /\ cur' = [cur EXCEPT ![w] = b] /\ pc' = [pc EXCEPT ![w] = "task"]
  BY DEF EmitQueued
<1>2. pc[w] = "queued" /\ UNCHANGED <<started, mailed, after>> BY DEF EmitQueued
<1>3. Types' BY <1>1, <1>2 DEF Types, Results, PCs, Ticking, Statuses
<1>4. \A v \in Watchdogs \ {w} :
        Handling(v)' => /\ Handling(v) /\ pc'[v] = pc[v] /\ cur'[v] = cur[v] /\ cur[v] # b
                        /\ cur[v] \in Builds
  BY <1>1 DEF OwnBuild, Handling, Types, Free
<1>5. /\ cur'[w] = b /\ pc'[w] = "task" /\ started[b] = 0 /\ status'[b] = "queued"
      /\ \A c \in Builds \ {b} : status'[c] = status[c] /\ result'[c] = result[c]
      /\ result'[b] = "none"
  BY <1>1 DEF Types, DeliveredOnce, Free
<1>6. OwnBuild' BY <1>4, <1>5 DEF OwnBuild
<1>7. DeliveredOnce' BY <1>2, <1>4, <1>5 DEF DeliveredOnce, Handling
<1>8. AcceptedWasStarted'
  <2> SUFFICES ASSUME NEW c \in Builds, result'[c] = "accepted" PROVE started'[c] = 1
    BY DEF AcceptedWasStarted
  <2>1. c # b BY <1>5
  <2>2. result[c] = "accepted" BY <1>5, <2>1
  <2> QED BY <1>2, <2>2 DEF AcceptedWasStarted
<1>9. RunningWasHandedOver'
  <2>1. \A c \in Builds : status'[c] = "running" => c # b /\ HandedOver(c) BY <1>5 DEF RunningWasHandedOver, With
  <2> QED BY <1>2, <2>1 DEF RunningWasHandedOver, With
<1> QED BY <1>3, <1>6, <1>7, <1>8, <1>9

\* What the dispatcher answered decides the status.
LEMMA FinalStep ==
  ASSUME Inv, NEW w \in Watchdogs, EmitFinal(w), transport' = transport
  PROVE  Inv'
<1> USE DEF Inv
<1>1. PICK b \in Builds : b = cur[w] /\ Handling(w)
  BY DEF EmitFinal, OwnBuild, Handling
<1>2. PICK l \in PCs : l \notin {"task", "dispatch", "final"} /\ pc' = [pc EXCEPT ![w] = l]
  BY DEF EmitFinal, Types, PCs, Ticking
<1>3. /\ status' = [status EXCEPT ![b] = IF Accepts(b) THEN "running" ELSE "rejected"]
      /\ cur' = [cur EXCEPT ![w] = None] /\ UNCHANGED <<result, started, mailed, after>>
  BY <1>1 DEF EmitFinal, router
<1>4. Types' BY <1>2, <1>3 DEF Types, Statuses
<1>5. \A v \in Watchdogs : Handling(v)' =>
        v # w /\ Handling(v) /\ pc'[v] = pc[v] /\ cur'[v] = cur[v] /\ cur[v] # b
  BY <1>1, <1>2, <1>3 DEF OwnBuild, Handling, Types
<1>6. status'[b] # "none" /\ \A c \in Builds \ {b} : status'[c] = status[c]
  BY <1>3 DEF Types
<1>7. OwnBuild' BY <1>5, <1>6 DEF OwnBuild
<1>8. DeliveredOnce' BY <1>3, <1>5, <1>6 DEF DeliveredOnce, Handling
<1>9. status'[b] = "running" => HandedOver(b)
  <2>1. pc[w] = "final" BY DEF EmitFinal
  <2>2. transport = "outbox" => b \in mailed BY <1>1, <2>1 DEF DeliveredOnce
  <2>3. result[b] = "accepted" => started[b] = 1 BY DEF AcceptedWasStarted
  <2> QED BY <1>3, <2>2, <2>3 DEF Accepts, Types
<1>10. AcceptedWasStarted' /\ RunningWasHandedOver'
  BY <1>3, <1>6, <1>9 DEF AcceptedWasStarted, RunningWasHandedOver, With
<1> QED BY <1>4, <1>7, <1>8, <1>10

LEMMA StepKeeps ==
  ASSUME Inv, [Next]_vars
  PROVE  Inv'
<1> USE DEF Inv
<1>1. ASSUME NEW w \in Watchdogs,
             \/ Snapshot(w) \/ FloorTick(w) \/ Feed(w) \/ AdmitTick(w) \/ Tick(w)
             \/ OutOfBuilds(w),
             transport' = transport
      PROVE  Inv'
  <2>1. PICK l \in PCs : l \notin {"task", "dispatch", "final"} /\ pc' = [pc EXCEPT ![w] = l]
    BY <1>1 DEF Snapshot, FloorTick, Feed, AdmitTick, Post, Tick, OutOfBuilds,
                Types, PCs, Ticking
  <2>2. UNCHANGED <<status, result, started, mailed, transport, cur>>
    BY <1>1 DEF Snapshot, FloorTick, Feed, AdmitTick, Post, Tick, OutOfBuilds, graph, router
  <2>3. after' \in [Watchdogs -> {"idle", "feed"}]
    BY <1>1 DEF Snapshot, FloorTick, Feed, AdmitTick, Post, Tick, OutOfBuilds, Types
  <2>4. pc' \in [Watchdogs -> PCs] /\ cur' \in [Watchdogs -> Builds \cup {None}]
    BY <2>1, <2>2 DEF Types
  <2>5. \A v \in Watchdogs : ~Handling(v)' \/ (pc'[v] = pc[v] /\ cur'[v] = cur[v])
    BY <2>1, <2>2 DEF Handling, Types
  <2> QED BY <2>2, <2>3, <2>4, <2>5, LeavingStep
<1>2. ASSUME NEW w \in Watchdogs, TickFails(w) PROVE Inv'
  <2>1. /\ pc' = [pc EXCEPT ![w] = after[w]] /\ cur' = [cur EXCEPT ![w] = None]
        /\ UNCHANGED <<status, result, started, mailed, transport, after>>
    BY <1>2 DEF TickFails, graph, router, config
  <2>2. after[w] \in {"idle", "feed"} BY DEF Types
  <2>3. pc' \in [Watchdogs -> PCs] /\ cur' \in [Watchdogs -> Builds \cup {None}]
    BY <2>1, <2>2 DEF Types, PCs
  <2>4. \A v \in Watchdogs : ~Handling(v)' \/ (pc'[v] = pc[v] /\ cur'[v] = cur[v])
    BY <2>1, <2>2 DEF Handling, Types
  <2>5. after' \in [Watchdogs -> {"idle", "feed"}] BY <2>1 DEF Types
  <2> QED BY <2>1, <2>3, <2>4, <2>5, LeavingStep
<1>3. CASE Crash
  <2>1. /\ pc' = [w \in Watchdogs |-> IF pc[w] \in Ticking THEN after[w] ELSE pc[w]]
        /\ cur' = [w \in Watchdogs |-> None] /\ result' = [b \in Builds |-> "none"]
        /\ UNCHANGED <<status, started, mailed, transport, after>>
    BY <1>3 DEF Crash, graph, config
  <2>2. pc' \in [Watchdogs -> PCs] /\ cur' \in [Watchdogs -> Builds \cup {None}]
    BY <2>1 DEF Types, PCs
  <2>3. \A v \in Watchdogs : ~Handling(v)'
    BY <2>1 DEF Handling, Types, Ticking
  <2>4. after' \in [Watchdogs -> {"idle", "feed"}] BY <2>1 DEF Types
  <2> QED BY <2>1, <2>2, <2>3, <2>4, LeavingStep
<1>4. ASSUME UNCHANGED <<status, result, started, mailed, transport, pc, after, cur>> PROVE Inv'
  BY <1>4 DEF Types, OwnBuild, Handling, DeliveredOnce, AcceptedWasStarted, RunningWasHandedOver, With
<1>5. ASSUME NEW b \in Builds, Build(b) \/ CronDispatch PROVE Inv'
  BY <1>4, <1>5 DEF Build, CronDispatch, graph, router, config, cycle
<1>6. CASE UNCHANGED vars BY <1>4, <1>6 DEF vars, graph, router, config, cycle
<1>7. ASSUME NEW w \in Watchdogs, Step(w) PROVE Inv'
  <2>1. transport' = transport BY <1>7 DEF Step, config
  <2> QED BY <1>1, <1>7, <2>1, TaskStep, DispatchStep, QueuedStep, FinalStep DEF Step
<1>8. CASE CronDispatch BY <1>5, <1>8 DEF CronDispatch, KanbanDispatch
<1> QED BY <1>2, <1>3, <1>5, <1>6, <1>7, <1>8 DEF Next

LEMMA Inductive == Spec => []Inv
BY Initial, StepKeeps, PTL DEF Spec

\* The bus and the tick both deliver a task; the router starts one builder for it, however many
\* watchdogs overlap, dispatches fail and servers die (router-dispatcher.js: "collapses that
\* double-delivery").
THEOREM OneBuilderPerBuild == Spec => []BuilderOncePerBuild
<1>1. Inv => BuilderOncePerBuild BY DEF Inv, Types, BuilderOncePerBuild
<1> QED BY <1>1, Inductive, PTL

\* A build that the graph calls running was handed over: to the transport, which has taken it,
\* or, where none is configured, to the outbox (factory-controller.js: "status reflects reality
\* only after the dispatcher answers").
THEOREM RunningIsReal == Spec => []RunningWasHandedOver
<1>1. Inv => RunningWasHandedOver BY DEF Inv
<1> QED BY <1>1, Inductive, PTL
-----------------------------------------------------------------------------
(* One cycle at a time                                                     *)

Claiming(w) == pc[w] = "queued" \/ Handling(w)

MoreTypes ==
  /\ idea \in [Builds -> Eligible \cup {None}]
  /\ board \in [Builds -> Boards]
  /\ seen \in [Watchdogs -> [running : Nat, ready : SUBSET Builds]]
  /\ picks \in [Watchdogs -> Seq(Eligible)]

\* Only one cycle is in progress.
Solo == \A v, w \in Watchdogs : pc[v] # "idle" /\ pc[w] # "idle" => v = w

\* What a tick has selected and not handled yet is distinct, has no build but the one in hand,
\* and fits.
Selected ==
  \A w \in Watchdogs : Claiming(w) =>
    /\ picks[w] # <<>>
    /\ \A k, l \in DOMAIN picks[w] : picks[w][k] = picks[w][l] => k = l
    /\ \A k \in DOMAIN picks[w] : k > 1 \/ pc[w] = "queued" => picks[w][k] \notin Already
    /\ Handling(w) => idea[cur[w]] = picks[w][1] /\ status[cur[w]] = "queued"
    /\ Cardinality(With("running")) + Len(picks[w]) <= MaxBuilding

\* Until a cycle feeds a builder, no more tasks run than it saw.
Watching(w) == pc[w] \in {"floor", "feed"} \/ (pc[w] \in Ticking /\ after[w] = "feed")
SeenRunning ==
  \A w \in Watchdogs : Watching(w) => Cardinality(On("running")) <= seen[w].running

OneCycle == Solo /\ Selected /\ SeenRunning /\ OneLiveBuildPerIdea /\ CapacityRespected

Alone == overlapped \/ OneCycle

LEMMA Counting ==
  /\ \A S, T \in SUBSET Builds : S \subseteq T => Cardinality(S) <= Cardinality(T)
  /\ \A S \in SUBSET Builds : Cardinality(S) \in Nat
  /\ \A S \in SUBSET Builds, b \in Builds :
       /\ Cardinality(S \cup {b}) <= Cardinality(S) + 1
       /\ b \notin S => Cardinality(S \cup {b}) = Cardinality(S) + 1
<1>1. IsFiniteSet(Builds) BY FactoryAssumption, FS_Interval DEF Builds
<1>2. \A S \in SUBSET Builds : IsFiniteSet(S) BY <1>1, FS_Subset
<1>3. \A S, T \in SUBSET Builds : S \subseteq T => Cardinality(S) <= Cardinality(T)
  BY <1>2, FS_Subset
<1>4. \A S \in SUBSET Builds : Cardinality(S) \in Nat BY <1>2, FS_CardinalityType
<1>5. \A S \in SUBSET Builds, b \in Builds :
        Cardinality(S \cup {b}) = IF b \in S THEN Cardinality(S) ELSE Cardinality(S) + 1
  BY <1>2, FS_AddElement
<1> QED BY <1>3, <1>4, <1>5

\* What keeps the parts of OneCycle.
LEMMA SelectedKeeps ==
  ASSUME Selected, UNCHANGED <<idea, status>>,
         \A v \in Watchdogs : Claiming(v)' =>
           /\ picks'[v] = picks[v] /\ cur'[v] = cur[v]
           /\ pc[v] = pc'[v] \/ (Handling(v) /\ Handling(v)')
  PROVE  Selected'
<1>1. Already' = Already /\ With("running")' = With("running") BY DEF Already, With
<1>2. \A v \in Watchdogs : Claiming(v)' =>
        /\ Claiming(v) /\ (Handling(v)' => Handling(v)) /\ (pc'[v] = "queued" => pc[v] = "queued")
  BY DEF Claiming, Handling
<1> SUFFICES ASSUME NEW w \in Watchdogs, Claiming(w)'
             PROVE  /\ picks[w] # <<>>
                    /\ \A k, l \in DOMAIN picks[w] : picks[w][k] = picks[w][l] => k = l
                    /\ \A k \in DOMAIN picks[w] : k > 1 \/ pc'[w] = "queued" => picks[w][k] \notin Already
                    /\ Handling(w)' => idea[cur[w]] = picks[w][1] /\ status[cur[w]] = "queued"
                    /\ Cardinality(With("running")) + Len(picks[w]) <= MaxBuilding
  BY <1>1 DEF Selected
<1> QED BY <1>2 DEF Selected

LEMMA SeenKeeps ==
  ASSUME SeenRunning, MoreTypes, On("running")' \subseteq On("running"),
         \A v \in Watchdogs : Watching(v)' => Watching(v) /\ seen'[v] = seen[v]
  PROVE  SeenRunning'
<1>1. On("running") \in SUBSET Builds BY DEF On
<1>2. /\ Cardinality(On("running")') <= Cardinality(On("running"))
      /\ Cardinality(On("running")') \in Nat /\ Cardinality(On("running")) \in Nat
  BY <1>1, Counting
<1>3. \A w \in Watchdogs : seen[w].running \in Nat BY DEF MoreTypes
<1> SUFFICES ASSUME NEW w \in Watchdogs, Watching(w)'
             PROVE  Cardinality(On("running")') <= seen'[w].running
  BY DEF SeenRunning, Watching
<1>4. Cardinality(On("running")) <= seen[w].running BY DEF SeenRunning, Watching
<1> QED BY <1>2, <1>3, <1>4

LEMMA CapacityKeeps ==
  ASSUME ~overlapped, CapacityRespected, With("running")' \subseteq With("running"),
         On("running")' \subseteq On("running")
  PROVE  CapacityRespected'
<1>1. On("running") \in SUBSET Builds /\ With("running") \in SUBSET Builds BY DEF On, With
<1>2. /\ Cardinality(On("running")') <= Cardinality(On("running"))
      /\ Cardinality(With("running")') <= Cardinality(With("running"))
      /\ Cardinality(On("running")') \in Nat /\ Cardinality(On("running")) \in Nat
      /\ Cardinality(With("running")') \in Nat /\ Cardinality(With("running")) \in Nat
  BY <1>1, Counting
<1> QED BY <1>2, FactoryAssumption DEF CapacityRespected

\* The steps that leave the graph and the claims of the other cycles alone: those of a cycle
\* before and after its ticks, and those that end a tick.
LEMMA QuietStep ==
  ASSUME Inv, MoreTypes, OneCycle, ~overlapped, UNCHANGED <<idea, status, seen>>,
         On("running")' \subseteq On("running"),
         \A v \in Watchdogs :
           /\ pc'[v] # "idle" => pc[v] # "idle"
           /\ Watching(v)' => Watching(v)
           /\ Claiming(v)' => pc'[v] = pc[v] /\ picks'[v] = picks[v] /\ cur'[v] = cur[v]
  PROVE  OneCycle'
<1> USE DEF OneCycle
<1>1. Solo' BY DEF Solo
<1>2. Selected' BY SelectedKeeps
<1>3. SeenRunning' BY SeenKeeps
<1>4. OneLiveBuildPerIdea' BY DEF OneLiveBuildPerIdea
<1>5. CapacityRespected' BY CapacityKeeps DEF With
<1> QED BY <1>1, <1>2, <1>3, <1>4, <1>5

LEMMA SnapshotStep ==
  ASSUME Inv, MoreTypes, OneCycle, NEW w \in Watchdogs, Snapshot(w), ~overlapped'
  PROVE  OneCycle'
<1> USE DEF OneCycle
<1>1. ~overlapped /\ \A v \in Watchdogs : pc[v] = "idle" BY DEF Snapshot
<1>2. /\ pc' = [pc EXCEPT ![w] = "floor"] /\ UNCHANGED <<idea, status, board, picks, cur>>
      /\ seen' = [seen EXCEPT ![w] = [running |-> Cardinality(Running), ready |-> On("ready")]]
  BY DEF Snapshot, graph
<1>3. \A v \in Watchdogs : v # w => pc'[v] = "idle" BY <1>1, <1>2 DEF Inv, Types
<1>4. pc'[w] = "floor" /\ seen'[w].running = Cardinality(Running)
  BY <1>2 DEF Inv, Types, MoreTypes
<1>5. Solo' BY <1>3 DEF Solo
<1>6. Selected' BY <1>3, <1>4 DEF Selected, Claiming, Handling
<1>7. /\ Cardinality(On("running")) <= Cardinality(Running) /\ On("running")' = On("running")
      /\ Cardinality(On("running")) \in Nat
  <2>1. On("running") \in SUBSET Builds /\ Running \in SUBSET Builds
        /\ On("running") \subseteq Running
    BY DEF On, Running
  <2> QED BY <1>2, <2>1, Counting DEF On
<1>8. SeenRunning' BY <1>3, <1>4, <1>7 DEF SeenRunning, Watching, Ticking
<1>9. OneLiveBuildPerIdea' BY <1>1, <1>2 DEF OneLiveBuildPerIdea
<1>10. CapacityRespected' BY <1>1, <1>2, CapacityKeeps DEF With, On
<1> QED BY <1>5, <1>6, <1>8, <1>9, <1>10

\* One builder is fed, if fewer than MAX_BUILDERS were seen to run.
LEMMA FeedStep ==
  ASSUME Inv, MoreTypes, OneCycle, ~overlapped, NEW w \in Watchdogs, Feed(w)
  PROVE  OneCycle'
<1> USE DEF OneCycle
<1>1. /\ pc[w] = "feed" /\ pc' = [pc EXCEPT ![w] = "admit"]
      /\ UNCHANGED <<idea, status, picks, cur, overlapped>>
  BY DEF Feed, graph
<1>2. \A v \in Watchdogs : v # w => pc[v] = "idle" /\ pc'[v] = "idle"
  BY <1>1 DEF Solo, Inv, Types
<1>3. pc'[w] = "admit" BY <1>1 DEF Inv, Types
<1>4. Solo' BY <1>2 DEF Solo
<1>5. Selected' BY <1>2, <1>3 DEF Selected, Claiming, Handling
<1>6. SeenRunning' BY <1>2, <1>3 DEF SeenRunning, Watching, Ticking
<1>7. OneLiveBuildPerIdea' BY <1>1 DEF OneLiveBuildPerIdea
<1>8. Cardinality(On("running")') <= MaxBuilders
  <2>1. /\ On("running") \in SUBSET Builds /\ Cardinality(On("running")) \in Nat
        /\ Cardinality(On("running")) <= MaxBuilders
    BY Counting DEF On, CapacityRespected
  <2>2. CASE board' = board BY <2>1, <2>2 DEF On
  <2>3. CASE seen[w].running < MaxBuilders /\ board' # board
    <3>1. PICK b \in Builds : On("running")' \subseteq On("running") \cup {b}
      <4>1. seen[w].ready \subseteq Builds BY DEF MoreTypes
      <4>2. \E a \in seen[w].ready : \E tasks :
              /\ tasks = [board EXCEPT ![a] = IF board[a] = "ready" THEN "assigned" ELSE board[a]]
              /\ KanbanDispatch(tasks, "running") \/ board' = board \/ board' = tasks
        BY <2>3 DEF Feed
      <4>3. PICK a \in seen[w].ready : \E tasks :
              /\ tasks = [board EXCEPT ![a] = IF board[a] = "ready" THEN "assigned" ELSE board[a]]
              /\ KanbanDispatch(tasks, "running") \/ board' = board \/ board' = tasks
        BY <4>2
      <4>4. PICK tasks :
              /\ tasks = [board EXCEPT ![a] = IF board[a] = "ready" THEN "assigned" ELSE board[a]]
              /\ KanbanDispatch(tasks, "running") \/ board' = board \/ board' = tasks
        BY <4>3
      <4>5. \A c \in Builds : tasks[c] = "running" => board[c] = "running"
        BY <4>1, <4>4 DEF MoreTypes
      <4>6. tasks \in [Builds -> Boards] BY <4>1, <4>4 DEF MoreTypes, Boards
      <4>7. CASE board' = tasks
        <5>1. On("running")' \subseteq On("running") BY <4>5, <4>7 DEF On
        <5> QED BY <4>1, <5>1
      <4>8. CASE KanbanDispatch(tasks, "running")
        <5>1. PICK c \in Builds : board' = [tasks EXCEPT ![c] = "running"]
          BY <4>8 DEF KanbanDispatch
        <5>2. On("running")' \subseteq On("running") \cup {c} BY <4>5, <4>6, <5>1 DEF On
        <5> QED BY <5>2
      <4> QED BY <2>3, <4>4, <4>7, <4>8
    <3>3. Cardinality(On("running")) <= seen[w].running BY <1>1 DEF SeenRunning, Watching
    <3>4. Cardinality(On("running") \cup {b}) <= Cardinality(On("running")) + 1 BY <2>1, Counting
    <3>5. /\ Cardinality(On("running")') <= Cardinality(On("running") \cup {b})
          /\ Cardinality(On("running")') \in Nat /\ Cardinality(On("running") \cup {b}) \in Nat
      <4>1. On("running") \cup {b} \in SUBSET Builds BY <2>1
      <4>2. On("running")' \in SUBSET Builds BY <3>1, <4>1
      <4> QED BY <3>1, <4>1, <4>2, Counting
    <3>6. seen[w].running \in Nat BY DEF MoreTypes
    <3> QED BY <2>1, <2>3, <3>3, <3>4, <3>5, <3>6, FactoryAssumption
  <2> QED BY <2>2, <2>3 DEF Feed
<1>9. With("running")' = With("running") BY <1>1 DEF With
<1>10. CapacityRespected' BY <1>8, <1>9 DEF CapacityRespected
<1> QED BY <1>4, <1>5, <1>6, <1>7, <1>10


\* A selection is distinct, without builds, and fits beside the builds that run.
LEMMA SelectionFits ==
  ASSUME Cardinality(With("running")) <= MaxBuilding, NEW s \in Select
  PROVE  /\ s \in Seq(Eligible)
         /\ \A k, l \in DOMAIN s : s[k] = s[l] => k = l
         /\ \A k \in DOMAIN s : s[k] \notin Already
         /\ Cardinality(With("running")) + Len(s) <= MaxBuilding
<1> DEFINE active == Cardinality(With("running"))
           n == IF Limit < MaxBuilding - active THEN Limit ELSE MaxBuilding - active
<1>1. active \in Nat BY Counting DEF With
<1>2. Select = Best(IF Limit < (IF active < MaxBuilding THEN MaxBuilding - active ELSE 0)
                    THEN Limit ELSE (IF active < MaxBuilding THEN MaxBuilding - active ELSE 0))
  BY DEF Select
<1>3. (IF active < MaxBuilding THEN MaxBuilding - active ELSE 0) = MaxBuilding - active
  BY <1>1, FactoryAssumption
<1>4. s \in Best(n) BY <1>2, <1>3
<1>5. n \in Nat /\ active + n <= MaxBuilding BY <1>1, FactoryAssumption
<1> HIDE DEF n, active
<1>6. PICK m \in 0 .. n : s \in [1 .. m -> Eligible \ Already] BY <1>4 DEF Best
<1>7. s \in Seq(Eligible) /\ Len(s) = m /\ DOMAIN s = 1 .. m BY <1>5, <1>6
<1>8. \A k, l \in DOMAIN s : k < l => Rank[s[k]] < Rank[s[l]] BY <1>4 DEF Best
<1>9. \A i \in Eligible : Rank[i] \in Nat
  <2> SUFFICES ASSUME NEW i \in Eligible PROVE Rank[i] \in Nat OBVIOUS
  <2>1. \E k \in DOMAIN Ranking : Ranking[k] = i BY DEF Eligible, Range
  <2>2. Rank[i] \in DOMAIN Ranking BY <2>1 DEF Rank
  <2> QED BY <2>2, FactoryAssumption
<1>10. \A k, l \in DOMAIN s : s[k] = s[l] => k = l
  <2> SUFFICES ASSUME NEW k \in DOMAIN s, NEW l \in DOMAIN s, s[k] = s[l], k # l PROVE FALSE
    OBVIOUS
  <2>1. Rank[s[k]] \in Nat /\ k \in Nat /\ l \in Nat /\ Rank[s[k]] = Rank[s[l]] BY <1>6, <1>7, <1>9
  <2>2. k < l \/ l < k BY <2>1
  <2> QED BY <1>8, <2>1, <2>2
<1>11. \A k \in DOMAIN s : s[k] \notin Already BY <1>6, <1>7
<1>12. active + Len(s) <= MaxBuilding BY <1>1, <1>5, <1>7, FactoryAssumption
<1> QED BY <1>7, <1>10, <1>11, <1>12 DEF active

LEMMA TickStep ==
  ASSUME Inv, MoreTypes, OneCycle, ~overlapped, NEW w \in Watchdogs, Tick(w)
  PROVE  OneCycle'
<1> USE DEF OneCycle
<1>1. PICK s \in Select :
        /\ picks' = [picks EXCEPT ![w] = s]
        /\ pc' = [pc EXCEPT ![w] = IF s = <<>> THEN after[w] ELSE "queued"]
  BY DEF Tick
<1>2. pc[w] = "select" /\ UNCHANGED <<idea, status, board, after, seen, cur, overlapped>>
  BY DEF Tick, graph
<1>3. \A v \in Watchdogs : v # w => pc[v] = "idle" /\ pc'[v] = "idle"
  BY <1>1, <1>2 DEF Solo, Inv, Types
<1>4. /\ Already' = Already /\ With("running")' = With("running")
      /\ On("running")' = On("running")
  BY <1>2 DEF Already, With, On
<1>5. Cardinality(With("running")) <= MaxBuilding BY DEF CapacityRespected
<1>6. Solo' BY <1>3 DEF Solo
<1>7. Selected'
  <2>1. \A v \in Watchdogs : Claiming(v)' => v = w BY <1>3 DEF Claiming, Handling
  <2>2. picks'[w] = s /\ (pc'[w] = after[w] \/ (pc'[w] = "queued" /\ s # <<>>))
    <3>1. picks'[w] = s BY <1>1 DEF MoreTypes
    <3>2. pc'[w] = IF s = <<>> THEN after[w] ELSE "queued" BY <1>1 DEF Inv, Types
    <3> QED BY <3>1, <3>2
  <2>3. after[w] \in {"idle", "feed"} BY DEF Inv, Types
  <2>4. Claiming(w)' => pc'[w] = "queued" /\ s # <<>> BY <2>2, <2>3 DEF Claiming, Handling
  <2>5. /\ \A k, l \in DOMAIN s : s[k] = s[l] => k = l
        /\ \A k \in DOMAIN s : s[k] \notin Already
        /\ Cardinality(With("running")) + Len(s) <= MaxBuilding
    BY <1>5, SelectionFits
  <2> QED BY <1>4, <2>1, <2>2, <2>4, <2>5 DEF Selected, Handling
<1>8. \A v \in Watchdogs : Watching(v)' => Watching(v) /\ seen'[v] = seen[v]
  BY <1>1, <1>2, <1>3 DEF Watching, Ticking, Inv, Types
<1>9. SeenRunning' BY <1>4, <1>8, SeenKeeps
<1>10. OneLiveBuildPerIdea' BY <1>2 DEF OneLiveBuildPerIdea
<1>11. CapacityRespected' BY <1>4, CapacityKeeps
<1> QED BY <1>6, <1>7, <1>9, <1>10, <1>11

\* The idea of a new build had none.
LEMMA QueuedOnceStep ==
  ASSUME Inv, MoreTypes, OneCycle, ~overlapped, NEW w \in Watchdogs, EmitQueued(w)
  PROVE  OneCycle'
<1> USE DEF OneCycle
<1>1. PICK b \in Builds :
        /\ b \in Free /\ status' = [status EXCEPT ![b] = "queued"]
        /\ idea' = [idea EXCEPT ![b] = Head(picks[w])]
        /\ cur' = [cur EXCEPT ![w] = b] /\ pc' = [pc EXCEPT ![w] = "task"]
  BY DEF EmitQueued
<1>2. pc[w] = "queued" /\ UNCHANGED <<board, after, seen, picks, overlapped>> BY DEF EmitQueued
<1>3. \A v \in Watchdogs : v # w => pc[v] = "idle" /\ pc'[v] = "idle"
  BY <1>1, <1>2 DEF Solo, Inv, Types
<1>4. /\ pc'[w] = "task" /\ cur'[w] = b /\ status'[b] = "queued" /\ idea'[b] = Head(picks[w])
      /\ \A c \in Builds \ {b} : status'[c] = status[c] /\ idea'[c] = idea[c]
  BY <1>1 DEF Inv, Types, MoreTypes
<1>5. /\ picks[w] # <<>> /\ picks[w] \in Seq(Eligible) /\ Head(picks[w]) = picks[w][1]
      /\ \A k, l \in DOMAIN picks[w] : picks[w][k] = picks[w][l] => k = l
      /\ \A k \in DOMAIN picks[w] : picks[w][k] \notin Already
      /\ Cardinality(With("running")) + Len(picks[w]) <= MaxBuilding
      /\ 1 \in DOMAIN picks[w]
  BY <1>2 DEF Selected, Claiming, MoreTypes
<1>6. With("running")' = With("running") /\ On("running")' = On("running")
  BY <1>1, <1>2, <1>4 DEF With, On, Free
<1>7. Solo' BY <1>3 DEF Solo
<1>8. Already' \subseteq Already \cup {picks[w][1]} BY <1>4, <1>5 DEF Already
<1>9. \A k \in DOMAIN picks[w] : k > 1 => picks[w][k] \notin Already' BY <1>5, <1>8
<1>10. \A v \in Watchdogs : Claiming(v)' => v = w BY <1>3 DEF Claiming, Handling
<1>11. Selected' BY <1>2, <1>4, <1>5, <1>6, <1>9, <1>10 DEF Selected
<1>12. \A v \in Watchdogs : Watching(v)' => Watching(v) /\ seen'[v] = seen[v]
  BY <1>2, <1>3, <1>4 DEF Watching, Ticking
<1>13. SeenRunning' BY <1>6, <1>12, SeenKeeps
<1>14. \A c \in Builds : status[c] \in {"queued", "running"} => idea[c] \in Already BY DEF Already
<1>15. OneLiveBuildPerIdea' BY <1>4, <1>5, <1>14 DEF OneLiveBuildPerIdea
<1>16. CapacityRespected' BY <1>6, CapacityKeeps
<1> QED BY <1>7, <1>11, <1>13, <1>15, <1>16

\* A delivery changes neither the graph nor what runs on the board.
LEMMA DeliveryStep ==
  ASSUME Inv, MoreTypes, OneCycle, ~overlapped, NEW w \in Watchdogs, EmitTask(w) \/ Dispatch(w)
  PROVE  OneCycle'
<1> USE DEF OneCycle
<1>1. PICK l \in {"dispatch", "final"} : pc' = [pc EXCEPT ![w] = l]
  BY DEF EmitTask, Dispatch
<1>2. /\ pc[w] \in {"task", "dispatch"}
      /\ UNCHANGED <<idea, status, after, seen, picks, cur, overlapped>>
  BY DEF EmitTask, Dispatch, graph
<1>3. board' = board \/ board' = [board EXCEPT ![cur[w]] = "ready"]
  BY DEF EmitTask, Dispatch, Route, Mail, Transport, Begin, WorkOrder, AgentBuild
<1>4. On("running")' \subseteq On("running") BY <1>3 DEF On, MoreTypes
<1>5. \A v \in Watchdogs : v # w => pc'[v] = pc[v] BY <1>1 DEF Inv, Types
<1>6. pc'[w] = l BY <1>1 DEF Inv, Types
<1>7. Solo' BY <1>2, <1>5 DEF Solo
<1>8. Selected' BY <1>2, <1>5, <1>6, SelectedKeeps DEF Handling
<1>9. \A v \in Watchdogs : Watching(v)' => Watching(v) /\ seen'[v] = seen[v]
  BY <1>2, <1>5, <1>6 DEF Watching, Ticking
<1>10. SeenRunning' BY <1>4, <1>9, SeenKeeps
<1>11. OneLiveBuildPerIdea' BY <1>2 DEF OneLiveBuildPerIdea
<1>12. CapacityRespected' BY <1>2, <1>4, CapacityKeeps DEF With
<1> QED BY <1>7, <1>8, <1>10, <1>11, <1>12

\* The build in hand starts to run, or its idea has no build any more.
LEMMA FinalOnceStep ==
  ASSUME Inv, MoreTypes, OneCycle, ~overlapped, NEW w \in Watchdogs, EmitFinal(w)
  PROVE  OneCycle'
<1> USE DEF OneCycle
<1>1. PICK b \in Builds : b = cur[w] BY DEF EmitFinal, Inv, OwnBuild, Handling
<1>2. /\ pc[w] = "final" /\ UNCHANGED <<idea, board, after, seen, overlapped>>
      /\ picks' = [picks EXCEPT ![w] = Tail(picks[w])]
      /\ pc' = [pc EXCEPT ![w] = IF Tail(picks[w]) = <<>> THEN after[w] ELSE "queued"]
      /\ status' = [status EXCEPT ![b] = IF Accepts(b) THEN "running" ELSE "rejected"]
  BY <1>1 DEF EmitFinal
<1>3. \A v \in Watchdogs : v # w => pc[v] = "idle" /\ pc'[v] = "idle"
  BY <1>2 DEF Solo, Inv, Types
<1>4. /\ picks'[w] = Tail(picks[w])
      /\ pc'[w] = after[w] \/ (pc'[w] = "queued" /\ Tail(picks[w]) # <<>>)
      /\ status'[b] \in {"running", "rejected"}
      /\ \A c \in Builds \ {b} : status'[c] = status[c]
  <2>1. picks'[w] = Tail(picks[w]) BY <1>2 DEF MoreTypes
  <2>2. pc'[w] = IF Tail(picks[w]) = <<>> THEN after[w] ELSE "queued" BY <1>2 DEF Inv, Types
  <2>3. status'[b] \in {"running", "rejected"} /\ \A c \in Builds \ {b} : status'[c] = status[c]
    BY <1>2 DEF Inv, Types
  <2> QED BY <2>1, <2>2, <2>3
<1>5. /\ picks[w] # <<>> /\ picks[w] \in Seq(Eligible)
      /\ \A k, l \in DOMAIN picks[w] : picks[w][k] = picks[w][l] => k = l
      /\ \A k \in DOMAIN picks[w] : k > 1 => picks[w][k] \notin Already
      /\ status[b] = "queued"
      /\ Cardinality(With("running")) + Len(picks[w]) <= MaxBuilding
  BY <1>1, <1>2 DEF Selected, Claiming, Handling, MoreTypes
<1>6. On("running")' = On("running") BY <1>2 DEF On
<1>7. Solo' BY <1>3 DEF Solo
<1>8. /\ Cardinality(With("running")) \in Nat /\ Cardinality(With("running")') \in Nat
      /\ Cardinality(With("running")') <= Cardinality(With("running")) + 1
  <2>1. With("running") \in SUBSET Builds /\ With("running") \cup {b} \in SUBSET Builds
    BY DEF With
  <2>2. With("running")' \in SUBSET (With("running") \cup {b}) BY <1>4 DEF With
  <2>3. Cardinality(With("running")') <= Cardinality(With("running") \cup {b})
    BY <2>1, <2>2, Counting
  <2>4. Cardinality(With("running") \cup {b}) <= Cardinality(With("running")) + 1
    BY <2>1, Counting
  <2>5. /\ Cardinality(With("running")) \in Nat /\ Cardinality(With("running")') \in Nat
        /\ Cardinality(With("running") \cup {b}) \in Nat
    BY <2>1, <2>2, Counting
  <2> QED BY <2>3, <2>4, <2>5
<1>9. /\ Len(picks[w]) \in Nat /\ Len(picks[w]) > 0 /\ Len(Tail(picks[w])) = Len(picks[w]) - 1
      /\ \A k \in DOMAIN Tail(picks[w]) :
           k + 1 \in DOMAIN picks[w] /\ k + 1 > 1 /\ Tail(picks[w])[k] = picks[w][k + 1]
      /\ DOMAIN Tail(picks[w]) \subseteq Nat
  BY <1>5
<1>10. Already' \subseteq Already
  BY <1>2, <1>4, <1>5 DEF Already
<1>11. \A k, l \in DOMAIN Tail(picks[w]) : Tail(picks[w])[k] = Tail(picks[w])[l] => k = l
  <2> SUFFICES ASSUME NEW k \in DOMAIN Tail(picks[w]), NEW l \in DOMAIN Tail(picks[w]),
                      Tail(picks[w])[k] = Tail(picks[w])[l]
               PROVE  k = l
    OBVIOUS
  <2>1. k + 1 = l + 1 BY <1>5, <1>9
  <2> QED BY <1>9, <2>1
<1>12. \A k \in DOMAIN Tail(picks[w]) : Tail(picks[w])[k] \notin Already' BY <1>5, <1>9, <1>10
<1>13. Cardinality(With("running")') + Len(Tail(picks[w])) <= MaxBuilding
  BY <1>5, <1>8, <1>9, FactoryAssumption
<1>14. \A v \in Watchdogs : Claiming(v)' => v = w /\ pc'[w] = "queued" /\ Tail(picks[w]) # <<>>
  BY <1>3, <1>4 DEF Claiming, Handling, Inv, Types
<1>15. Selected' BY <1>4, <1>11, <1>12, <1>13, <1>14 DEF Selected, Handling
<1>16. \A v \in Watchdogs : Watching(v)' => Watching(v) /\ seen'[v] = seen[v]
  BY <1>2, <1>3, <1>4 DEF Watching, Ticking, Inv, Types
<1>17. SeenRunning' BY <1>6, <1>16, SeenKeeps
<1>18. OneLiveBuildPerIdea' BY <1>2, <1>4, <1>5 DEF OneLiveBuildPerIdea
<1>19. Cardinality(With("running")') <= MaxBuilding
  BY <1>5, <1>8, <1>9, FactoryAssumption
<1>20. CapacityRespected' BY <1>6, <1>19 DEF CapacityRespected
<1> QED BY <1>7, <1>15, <1>17, <1>18, <1>20

\* A tick that is asked for or ends, and what happens around the cycles.
LEMMA TurnStep ==
  ASSUME Inv, MoreTypes, OneCycle, ~overlapped, NEW w \in Watchdogs,
         FloorTick(w) \/ AdmitTick(w) \/ OutOfBuilds(w) \/ TickFails(w)
  PROVE  OneCycle'
<1>1. PICK l \in PCs : pc' = [pc EXCEPT ![w] = l] /\ l \notin {"queued", "task", "dispatch", "final"}
  BY DEF FloorTick, AdmitTick, Post, OutOfBuilds, TickFails, Inv, Types, PCs, Ticking
<1>2. /\ UNCHANGED <<idea, status, board, seen>> /\ pc[w] # "idle"
      /\ \A v \in Watchdogs : v # w => pc'[v] = pc[v] /\ after'[v] = after[v]
      /\ \A v \in Watchdogs : v # w => picks'[v] = picks[v] /\ cur'[v] = cur[v]
  BY <1>1 DEF FloorTick, AdmitTick, Post, OutOfBuilds, TickFails, graph, Inv, Types, MoreTypes, Ticking
<1>3. pc'[w] = l BY <1>1 DEF Inv, Types
<1>4. Watching(w)' => Watching(w)
  <2>1. CASE FloorTick(w) BY <2>1 DEF FloorTick, Watching
  <2>2. CASE AdmitTick(w)
    <3>1. after'[w] = "idle" /\ pc'[w] \in {"select", "idle"}
      BY <2>2 DEF AdmitTick, Post, Inv, Types
    <3> QED BY <3>1 DEF Watching
  <2>3. CASE OutOfBuilds(w) \/ TickFails(w)
    <3>1. pc[w] \in Ticking /\ pc'[w] = after[w] /\ after[w] \in {"idle", "feed"}
      BY <2>3 DEF OutOfBuilds, TickFails, Ticking, Inv, Types
    <3> QED BY <3>1 DEF Watching, Ticking
  <2> QED BY <2>1, <2>2, <2>3
<1>5. \A v \in Watchdogs :
        /\ pc'[v] # "idle" => pc[v] # "idle"
        /\ Watching(v)' => Watching(v)
        /\ Claiming(v)' => pc'[v] = pc[v] /\ picks'[v] = picks[v] /\ cur'[v] = cur[v]
  BY <1>1, <1>2, <1>3, <1>4 DEF Watching, Claiming, Handling
<1> QED BY <1>2, <1>5, QuietStep DEF On

LEMMA AroundStep ==
  ASSUME Inv, MoreTypes, OneCycle, ~overlapped,
         Crash \/ (\E b \in Builds : Build(b)) \/ CronDispatch \/ UNCHANGED vars
  PROVE  OneCycle'
<1>1. CASE Crash
  <2>1. \A v \in Watchdogs : pc'[v] = IF pc[v] \in Ticking THEN after[v] ELSE pc[v]
    BY <1>1 DEF Crash
  <2>2. UNCHANGED <<idea, status, board, after, seen>> BY <1>1 DEF Crash, graph
  <2>3. \A v \in Watchdogs :
          /\ pc'[v] # "idle" => pc[v] # "idle"
          /\ Watching(v)' => Watching(v)
          /\ ~Claiming(v)'
    BY <2>1, <2>2 DEF Watching, Claiming, Handling, Ticking, Inv, Types
  <2> QED BY <2>2, <2>3, QuietStep DEF On
<1>2. CASE (\E b \in Builds : Build(b)) \/ CronDispatch \/ UNCHANGED vars
  <2>1. UNCHANGED <<idea, status, pc, after, seen, picks, cur>>
    BY <1>2 DEF Build, CronDispatch, vars, graph, cycle
  <2>2. On("running")' \subseteq On("running")
    <3>1. CASE UNCHANGED vars BY <3>1 DEF vars, On
    <3>2. ASSUME NEW b \in Builds, Build(b) PROVE On("running")' \subseteq On("running")
      <4>1. board' = [board EXCEPT ![b] = IF board[b] = "done" THEN "judged" ELSE "done"]
        BY <3>2 DEF Build
      <4> QED BY <4>1 DEF On, MoreTypes
    <3>3. CASE CronDispatch
      <4>1. PICK b \in Builds : board' = [board EXCEPT ![b] = "direct"]
        BY <3>3 DEF CronDispatch, KanbanDispatch
      <4> QED BY <4>1 DEF On, MoreTypes
    <3> QED BY <1>2, <3>1, <3>2, <3>3
  <2>3. \A v \in Watchdogs :
          /\ pc'[v] # "idle" => pc[v] # "idle"
          /\ Watching(v)' => Watching(v)
          /\ Claiming(v)' => pc'[v] = pc[v] /\ picks'[v] = picks[v] /\ cur'[v] = cur[v]
    BY <2>1 DEF Watching
  <2> QED BY <2>1, <2>2, <2>3, QuietStep
<1> QED BY <1>1, <1>2

\* A tick that claims an idea has one in hand, whatever overlaps.
Data == MoreTypes /\ \A w \in Watchdogs : Claiming(w) => picks[w] # <<>>

LEMMA DataInitial == Init => Data
BY DEF Init, Data, MoreTypes, Boards, Unseen, Claiming, Handling

LEMMA SelectionTypes ==
  ASSUME NEW s \in Select
  PROVE  s \in Seq(Eligible)
<1>1. PICK n : s \in Best(n) BY DEF Select
<1>2. PICK m \in 0 .. n : s \in [1 .. m -> Eligible \ Already] BY <1>1 DEF Best
<1>3. m \in Nat OBVIOUS
<1> QED BY <1>2, <1>3

LEMMA DataStep ==
  ASSUME Inv, Data, [Next]_vars
  PROVE  Data'
<1> USE DEF Data
<1>1. ASSUME NEW w \in Watchdogs, FloorTick(w) \/ AdmitTick(w) \/ Feed(w) \/ Snapshot(w)
      PROVE  Data'
  <2>1. UNCHANGED <<idea, picks>>
    BY <1>1 DEF FloorTick, AdmitTick, Post, Feed, Snapshot, graph
  <2>2. PICK l \in PCs : pc' = [pc EXCEPT ![w] = l] /\ l \notin {"queued", "task", "dispatch", "final"}
    BY <1>1 DEF FloorTick, AdmitTick, Post, Feed, Snapshot, Inv, Types, PCs, Ticking
  <2>3. seen' \in [Watchdogs -> [running : Nat, ready : SUBSET Builds]]
    <3>1. CASE Snapshot(w)
      <4>1. Running \in SUBSET Builds /\ On("ready") \in SUBSET Builds
        BY DEF On, Running
      <4>2. Cardinality(Running) \in Nat BY <4>1, Counting
      <4> QED BY <3>1, <4>1, <4>2 DEF Snapshot, MoreTypes
    <3>2. CASE ~Snapshot(w)
      <4>1. Unseen \in [running : Nat, ready : SUBSET Builds] BY DEF Unseen
      <4>2. seen' = seen \/ seen' = [seen EXCEPT ![w] = Unseen]
        BY <1>1, <3>2 DEF FloorTick, AdmitTick, Post, Feed
      <4> QED BY <4>1, <4>2 DEF MoreTypes
    <3> QED BY <3>1, <3>2
  <2>4. board' \in [Builds -> Boards]
    <3>1. CASE ~Feed(w) BY <1>1, <3>1 DEF FloorTick, AdmitTick, Post, Snapshot, MoreTypes
    <3>2. CASE Feed(w) BY <3>2 DEF Feed, KanbanDispatch, MoreTypes, Boards
    <3> QED BY <3>1, <3>2
  <2>5. \A v \in Watchdogs : Claiming(v)' => Claiming(v)
    BY <2>2 DEF Claiming, Handling, Inv, Types
  <2> QED BY <2>1, <2>3, <2>4, <2>5 DEF MoreTypes
<1>2. ASSUME NEW w \in Watchdogs, Tick(w) PROVE Data'
  <2>1. PICK s \in Select : /\ picks' = [picks EXCEPT ![w] = s]
                            /\ pc' = [pc EXCEPT ![w] = IF s = <<>> THEN after[w] ELSE "queued"]
    BY <1>2 DEF Tick
  <2>2. UNCHANGED <<idea, board, seen>> BY <1>2 DEF Tick, graph
  <2>3. s \in Seq(Eligible) BY SelectionTypes
  <2>4. MoreTypes' BY <2>1, <2>2, <2>3 DEF MoreTypes
  <2>5. picks'[w] = s /\ \A v \in Watchdogs \ {w} : picks'[v] = picks[v] /\ pc'[v] = pc[v]
    BY <2>1 DEF MoreTypes, Inv, Types
  <2>6. pc'[w] = IF s = <<>> THEN after[w] ELSE "queued" BY <2>1 DEF Inv, Types
  <2>7. after[w] \in {"idle", "feed"} BY DEF Inv, Types
  <2> QED BY <2>4, <2>5, <2>6, <2>7 DEF Claiming, Handling
<1>3. ASSUME NEW w \in Watchdogs, EmitQueued(w) PROVE Data'
  <2>1. PICK b \in Builds : /\ idea' = [idea EXCEPT ![b] = Head(picks[w])]
                            /\ pc' = [pc EXCEPT ![w] = "task"]
    BY <1>3 DEF EmitQueued
  <2>2. pc[w] = "queued" /\ UNCHANGED <<board, seen, picks>> BY <1>3 DEF EmitQueued
  <2>3. picks[w] # <<>> /\ picks[w] \in Seq(Eligible) BY <2>2 DEF Claiming, MoreTypes
  <2>4. Head(picks[w]) \in Eligible BY <2>3
  <2>5. MoreTypes' BY <2>1, <2>2, <2>4 DEF MoreTypes
  <2>6. \A v \in Watchdogs : Claiming(v)' => Claiming(v)
    BY <2>1, <2>2 DEF Claiming, Handling, Inv, Types
  <2> QED BY <2>2, <2>5, <2>6
<1>4. ASSUME NEW w \in Watchdogs, EmitTask(w) \/ Dispatch(w) PROVE Data'
  <2>1. PICK l : pc' = [pc EXCEPT ![w] = l] BY <1>4 DEF EmitTask, Dispatch
  <2>2. pc[w] \in {"task", "dispatch"} /\ UNCHANGED <<idea, seen, picks>>
    BY <1>4 DEF EmitTask, Dispatch, graph
  <2>3. board' = board \/ board' = [board EXCEPT ![cur[w]] = "ready"]
    BY <1>4 DEF EmitTask, Dispatch, Route, Mail, Transport, Begin, WorkOrder, AgentBuild
  <2>4. MoreTypes' BY <2>2, <2>3 DEF MoreTypes, Boards
  <2>5. \A v \in Watchdogs : Claiming(v)' => Claiming(v)
    BY <2>1, <2>2 DEF Claiming, Handling, Inv, Types
  <2> QED BY <2>2, <2>4, <2>5
<1>5. ASSUME NEW w \in Watchdogs, EmitFinal(w) PROVE Data'
  <2>1. /\ pc[w] = "final" /\ picks' = [picks EXCEPT ![w] = Tail(picks[w])]
        /\ pc' = [pc EXCEPT ![w] = IF Tail(picks[w]) = <<>> THEN after[w] ELSE "queued"]
        /\ UNCHANGED <<idea, board, seen>>
    BY <1>5 DEF EmitFinal
  <2>2. picks[w] # <<>> /\ picks[w] \in Seq(Eligible) BY <2>1 DEF Claiming, Handling, MoreTypes
  <2>3. Tail(picks[w]) \in Seq(Eligible) BY <2>2
  <2>4. MoreTypes' BY <2>1, <2>3 DEF MoreTypes
  <2>5. picks'[w] = Tail(picks[w])
        /\ \A v \in Watchdogs \ {w} : picks'[v] = picks[v] /\ pc'[v] = pc[v]
    BY <2>1 DEF MoreTypes, Inv, Types
  <2>6. pc'[w] = IF Tail(picks[w]) = <<>> THEN after[w] ELSE "queued" BY <2>1 DEF Inv, Types
  <2>7. after[w] \in {"idle", "feed"} BY DEF Inv, Types
  <2> QED BY <2>4, <2>5, <2>6, <2>7 DEF Claiming, Handling
<1>6. ASSUME NEW w \in Watchdogs, OutOfBuilds(w) \/ TickFails(w) PROVE Data'
  <2>1. /\ picks' = [picks EXCEPT ![w] = <<>>] /\ pc' = [pc EXCEPT ![w] = after[w]]
        /\ UNCHANGED <<idea, board, seen>>
    BY <1>6 DEF OutOfBuilds, TickFails, graph
  <2>2. MoreTypes' BY <2>1 DEF MoreTypes
  <2>3. after[w] \in {"idle", "feed"} BY DEF Inv, Types
  <2>4. pc'[w] = after[w] /\ \A v \in Watchdogs \ {w} : picks'[v] = picks[v] /\ pc'[v] = pc[v]
    BY <2>1 DEF MoreTypes, Inv, Types
  <2> QED BY <2>2, <2>3, <2>4 DEF Claiming, Handling
<1>7. CASE Crash
  <2>1. MoreTypes' BY <1>7 DEF Crash, graph, MoreTypes
  <2>2. \A w \in Watchdogs : ~Claiming(w)'
    BY <1>7 DEF Crash, Claiming, Handling, Ticking, Inv, Types
  <2> QED BY <2>1, <2>2
<1>8. CASE (\E b \in Builds : Build(b)) \/ CronDispatch \/ UNCHANGED vars
  <2>1. UNCHANGED <<idea, pc, seen, picks>> BY <1>8 DEF Build, CronDispatch, vars, graph, cycle
  <2>2. board' \in [Builds -> Boards]
    BY <1>8 DEF Build, CronDispatch, KanbanDispatch, vars, MoreTypes, Boards
  <2> QED BY <2>1, <2>2 DEF MoreTypes, Claiming, Handling
<1> QED BY <1>1, <1>2, <1>3, <1>4, <1>5, <1>6, <1>7, <1>8 DEF Next, Step

LEMMA AloneInitial == Init => Alone
<1> SUFFICES ASSUME Init PROVE OneCycle BY DEF Alone
<1>1. Solo /\ Selected /\ SeenRunning /\ OneLiveBuildPerIdea
  BY DEF Init, Solo, Selected, SeenRunning, OneLiveBuildPerIdea, Claiming, Handling, Watching, Ticking
<1>2. With("running") = {} /\ On("running") = {} BY DEF Init, With, On
<1>3. Cardinality(With("running")) = 0 /\ Cardinality(On("running")) = 0
  <2>1. Cardinality({}) = 0 BY FS_EmptySet
  <2> QED BY <1>2, <2>1
<1>4. CapacityRespected BY <1>3, FactoryAssumption DEF CapacityRespected
<1> QED BY <1>1, <1>4 DEF OneCycle

LEMMA AloneStep ==
  ASSUME Inv, Data, Alone, [Next]_vars
  PROVE  Alone'
<1>1. MoreTypes BY DEF Data
<1>2. overlapped => overlapped'
  BY DEF Next, Step, Snapshot, FloorTick, AdmitTick, Post, Feed, Tick, EmitQueued, OutOfBuilds,
         EmitTask, Dispatch, EmitFinal, Build, CronDispatch, Crash, TickFails, vars
<1> SUFFICES ASSUME ~overlapped' PROVE OneCycle' BY DEF Alone
<1>3. ~overlapped /\ OneCycle BY <1>2 DEF Alone
<1> QED BY <1>1, <1>3, SnapshotStep, FeedStep, TickStep, QueuedOnceStep, DeliveryStep,
           FinalOnceStep, TurnStep, AroundStep DEF Next, Step

LEMMA AloneInductive == Spec => [](Inv /\ Data /\ Alone)
<1>1. Init => Inv /\ Data /\ Alone BY Initial, DataInitial, AloneInitial
<1>2. Inv /\ Data /\ Alone /\ [Next]_vars => (Inv /\ Data /\ Alone)'
  BY StepKeeps, DataStep, AloneStep
<1> QED BY <1>1, <1>2, PTL DEF Spec

\* While cycles do not overlap, an idea has at most one build that is queued or running,
\* although ticks throw and servers die between the two events of a build
\* (factory-controller.js emits queued and then running around the dispatch).
THEOREM IdeaBuiltOnce == Spec => []OneLiveBuildPerIdea
<1>1. Alone => OneLiveBuildPerIdea BY DEF Alone, OneCycle, OneLiveBuildPerIdea
<1> QED BY <1>1, AloneInductive, PTL

\* While cycles do not overlap, no more builds run than maxBuilding, although a tick counts
\* only once for all it selects, and no more tasks than MAX_BUILDERS, although the cycle
\* feeds from a snapshot that is older than its floor tick (idea-planner.js, watchdog.mjs).
THEOREM CapacityHolds == Spec => []CapacityRespected
<1>1. Alone => CapacityRespected BY DEF Alone, OneCycle, CapacityRespected
<1> QED BY <1>1, AloneInductive, PTL

=============================================================================
