--------------------------- MODULE FactoryAdmission ---------------------------
(***************************************************************************)
(* How ideas become builds.  The watchdog (cron, every minute) reads the   *)
(* board, starts builders and posts /v1/controller/tick; a tick of the     *)
(* FactoryController reads the graph, selects ideas under maxBuilding and, *)
(* for each, emits build.started (queued), emits task.created, whose bus   *)
(* handler dispatches the task through the RouterDispatcher, dispatches it *)
(* once more itself, and emits what the dispatcher answered.  A server     *)
(* started without FACTORY_DISPATCHER leaves product builds in the outbox, *)
(* where nobody builds them, and calls them accepted.  The graph outlives  *)
(* the server; the router's memory does not.  Every await is the end of a  *)
(* step.                                                                   *)
(***************************************************************************)
EXTENDS Naturals, Sequences, FiniteSets, SequencesExt

CONSTANTS
  Watchdogs,    \* cycles of the watchdog that may be in progress together
  Ranking,      \* the ideas that reach minBuildScore, best first (IdeaScoring)
  MaxBuilding,  \* FACTORY_MAX_BUILDING
  MaxBuilders,  \* MAX_BUILDERS of the watchdog
  Limit,        \* ideas per tick
  MaxBuilds,    \* bound: how many builds may be created
  Transports,   \* where product builds may go: FACTORY_DISPATCHER, "outbox" by default
  Suites,       \* the sets of ideas create-build-run.mjs may admit: scored, with a frozen suite
  Failures,     \* bound: how many commands may fail that might have succeeded
  Crashes       \* bound: how many times the server may die, or a tick of it may throw

Eligible == Range(Ranking)
Builds == 1 .. MaxBuilds
None == 0
Unseen == [running |-> 0, ready |-> {}]

ASSUME FactoryAssumption ==
  /\ MaxBuilding \in Nat /\ MaxBuilders \in Nat /\ Limit \in Nat \ {0}
  /\ Transports \subseteq {"outbox", "workorder", "agentbuild"} /\ Suites \subseteq SUBSET Eligible
  /\ MaxBuilds \in Nat /\ Failures \in Nat /\ Crashes \in Nat
  /\ Ranking \in Seq(Eligible)
  /\ \A i, j \in DOMAIN Ranking : Ranking[i] = Ranking[j] => i = j

VARIABLES
  idea,       \* graph: the idea of each build
  status,     \* graph: its status; "none" before the build exists
  transport,  \* the transport the server was started with
  suited,     \* the ideas create-build-run.mjs admits
  result,     \* RouterDispatcher.buildResults, of the build's only task
  started,    \* how many BuildRuns or agentbuild runs a build got
  mailed,     \* the builds whose task lies in the outbox
  board,      \* the work order of a build on the kanban board
  pc,         \* where each watchdog, or the tick it waits for, is
  after,      \* where the watchdog goes on when its tick has answered
  seen,       \* its board snapshot: running tasks and the ready unassigned ones
  picks,      \* the selected ideas its tick has not handled yet
  cur,        \* the build its tick is handling
  overlapped, \* history: two cycles have been in progress together
  failures, crashes

graph == <<idea, status>>
config == <<transport, suited>>
router == <<result, started, mailed>>
cycle == <<pc, after, seen, picks, cur>>
budget == <<failures, crashes>>
vars == <<graph, config, router, board, cycle, overlapped, budget>>

Statuses == {"none", "queued", "running", "rejected"}
Boards == {"none", "ready", "assigned", "running", "direct", "done", "judged"}
Ticking == {"select", "queued", "task", "dispatch", "final"}
PCs == {"idle", "floor", "feed", "admit"} \cup Ticking

Init ==
  /\ idea = [b \in Builds |-> None] /\ status = [b \in Builds |-> "none"]
  /\ transport \in Transports
  /\ suited \in IF transport = "workorder" THEN Suites ELSE {Eligible}
  /\ result = [b \in Builds |-> "none"] /\ started = [b \in Builds |-> 0]
  /\ mailed = {}
  /\ board = [b \in Builds |-> "none"]
  /\ pc = [w \in Watchdogs |-> "idle"] /\ after = [w \in Watchdogs |-> "idle"]
  /\ seen = [w \in Watchdogs |-> Unseen]
  /\ picks = [w \in Watchdogs |-> <<>>] /\ cur = [w \in Watchdogs |-> None]
  /\ overlapped = FALSE
  /\ failures = Failures /\ crashes = Crashes

On(s) == {b \in Builds : board[b] = s}
With(s) == {b \in Builds : status[b] = s}
Running == On("running") \cup On("direct")

\* Ids not taken yet.  Nothing refers to a rejected build that was never started: its id is
\* taken again, so that an idea may be refused for ever within MaxBuilds.
Free == {b \in Builds : status[b] = "none" \/ (status[b] = "rejected" /\ started[b] = 0)}
Goto(w, l) == pc' = [pc EXCEPT ![w] = l]
-----------------------------------------------------------------------------
(* The watchdog                                                            *)

Snapshot(w) ==
  /\ pc[w] = "idle"
  /\ seen' = [seen EXCEPT ![w] = [running |-> Cardinality(Running), ready |-> On("ready")]]
  /\ Goto(w, "floor")
  /\ overlapped' = (overlapped \/ \E v \in Watchdogs : pc[v] # "idle")
  /\ UNCHANGED <<graph, router, board, after, picks, cur, budget>>

\* Post a tick, or skip it; MaxBuilds bounds the model.
Post(w, wanted, then) ==
  /\ after' = [after EXCEPT ![w] = then]
  /\ Goto(w, IF wanted /\ Free # {} THEN "select" ELSE then)
  /\ UNCHANGED <<graph, router, board, seen, picks, cur, overlapped, budget>>

FloorTick(w) ==
  /\ pc[w] = "floor"
  /\ Post(w, seen[w].running = 0 /\ seen[w].ready = {}, "feed")

\* hermes kanban dispatch --max 1 starts one of the tasks that are ready and assigned.
KanbanDispatch(tasks, how) ==
  \E b \in Builds : tasks[b] = "assigned" /\ board' = [tasks EXCEPT ![b] = how]

\* Assign the first ready task of the snapshot to a builder if it is still ready, and dispatch;
\* either command may fail.
Feed(w) ==
  /\ pc[w] = "feed"
  /\ IF seen[w].ready # {} /\ seen[w].running < MaxBuilders
     THEN \E b \in seen[w].ready :
            LET assigned == [board EXCEPT ![b] = IF @ = "ready" THEN "assigned" ELSE @]
            IN  \/ KanbanDispatch(assigned, "running") /\ UNCHANGED failures
                \/ (\A c \in Builds : assigned[c] # "assigned") /\ UNCHANGED <<board, failures>>
                \/ /\ failures > 0 /\ failures' = failures - 1
                   /\ board' = board \/ board' = assigned
     ELSE UNCHANGED <<board, failures>>
  /\ seen' = [seen EXCEPT ![w] = Unseen] /\ Goto(w, "admit")
  /\ UNCHANGED <<graph, router, after, picks, cur, overlapped, crashes>>

\* A second tick of the cycle if fewer than two BuildRuns are RUNNING.
AdmitTick(w) ==
  /\ pc[w] = "admit"
  /\ Post(w, Cardinality({b \in Builds : board[b] \notin {"none", "judged"}}) < 2, "idle")
-----------------------------------------------------------------------------
(* FactoryController.tick                                                  *)

\* Mutant: a build that is only queued does not exclude its idea.
AlreadyRunning == {idea[b] : b \in With("running")}

Already == {idea[b] : b \in {c \in Builds : status[c] \notin {"none", "rejected"}}}

\* The n best of the ideas that have no build, best first, or all if there are fewer.
Rank == [i \in Eligible |-> CHOOSE k \in DOMAIN Ranking : Ranking[k] = i]
Best(n) ==
  LET fresh == Eligible \ Already
  IN  {s \in UNION {[1 .. m -> fresh] : m \in 0 .. n} :
         /\ \A k, l \in DOMAIN s : k < l => Rank[s[k]] < Rank[s[l]]
         /\ \A i \in fresh \ Range(s) : Len(s) = n /\ \A k \in DOMAIN s : Rank[s[k]] < Rank[i]}

\* Mutant: the builds that run are not counted.
SelectAnyway == Best(Limit)

\* IdeaPlanner.select: what fits.
Select ==
  LET active == Cardinality(With("running"))
      capacity == IF active < MaxBuilding THEN MaxBuilding - active ELSE 0
  IN  Best(IF Limit < capacity THEN Limit ELSE capacity)

Tick(w) ==
  /\ pc[w] = "select"
  /\ \E selected \in Select :
       /\ picks' = [picks EXCEPT ![w] = selected]
       /\ Goto(w, IF selected = <<>> THEN after[w] ELSE "queued")
  /\ UNCHANGED <<graph, router, board, after, seen, cur, overlapped, budget>>

\* Mutant: the build is recorded as running before the dispatcher has answered.
EmitRunning(w) ==
  /\ pc[w] = "queued"
  /\ \E b \in Builds :
       /\ b \in Free /\ \A c \in Free : b <= c
       /\ idea' = [idea EXCEPT ![b] = Head(picks[w])]
       /\ status' = [status EXCEPT ![b] = "running"]
       /\ result' = [result EXCEPT ![b] = "none"]
       /\ cur' = [cur EXCEPT ![w] = b]
       /\ Goto(w, "task")
  /\ UNCHANGED <<started, mailed, board, after, seen, picks, overlapped, budget>>

\* emit('build.started', queued) with a fresh id, the next one.
EmitQueued(w) ==
  /\ pc[w] = "queued"
  /\ \E b \in Builds :
       /\ b \in Free /\ \A c \in Free : b <= c
       /\ idea' = [idea EXCEPT ![b] = Head(picks[w])]
       /\ status' = [status EXCEPT ![b] = "queued"]
       /\ result' = [result EXCEPT ![b] = "none"]
       /\ cur' = [cur EXCEPT ![w] = b]
       /\ Goto(w, "task")
  /\ UNCHANGED <<started, mailed, board, after, seen, picks, overlapped, budget>>

\* The bound of the model: a tick that needs one more build than MaxBuilds ends instead.
OutOfBuilds(w) ==
  /\ pc[w] = "queued" /\ Free = {}
  /\ picks' = [picks EXCEPT ![w] = <<>>] /\ Goto(w, after[w])
  /\ UNCHANGED <<graph, router, board, after, seen, cur, overlapped, budget>>

\* create-build-run.mjs creates a BuildRun and leaves its work order on the board, unless the
\* idea is not scored or has no frozen suite.
WorkOrder(b) ==
  /\ idea[b] \in suited
  /\ started' = [started EXCEPT ![b] = @ + 1]
  /\ board' = [board EXCEPT ![b] = "ready"]

\* `agentbuild build` builds at once, and the board knows nothing of it.
AgentBuild(b) ==
  /\ started' = [started EXCEPT ![b] = @ + 1]
  /\ UNCHANGED board

Begin(b) ==
  \/ transport = "workorder" /\ WorkOrder(b)
  \/ transport = "agentbuild" /\ AgentBuild(b)

\* The transport takes the build, or denies its idea, or fails, which a timeout may report of a
\* build that has begun.  agentbuild is taken at its word if it prints anything, even that the build failed.
Transport(b) ==
  \/ Begin(b) /\ result' = [result EXCEPT ![b] = "accepted"] /\ UNCHANGED failures
  \/ /\ transport = "workorder" /\ idea[b] \notin suited
     /\ result' = [result EXCEPT ![b] = "refused"]
     /\ UNCHANGED <<started, board, failures>>
  \/ /\ failures > 0 /\ failures' = failures - 1
     /\ result' = [result EXCEPT ![b] = "refused"]
     /\ Begin(b) \/ UNCHANGED <<started, board>>

\* JsonlTaskOutbox.dispatch: every delivery is one more line.
Mail(b) == mailed' = mailed \cup {b} /\ UNCHANGED <<result, started, board, failures>>

\* RouterDispatcher.dispatch: without a transport for builds they go to the outbox, and with
\* one a task that has a result is not built again.
Route(b) ==
  \/ transport = "outbox" /\ Mail(b)
  \/ transport # "outbox" /\ result[b] # "none" /\ UNCHANGED <<router, board, failures>>
  \/ transport # "outbox" /\ result[b] = "none" /\ Transport(b) /\ UNCHANGED mailed

\* What dispatch answers: the outbox accepts everything.
Accepts(b) == transport = "outbox" \/ result[b] = "accepted"

\* emit('task.created'): the bus handler dispatches the task and the emit waits for it.
EmitTask(w) ==
  /\ pc[w] = "task"
  /\ Route(cur[w])
  /\ Goto(w, "dispatch")
  /\ UNCHANGED <<graph, after, seen, picks, cur, overlapped, crashes>>

\* Mutant: the second delivery goes to the transport.
DispatchAgain(w) ==
  /\ pc[w] = "dispatch"
  /\ Transport(cur[w])
  /\ Goto(w, "final")
  /\ UNCHANGED <<mailed, graph, after, seen, picks, cur, overlapped, crashes>>

Dispatch(w) ==
  /\ pc[w] = "dispatch"
  /\ Route(cur[w])
  /\ Goto(w, "final")
  /\ UNCHANGED <<graph, after, seen, picks, cur, overlapped, crashes>>

\* Mutant: a refused build stays queued.
EmitOnlyAccepted(w) ==
  /\ pc[w] = "final"
  /\ status' = [status EXCEPT ![cur[w]] = IF Accepts(cur[w]) THEN "running" ELSE @]
  /\ picks' = [picks EXCEPT ![w] = Tail(@)]
  /\ Goto(w, IF Tail(picks[w]) = <<>> THEN after[w] ELSE "queued")
  /\ cur' = [cur EXCEPT ![w] = None]
  /\ UNCHANGED <<idea, router, board, after, seen, overlapped, budget>>

EmitFinal(w) ==
  /\ pc[w] = "final"
  /\ status' = [status EXCEPT ![cur[w]] = IF Accepts(cur[w]) THEN "running" ELSE "rejected"]
  /\ picks' = [picks EXCEPT ![w] = Tail(@)]
  /\ Goto(w, IF Tail(picks[w]) = <<>> THEN after[w] ELSE "queued")
  /\ cur' = [cur EXCEPT ![w] = None]
  /\ UNCHANGED <<idea, router, board, after, seen, overlapped, budget>>
-----------------------------------------------------------------------------
(* The environment                                                         *)

\* The builder ends, and the supervisor judges its candidate.
Build(b) ==
  /\ board[b] \in {"running", "direct", "done"}
  /\ board' = [board EXCEPT ![b] = IF @ = "done" THEN "judged" ELSE "done"]
  /\ UNCHANGED <<graph, config, router, cycle, overlapped, budget>>

\* Cron has a dispatch of its own, which looks at no limit.
CronDispatch ==
  /\ KanbanDispatch(board, "direct")
  /\ UNCHANGED <<graph, config, router, cycle, overlapped, budget>>

\* The server dies and is started again: its ticks are gone, and their callers go on.
Crash ==
  /\ crashes > 0 /\ crashes' = crashes - 1
  /\ result' = [b \in Builds |-> "none"]
  /\ pc' = [w \in Watchdogs |-> IF pc[w] \in Ticking THEN after[w] ELSE pc[w]]
  /\ picks' = [w \in Watchdogs |-> <<>>] /\ cur' = [w \in Watchdogs |-> None]
  /\ UNCHANGED <<graph, config, started, mailed, board, after, seen, overlapped, failures>>

\* A query of the graph or an append fails: the tick throws where it is, and its caller goes on.
TickFails(w) ==
  /\ pc[w] \in Ticking /\ crashes > 0 /\ crashes' = crashes - 1
  /\ Goto(w, after[w])
  /\ picks' = [picks EXCEPT ![w] = <<>>] /\ cur' = [cur EXCEPT ![w] = None]
  /\ UNCHANGED <<graph, config, router, board, after, seen, overlapped, failures>>

Step(w) ==
  /\ UNCHANGED config
  /\ \/ Snapshot(w) \/ FloorTick(w) \/ Feed(w) \/ AdmitTick(w)
     \/ Tick(w) \/ EmitQueued(w) \/ OutOfBuilds(w) \/ EmitTask(w) \/ Dispatch(w) \/ EmitFinal(w)

Next ==
  (\E w \in Watchdogs : Step(w) \/ TickFails(w)) \/ (\E b \in Builds : Build(b)) \/ CronDispatch \/ Crash

Spec == Init /\ [][Next]_vars

\* Cron starts a cycle every minute, a server that runs ends its ticks (the dispatchers have
\* timeouts), and a builder that runs ends and is judged.
FairSpec ==
  Spec /\ (\A w \in Watchdogs : WF_vars(Step(w))) /\ (\A b \in Builds : WF_vars(Build(b)))
-----------------------------------------------------------------------------
(* Properties                                                              *)

TypeOK ==
  /\ idea \in [Builds -> Eligible \cup {None}] /\ status \in [Builds -> Statuses]
  /\ transport \in Transports /\ suited \subseteq Eligible /\ mailed \subseteq Builds
  /\ result \in [Builds -> {"none", "accepted", "refused"}] /\ started \in [Builds -> Nat]
  /\ board \in [Builds -> Boards]
  /\ pc \in [Watchdogs -> PCs] /\ after \in [Watchdogs -> {"idle", "feed"}]
  /\ seen \in [Watchdogs -> [running : Nat, ready : SUBSET Builds]]
  /\ picks \in [Watchdogs -> Seq(Eligible)] /\ cur \in [Watchdogs -> Builds \cup {None}]
  /\ overlapped \in BOOLEAN /\ failures \in 0 .. Failures /\ crashes \in 0 .. Crashes

\* The double delivery of a task, by the bus and by the tick, starts one builder, whatever
\* fails, overlaps or crashes (router-dispatcher.js: "collapses that double-delivery").
BuilderOncePerBuild == \A b \in Builds : started[b] <= 1

\* The graph says a build is running only if it was handed over: the transport has taken it, or
\* its task lies in the outbox (factory-controller.js: "status reflects reality only after the
\* dispatcher answers").  Of the outbox, the default, that is all there is to say: its consumer
\* skips product builds, so that "running" means waiting for ever.
HandedOver(b) == IF transport = "outbox" THEN b \in mailed ELSE started[b] > 0
RunningWasHandedOver == \A b \in With("running") : HandedOver(b)

\* One cycle at a time never builds an idea twice, though its builds are queued or their
\* ticks died on the way.
OneLiveBuildPerIdea ==
  ~overlapped =>
    \A b, c \in Builds :
      status[b] \in {"queued", "running"} /\ status[c] \in {"queued", "running"} /\ idea[b] = idea[c]
        => b = c

\* One cycle at a time exceeds neither maxBuilding, whatever the limit of a tick and however
\* often the server died, nor, with what it starts itself, MAX_BUILDERS, although it acts on the
\* board as it was before its floor tick.  Cron's dispatch may start what a failed one left.
CapacityRespected ==
  ~overlapped =>
    Cardinality(With("running")) <= MaxBuilding /\ Cardinality(On("running")) <= MaxBuilders

\* The ideas that are good enough are handed over in the end, as many as there is room for, and
\* no idea stays held by a build that nobody runs, although commands fail: a refused build
\* admits its idea again.  A denied idea is selected again by every tick, and those it outranks
\* may wait for ever: what is certain is the ideas before the first denied one.  (After a crash,
\* or a tick that threw, a build may stay queued.)
Ahead == {k \in DOMAIN Ranking : \A l \in 1 .. k : transport = "workorder" => Ranking[l] \in suited}
IdeasAreHandedOver ==
  \/ <>(overlapped \/ crashes < Crashes)
  \/ /\ \A b \in Builds : []<>(status[b] # "queued")
     /\ <>[](Cardinality({idea[b] : b \in {c \in Builds : HandedOver(c)}})
               >= (IF MaxBuilding < Cardinality(Ahead) THEN MaxBuilding ELSE Cardinality(Ahead)))

=============================================================================
