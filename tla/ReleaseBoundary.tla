--------------------------- MODULE ReleaseBoundary ---------------------------
(***************************************************************************)
(* The release boundary: create-build-run.mjs admits a BuildRun, an        *)
(* external builder commits on its branch, any number of supervisor.mjs    *)
(* processes (cron, the watchdog, an operator) verify the branch with      *)
(* verify-candidate.sh and merge it with promote-candidate.sh.  The        *)
(* processes share only files and the git repository, so every script is   *)
(* cut into one action per read or write of that shared state.             *)
(*                                                                         *)
(* A worker is one supervisor together with the script it is awaiting; the *)
(* script survives as an orphan when its supervisor is terminated.         *)
(***************************************************************************)
EXTENDS Naturals, Sequences, FiniteSets

CONSTANTS
  Workers,      \* supervisor processes that may overlap
  Runs, NoRun,  \* BuildRuns
  ImportRuns,   \* runs created with an upstream url (import mode)
  Ideas, IdeaOf,\* the idea of each run selects its acceptance suite
  Commits, Base,\* commits of a candidate branch; Base is run.base_commit
  Descendants,  \* the commits that descend from Base
  MaxSuite,     \* bound: suite contents are numbered 0..MaxSuite
  Reverts,      \* TRUE: an edit may restore an earlier suite content
  Outcomes,     \* bound: the results a test run may have
  Budget        \* bound: how often each kind of intervention may happen

Kinds == {"kill", "crash", "operator", "suite", "spec", "move"}
Suites == 0 .. MaxSuite
Results == {"PASS", "FAIL", "ERROR"}

ASSUME WorkerAssumption == IsFiniteSet(Workers)
ASSUME RunAssumption ==
  /\ NoRun \notin Runs
  /\ ImportRuns \subseteq Runs
  /\ IdeaOf \in [Runs -> Ideas]
ASSUME CommitAssumption ==
  /\ Base \in Descendants
  /\ Descendants \subseteq Commits
ASSUME BoundAssumption ==
  /\ MaxSuite \in Nat
  /\ Outcomes \subseteq Results
  /\ Reverts \in BOOLEAN
  /\ Budget \in [Kinds -> Nat]

VARIABLES
  stage,     \* progress of create-build-run and of the kanban task
  head,      \* git: the commit build/<run> points at
  worktree,  \* runs whose worktree exists
  specIntact,\* runs whose spec.md still has the digest in run.json
  suite,     \* content of acceptance/<idea>
  history,   \* run.json.status: the appended statuses
  receipt,   \* receipt.json
  tmpResult, \* /tmp/.v3_result, shared by every verifier
  lock,      \* runs whose .promote-lock directory exists
  merging,   \* the git merge holding the repository's index.lock
  main,      \* what was merged into main
  graph,     \* runs the event graph holds as completed
  pc, cur, loc, \* each worker: where it is, for which run, its shell variables
  todo,      \* runs a supervisor's pass has still to consider
  supervised,\* FALSE: the worker's script runs for an operator or as an orphan
  judged,    \* history variable: every receipt a verifier wrote
  stranded,  \* history variable: runs a script was ended for while it held the lock
             \* and had no trap to remove it
  budget     \* remaining interventions

world == <<stage, head, worktree, specIntact, suite>>
files == <<history, receipt, tmpResult, lock>>
git == <<merging, main>>
workers == <<pc, cur, loc, todo, supervised>>
past == <<judged, stranded>>
vars == <<world, files, git, graph, workers, past, budget>>

Stages == {"absent", "created", "imported", "recorded", "ready", "working", "done"}
Verdicts == {"VERIFIED", "REJECTED", "ERROR"}
Statuses == Verdicts \cup {"RUNNING", "PROMOTED", "PROMOTION_FAILED"}

VerifierPC == {"clone", "digest", "copy", "test", "write", "tmp", "cat", "rm", "assert"}
LockedPC == {"trap", "read", "head", "spec", "acc", "merge", "merging", "abort", "promoted", "clean"}
PromoterPC == {"enter", "lock"} \cup LockedPC
SupervisorPC == {"scan", "verdict", "emit"}
PCs == {"idle"} \cup SupervisorPC \cup VerifierPC \cup PromoterPC

Receipt == [result : Results \cup {"NONE"}, cand : Commits, acc : Suites, gates : BOOLEAN]
\* A receipt without candidate and gates: the file is missing, or fail_err wrote it.
Blank(result) == [result |-> result, cand |-> Base, acc |-> 0, gates |-> FALSE]

Judgement == [run : Runs, cand : Commits, acc : Suites, tested : Suites, result : Results]
Merge == [run : Runs, cand : Commits, acc : Suites, by : Workers]
Local == [cand : Commits, acc : Suites, tested : Suites, result : Results, verdict : Verdicts]
NoLocal == [cand |-> Base, acc |-> 0, tested |-> 0, result |-> "ERROR", verdict |-> "ERROR"]

Last(r) == IF history[r] = <<>> THEN "" ELSE history[r][Len(history[r])]
AppendStatus(r, status) == history' = [history EXCEPT ![r] = Append(@, status)]
Has(r, status) == \E i \in DOMAIN history[r] : history[r][i] = status
Spend(kind) == budget[kind] > 0 /\ budget' = [budget EXCEPT ![kind] = @ - 1]

Init ==
  /\ stage = [r \in Runs |-> "absent"]
  /\ head = [r \in Runs |-> Base]
  /\ worktree = {}
  /\ specIntact = Runs
  /\ suite = [i \in Ideas |-> 0]
  /\ history = [r \in Runs |-> <<>>]
  /\ receipt = [r \in Runs |-> Blank("NONE")]
  /\ tmpResult = "NONE"
  /\ lock = {}
  /\ merging = {}
  /\ main = {}
  /\ graph = {}
  /\ pc = [w \in Workers |-> "idle"]
  /\ cur = [w \in Workers |-> NoRun]
  /\ loc = [w \in Workers |-> NoLocal]
  /\ todo = [w \in Workers |-> {}]
  /\ supervised = [w \in Workers |-> FALSE]
  /\ judged = {}
  /\ stranded = {}
  /\ budget = Budget
-----------------------------------------------------------------------------
(* create-build-run.mjs, the kanban board and the builder                  *)

\* run.json, spec.md and its digest, then the worktree on branch build/<run>.
CreateWorktree(r) ==
  /\ stage[r] = "absent"
  /\ stage' = [stage EXCEPT ![r] = "created"]
  /\ worktree' = worktree \cup {r}
  /\ UNCHANGED <<head, specIntact, suite, files, git, graph, workers, past, budget>>

\* Import mode commits the upstream snapshot before any status is recorded.
ImportUpstream(r) ==
  /\ stage[r] = "created" /\ r \in ImportRuns
  /\ stage' = [stage EXCEPT ![r] = "imported"]
  /\ \E c \in Descendants \ {Base} : head' = [head EXCEPT ![r] = c]
  /\ UNCHANGED <<worktree, specIntact, suite, files, git, graph, workers, past, budget>>

RecordRunning(r) ==
  /\ stage[r] = IF r \in ImportRuns THEN "imported" ELSE "created"
  /\ stage' = [stage EXCEPT ![r] = "recorded"]
  /\ AppendStatus(r, "RUNNING")
  /\ UNCHANGED <<head, worktree, specIntact, suite, receipt, tmpResult, lock, git, graph,
                 workers, past, budget>>

\* The kanban task is created, claimed by a builder and completed by it.
MoveTask(r, from, to) ==
  /\ stage[r] = from
  /\ stage' = [stage EXCEPT ![r] = to]
  /\ UNCHANGED <<head, worktree, specIntact, suite, files, git, graph, workers, past, budget>>

QueueTask(r) == MoveTask(r, "recorded", "ready")
StartBuilder(r) == MoveTask(r, "ready", "working")
CompleteTask(r) == MoveTask(r, "working", "done")

\* The builder commits, amends or resets its branch, even after completing.
MoveBranch(r) ==
  /\ stage[r] \in {"working", "done"} /\ r \in worktree
  /\ Spend("move")
  /\ \E c \in Commits \ {head[r]} : head' = [head EXCEPT ![r] = c]
  /\ UNCHANGED <<stage, worktree, specIntact, suite, files, git, graph, workers, past>>

\* A review edits the "frozen" acceptance suite, or spec.md is edited.
EditSuite(i) ==
  /\ Spend("suite")
  /\ \E v \in Suites \ {suite[i]} :
       /\ Reverts \/ v > suite[i]
       /\ suite' = [suite EXCEPT ![i] = v]
  /\ UNCHANGED <<stage, head, worktree, specIntact, files, git, graph, workers, past>>

EditSpec(r) ==
  /\ Spend("spec")
  /\ specIntact' = specIntact \ {r}
  /\ UNCHANGED <<stage, head, worktree, suite, files, git, graph, workers, past>>

Environment(r) ==
  \/ CreateWorktree(r) \/ ImportUpstream(r) \/ RecordRunning(r)
  \/ QueueTask(r) \/ StartBuilder(r) \/ CompleteTask(r)
  \/ MoveBranch(r) \/ EditSuite(IdeaOf[r]) \/ EditSpec(r)
-----------------------------------------------------------------------------
(* supervisor.mjs, lane A                                                  *)

Goto(w, l) == pc' = [pc EXCEPT ![w] = l]

\* The worker is done with its run.
Leave(w, l) == Goto(w, l) /\ cur' = [cur EXCEPT ![w] = NoRun]

\* The board is listed once, and every run it shows as running is skipped in this pass.
StartPass(w) ==
  /\ pc[w] = "idle"
  /\ \E r \in Runs : stage[r] # "absent"
  /\ Goto(w, "scan")
  /\ todo' = [todo EXCEPT ![w] = {r \in Runs : stage[r] \notin {"absent", "working"}}]
  /\ supervised' = [supervised EXCEPT ![w] = TRUE]
  /\ UNCHANGED <<world, files, git, graph, cur, loc, past, budget>>

\* Mutant: a run whose verification failed to run is taken up again.
EligibleAgain(r) == Last(r) \in {"", "RUNNING", "ERROR"} /\ head[r] # Base

\* An empty status file counts as RUNNING.
Eligible(r) == Last(r) \in {"", "RUNNING"} /\ head[r] # Base

Consider(w, r) ==
  /\ pc[w] = "scan" /\ r \in todo[w]
  /\ todo' = [todo EXCEPT ![w] = @ \ {r}]
  /\ \/ Eligible(r) /\ Goto(w, "clone") /\ cur' = [cur EXCEPT ![w] = r]
     \/ ~Eligible(r) /\ UNCHANGED <<pc, cur>>
  /\ UNCHANGED <<world, files, git, graph, loc, supervised, past, budget>>

EndPass(w) ==
  /\ pc[w] = "scan" /\ todo[w] = {}
  /\ Goto(w, "idle")
  /\ supervised' = [supervised EXCEPT ![w] = FALSE]
  /\ UNCHANGED <<world, files, git, graph, cur, loc, todo, past, budget>>

\* Mutant: an ERROR verdict is logged and never recorded.
RecordVerdictButError(w) ==
  /\ pc[w] = "verdict"
  /\ IF loc[w].verdict = "ERROR" THEN UNCHANGED history ELSE AppendStatus(cur[w], loc[w].verdict)
  /\ loc' = [loc EXCEPT ![w] = NoLocal]
  /\ IF loc[w].verdict = "VERIFIED" THEN Goto(w, "enter") /\ UNCHANGED cur ELSE Leave(w, "scan")
  /\ UNCHANGED <<world, receipt, tmpResult, lock, git, graph, todo, supervised, past, budget>>

\* Append the verdict; only VERIFIED goes on to promote-candidate.sh.
RecordVerdict(w) ==
  /\ pc[w] = "verdict"
  /\ AppendStatus(cur[w], loc[w].verdict)
  /\ loc' = [loc EXCEPT ![w] = NoLocal]
  /\ IF loc[w].verdict = "VERIFIED" THEN Goto(w, "enter") /\ UNCHANGED cur ELSE Leave(w, "scan")
  /\ UNCHANGED <<world, receipt, tmpResult, lock, git, graph, todo, supervised,
                 past, budget>>

\* contracts/index.js refuses an event whose source.system it does not list.
Systems == {"finalbuilds2", "builda-v2", "agentseolab", "unbundled"}
EventSource == "foundry-supervisor"

EmitCompleted(w) ==
  /\ pc[w] = "emit"
  /\ graph' = IF EventSource \in Systems THEN graph \cup {cur[w]} ELSE graph
  /\ Leave(w, "scan")
  /\ UNCHANGED <<world, files, git, loc, todo, supervised, past, budget>>
-----------------------------------------------------------------------------
(* verify-candidate.sh                                                     *)

supervision == <<todo, supervised, budget>>

SetLocal(w, l) == loc' = [loc EXCEPT ![w] = l]

\* Mutant: the receipt's vocabulary is recorded instead of the run's.
VerdictAsResult(code) == IF code = 0 THEN "PASS" ELSE IF code = 1 THEN "FAIL" ELSE "ERROR"

\* The exit code becomes the verdict; an orphan's or an operator's exit code is lost.
VerdictOf(code) == IF code = 0 THEN "VERIFIED" ELSE IF code = 1 THEN "REJECTED" ELSE "ERROR"

VerifierExit(w, code) ==
  IF supervised[w]
  THEN Goto(w, "verdict") /\ UNCHANGED cur
       /\ SetLocal(w, [NoLocal EXCEPT !.verdict = VerdictOf(code)])
  ELSE Leave(w, "idle") /\ SetLocal(w, NoLocal)

\* fail_err writes an ERROR receipt and exits 3; a shell whose supervisor is gone may be
\* killed by its own echo before it writes.
FailErr(w) ==
  /\ \/ receipt' = [receipt EXCEPT ![cur[w]] = Blank("ERROR")]
     \/ ~supervised[w] /\ UNCHANGED receipt
  /\ VerifierExit(w, 3)

Clone(w) ==
  /\ pc[w] = "clone"
  /\ \/ /\ SetLocal(w, [loc[w] EXCEPT !.cand = head[cur[w]]])
        /\ Goto(w, "digest")
        /\ UNCHANGED <<cur, receipt>>
     \/ FailErr(w)
  /\ UNCHANGED <<world, history, tmpResult, lock, git, graph, past, supervision>>

DigestSuite(w) ==
  /\ pc[w] = "digest"
  /\ SetLocal(w, [loc[w] EXCEPT !.acc = suite[IdeaOf[cur[w]]]])
  /\ Goto(w, "copy")
  /\ UNCHANGED <<world, files, git, graph, past, cur, supervision>>

CopySuite(w) ==
  /\ pc[w] = "copy"
  /\ SetLocal(w, [loc[w] EXCEPT !.tested = suite[IdeaOf[cur[w]]]])
  /\ Goto(w, "test")
  /\ UNCHANGED <<world, files, git, graph, past, cur, supervision>>

\* A failed gate is FAIL, a gate without evidence is ERROR, otherwise PASS.
RunTests(w) ==
  /\ pc[w] = "test"
  /\ \E result \in Outcomes : SetLocal(w, [loc[w] EXCEPT !.result = result])
  /\ Goto(w, "write")
  /\ UNCHANGED <<world, files, git, graph, past, cur, supervision>>

WriteReceipt(w) ==
  /\ pc[w] = "write"
  /\ receipt' = [receipt EXCEPT ![cur[w]] =
                   [result |-> loc[w].result, cand |-> loc[w].cand, acc |-> loc[w].acc, gates |-> TRUE]]
  /\ judged' = judged \cup {[run |-> cur[w], cand |-> loc[w].cand, acc |-> loc[w].acc,
                             tested |-> loc[w].tested, result |-> loc[w].result]}
  /\ Goto(w, "tmp")
  /\ UNCHANGED <<world, history, tmpResult, lock, git, graph, loc, cur, stranded, supervision>>

WriteTmp(w) ==
  /\ pc[w] = "tmp"
  /\ tmpResult' = loc[w].result
  /\ Goto(w, "cat")
  /\ SetLocal(w, NoLocal)
  /\ UNCHANGED <<world, history, receipt, lock, git, graph, past, cur, supervision>>

\* RESULT=$(cat /tmp/.v3_result || echo ERROR)
ReadTmp(w) ==
  /\ pc[w] = "cat"
  /\ SetLocal(w, [loc[w] EXCEPT !.result = IF tmpResult = "NONE" THEN "ERROR" ELSE tmpResult])
  /\ Goto(w, "rm")
  /\ UNCHANGED <<world, files, git, graph, past, cur, supervision>>

RemoveTmp(w) ==
  /\ pc[w] = "rm"
  /\ tmpResult' = "NONE"
  /\ Goto(w, "assert")
  /\ UNCHANGED <<world, history, receipt, lock, git, graph, loc, past, cur, supervision>>

\* Mutant: RESULT alone decides, the receipt on disk is not asserted.
TrustTmp(w) ==
  /\ pc[w] = "assert"
  /\ VerifierExit(w, IF loc[w].result = "PASS" THEN 0 ELSE 1)
  /\ UNCHANGED <<world, files, git, graph, past, supervision>>

\* The receipt on disk must agree with RESULT; exit 0 only for PASS, 1 for FAIL and ERROR.
AssertReceipt(w) ==
  /\ pc[w] = "assert"
  /\ \/ /\ receipt[cur[w]].result = loc[w].result
        /\ receipt[cur[w]].gates
        /\ VerifierExit(w, IF loc[w].result = "PASS" THEN 0 ELSE 1)
        /\ UNCHANGED receipt
     \/ /\ \/ receipt[cur[w]].result # loc[w].result
           \/ ~receipt[cur[w]].gates
        /\ FailErr(w)
  /\ UNCHANGED <<world, history, tmpResult, lock, git, graph, past, supervision>>

Verifier(w) ==
  \/ Clone(w) \/ DigestSuite(w) \/ CopySuite(w) \/ RunTests(w) \/ WriteReceipt(w)
  \/ WriteTmp(w) \/ ReadTmp(w) \/ RemoveTmp(w) \/ AssertReceipt(w)
-----------------------------------------------------------------------------
(* promote-candidate.sh                                                    *)

\* Exit 0 lets the supervisor emit the event; any other exit is only logged.
PromoterExit(w, next) ==
  /\ SetLocal(w, NoLocal)
  /\ IF supervised[w] /\ next = "emit" THEN Goto(w, next) /\ UNCHANGED cur
     ELSE Leave(w, IF supervised[w] THEN next ELSE "idle")

\* refuse() and err3() record nothing; after the mkdir the EXIT trap removes the lock.
Refuse(w) == PromoterExit(w, "scan") /\ lock' = lock \ {cur[w]}
\* Mutant: the trap is installed before the mkdir.
RefuseAndUnlock(w) == Refuse(w)
RefuseUnlocked(w) == PromoterExit(w, "scan") /\ UNCHANGED lock

\* Continue if the check holds, refuse otherwise; the receipt copy in loc is kept.
Check(w, holds, next) ==
  \/ holds /\ Goto(w, next) /\ UNCHANGED <<cur, loc, lock>>
  \/ ~holds /\ Refuse(w)

EnterPromotion(w) ==
  /\ pc[w] = "enter"
  /\ \/ /\ receipt[cur[w]].result # "NONE" /\ Last(cur[w]) # "PROMOTED"
        /\ Goto(w, "lock") /\ UNCHANGED <<cur, loc, lock>>
     \/ /\ receipt[cur[w]].result = "NONE" \/ Last(cur[w]) = "PROMOTED"
        /\ RefuseUnlocked(w)
  /\ UNCHANGED <<world, history, receipt, tmpResult, git, graph, past, supervision>>

\* mkdir of the lock directory: whoever finds it there refuses.
TakeLock(w) ==
  /\ pc[w] = "lock"
  /\ \/ cur[w] \notin lock /\ lock' = lock \cup {cur[w]} /\ Goto(w, "trap") /\ UNCHANGED <<cur, loc>>
     \/ cur[w] \in lock /\ RefuseUnlocked(w)
  /\ UNCHANGED <<world, history, receipt, tmpResult, git, graph, past, supervision>>

\* Only from here on does the end of the script remove the lock.
SetTrap(w) ==
  /\ pc[w] = "trap"
  /\ Goto(w, "read")
  /\ UNCHANGED <<world, files, git, graph, loc, past, cur, supervision>>

\* Mutant: any complete receipt will do.
ReadAnyReceipt(w) ==
  /\ pc[w] = "read"
  /\ \/ /\ receipt[cur[w]].gates
        /\ SetLocal(w, [loc[w] EXCEPT !.cand = receipt[cur[w]].cand, !.acc = receipt[cur[w]].acc])
        /\ Goto(w, "head") /\ UNCHANGED <<cur, lock>>
     \/ ~receipt[cur[w]].gates /\ Refuse(w)
  /\ UNCHANGED <<world, history, receipt, tmpResult, git, graph, past, supervision>>

ReadReceipt(w) ==
  /\ pc[w] = "read"
  /\ \/ /\ receipt[cur[w]].result = "PASS" /\ receipt[cur[w]].gates
        /\ SetLocal(w, [loc[w] EXCEPT !.cand = receipt[cur[w]].cand, !.acc = receipt[cur[w]].acc])
        /\ Goto(w, "head") /\ UNCHANGED <<cur, lock>>
     \/ ~(receipt[cur[w]].result = "PASS" /\ receipt[cur[w]].gates) /\ Refuse(w)
  /\ UNCHANGED <<world, history, receipt, tmpResult, git, graph, past, supervision>>

\* The branch still points at the candidate, which descends from the base commit.
CheckHead(w) ==
  /\ pc[w] = "head"
  /\ Check(w, head[cur[w]] = loc[w].cand /\ loc[w].cand \in Descendants, "spec")
  /\ UNCHANGED <<world, history, receipt, tmpResult, git, graph, past, supervision>>

CheckSpec(w) ==
  /\ pc[w] = "spec"
  /\ Check(w, cur[w] \in specIntact, "acc")
  /\ UNCHANGED <<world, history, receipt, tmpResult, git, graph, past, supervision>>

\* Mutant: the digest in the receipt is trusted, not recomputed.
TrustSuite(w) ==
  /\ pc[w] = "acc"
  /\ Check(w, TRUE, "merge")
  /\ UNCHANGED <<world, history, receipt, tmpResult, git, graph, past, supervision>>

CheckSuite(w) ==
  /\ pc[w] = "acc"
  /\ Check(w, suite[IdeaOf[cur[w]]] = loc[w].acc, "merge")
  /\ UNCHANGED <<world, history, receipt, tmpResult, git, graph, past, supervision>>

\* Mutant: the branch is merged, not the verified commit.
MergeBranch(w) ==
  /\ pc[w] = "merge"
  /\ \/ /\ merging = {}
        /\ merging' = {[run |-> cur[w], cand |-> head[cur[w]], acc |-> loc[w].acc, by |-> w]}
        /\ Goto(w, "merging")
     \/ merging # {} /\ Goto(w, "abort") /\ UNCHANGED merging
  /\ UNCHANGED <<world, files, main, graph, loc, past, cur, supervision>>

\* git merge of the exact commit; another merge in the repository holds index.lock.
StartMerge(w) ==
  /\ pc[w] = "merge"
  /\ \/ /\ merging = {}
        /\ merging' = {[run |-> cur[w], cand |-> loc[w].cand, acc |-> loc[w].acc, by |-> w]}
        /\ Goto(w, "merging")
     \/ merging # {} /\ Goto(w, "abort") /\ UNCHANGED merging
  /\ UNCHANGED <<world, files, main, graph, loc, past, cur, supervision>>

\* git finishes, with a merge commit or a conflict, whether or not its shell still waits.
FinishMerge ==
  \E m \in merging :
    /\ merging' = {}
    /\ \E done \in BOOLEAN :
         /\ main' = IF done THEN main \cup {m} ELSE main
         /\ IF pc[m.by] = "merging"
            THEN Goto(m.by, IF done THEN "promoted" ELSE "abort")
            ELSE UNCHANGED pc
    /\ UNCHANGED <<world, files, graph, cur, loc, todo, supervised, past, budget>>

\* Mutant: a failed merge is recorded like a successful one.
RecordRegardless(w) ==
  /\ pc[w] = "abort"
  /\ AppendStatus(cur[w], "PROMOTED")
  /\ Refuse(w)
  /\ UNCHANGED <<world, receipt, tmpResult, git, graph, past, supervision>>

AbortMerge(w) ==
  /\ pc[w] = "abort"
  /\ AppendStatus(cur[w], "PROMOTION_FAILED")
  /\ Refuse(w)
  /\ UNCHANGED <<world, receipt, tmpResult, git, graph, past, supervision>>

RecordPromoted(w) ==
  /\ pc[w] = "promoted"
  /\ AppendStatus(cur[w], "PROMOTED")
  /\ Goto(w, "clean")
  /\ UNCHANGED <<world, receipt, tmpResult, lock, git, graph, loc, past, cur, supervision>>

\* git worktree remove, then the EXIT trap.
CleanUp(w) ==
  /\ pc[w] = "clean"
  /\ worktree' = worktree \ {cur[w]}
  /\ lock' = lock \ {cur[w]}
  /\ PromoterExit(w, "emit")
  /\ UNCHANGED <<stage, head, specIntact, suite, history, receipt, tmpResult, git, graph,
                 past, supervision>>

Promoter(w) ==
  \/ EnterPromotion(w) \/ TakeLock(w) \/ SetTrap(w) \/ ReadReceipt(w) \/ CheckHead(w) \/ CheckSpec(w)
  \/ CheckSuite(w) \/ StartMerge(w) \/ AbortMerge(w) \/ RecordPromoted(w) \/ CleanUp(w)
-----------------------------------------------------------------------------
(* Timeouts, terminations and the operator                                 *)

\* execFile's timeout terminates the shell with a null exit code: `e.code ?? 1`.
VerifyTimeout(w) ==
  /\ pc[w] \in VerifierPC /\ supervised[w]
  /\ Spend("kill")
  /\ VerifierExit(w, 1)
  /\ UNCHANGED <<world, files, git, graph, todo, supervised, past>>

\* The states from which the EXIT trap removes the lock directory.
TrapPC == LockedPC \ {"trap"}
Strand(w, pcs) == stranded' = IF pc[w] \in pcs THEN stranded \cup {cur[w]} ELSE stranded

\* Mutant: the trap does not run when a signal ends the script.
TimeoutWithoutTrap(w) ==
  /\ pc[w] \in PromoterPC /\ supervised[w]
  /\ Spend("kill")
  /\ Leave(w, "scan") /\ SetLocal(w, NoLocal)
  /\ Strand(w, {"trap"})
  /\ UNCHANGED <<world, files, git, graph, todo, supervised, judged>>

\* SIGTERM: the EXIT trap removes the lock, if it is set; a git merge under way continues.
PromoteTimeout(w) ==
  /\ pc[w] \in PromoterPC /\ supervised[w]
  /\ Spend("kill")
  /\ Leave(w, "scan") /\ SetLocal(w, NoLocal)
  /\ lock' = IF pc[w] \in TrapPC THEN lock \ {cur[w]} ELSE lock
  /\ Strand(w, {"trap"})
  /\ UNCHANGED <<world, history, receipt, tmpResult, git, graph, todo, supervised, judged>>

\* The watchdog's timeout terminates the supervisor; the script it awaits runs on.
SupervisorDies(w) ==
  /\ supervised[w]
  /\ Spend("kill")
  /\ supervised' = [supervised EXCEPT ![w] = FALSE]
  /\ todo' = [todo EXCEPT ![w] = {}]
  /\ IF pc[w] \in SupervisorPC THEN Leave(w, "idle") /\ SetLocal(w, NoLocal)
                               ELSE UNCHANGED <<pc, cur, loc>>
  /\ UNCHANGED <<world, files, git, graph, past>>

\* SIGKILL of the supervisor and its script: no trap runs, .promote-lock stays.
Crash(w) ==
  /\ pc[w] # "idle"
  /\ Spend("crash")
  /\ Leave(w, "idle") /\ SetLocal(w, NoLocal)
  /\ supervised' = [supervised EXCEPT ![w] = FALSE]
  /\ todo' = [todo EXCEPT ![w] = {}]
  /\ Strand(w, LockedPC)
  /\ UNCHANGED <<world, files, git, graph, judged>>

\* The documented manual override runs one script on a run create-build-run has announced.
Operate(w, r, first) ==
  /\ pc[w] = "idle" /\ stage[r] \in {"ready", "working", "done"}
  /\ Spend("operator")
  /\ Goto(w, first)
  /\ cur' = [cur EXCEPT ![w] = r]
  /\ UNCHANGED <<world, files, git, graph, loc, todo, supervised, past>>

Interrupt(w) == VerifyTimeout(w) \/ PromoteTimeout(w) \/ SupervisorDies(w) \/ Crash(w)
-----------------------------------------------------------------------------
Step(w) ==
  \/ StartPass(w) \/ (\E r \in Runs : Consider(w, r)) \/ EndPass(w)
  \/ RecordVerdict(w) \/ EmitCompleted(w) \/ Verifier(w) \/ Promoter(w)

Next ==
  \/ \E r \in Runs : Environment(r)
  \/ \E w \in Workers :
       \/ Step(w)
       \/ Interrupt(w)
       \/ \E r \in Runs, first \in {"clone", "enter"} : Operate(w, r, first)
  \/ FinishMerge

Spec == Init /\ [][Next]_vars

\* cron starts a supervisor every 15 minutes; a script or a git process that is not
\* interrupted takes its next step.  Builders, editors and operators owe nothing.
FairSpec == Spec /\ WF_vars(FinishMerge) /\ \A w \in Workers : WF_vars(Step(w))
-----------------------------------------------------------------------------
(* Properties                                                              *)

TypeOK ==
  /\ stage \in [Runs -> Stages]
  /\ head \in [Runs -> Commits]
  /\ worktree \subseteq Runs /\ specIntact \subseteq Runs
  /\ suite \in [Ideas -> Suites]
  /\ history \in [Runs -> Seq(Statuses)]
  /\ receipt \in [Runs -> Receipt]
  /\ tmpResult \in Results \cup {"NONE"}
  /\ lock \subseteq Runs
  /\ merging \subseteq Merge /\ main \subseteq Merge
  /\ graph \subseteq Runs
  /\ pc \in [Workers -> PCs]
  /\ cur \in [Workers -> Runs \cup {NoRun}]
  /\ \A w \in Workers : cur[w] = NoRun <=> pc[w] \in {"idle", "scan"}
  /\ loc \in [Workers -> Local]
  /\ todo \in [Workers -> SUBSET Runs]
  /\ supervised \in [Workers -> BOOLEAN]
  /\ judged \subseteq Judgement /\ stranded \subseteq Runs
  /\ budget \in [Kinds -> Nat]

\* A verifier found PASS for commit c of run r.
Passed(r, c) == \E j \in judged : j.run = r /\ j.cand = c /\ j.result = "PASS"

\* Whatever races the scripts run into, main only ever receives the exact commit a
\* verifier judged PASS for that very run, descending from the run's base
\* (promote-candidate.sh: "Promotion merges the EXACT verified commit SHA").
PromotedWasVerified ==
  \A m \in main : Passed(m.run, m.cand) /\ m.cand \in Descendants

\* Some judgement in J is a PASS for commit c of run r on suite a under the digest of a.
Tested(J, r, c, a) ==
  \E j \in J : j.run = r /\ j.cand = c /\ j.acc = a /\ j.tested = a /\ j.result = "PASS"

\* The commit merged under an acceptance digest passed the suite with that digest, although
\* the verifier digests the suite before it copies the files it runs.  Needs ~Reverts.
PromotedPassedItsSuite == \A m \in main : Tested(judged, m.run, m.cand, m.acc)

\* At most one live promotion script of a run is between its mkdir and its exit, and it
\* owns the lock directory (promote-candidate.sh: "single-flight lock per run").
SingleFlight ==
  \A w \in Workers : pc[w] \in LockedPC =>
    /\ cur[w] \in lock
    /\ \A v \in Workers \ {w} : pc[v] \in LockedPC => cur[v] # cur[w]

\* A lock directory without a live promotion script, because of which every later promotion
\* of the run is refused, is left behind only by SIGKILL and by a signal between the mkdir
\* and the trap; every other end of the script removes it, also when others are refused
\* meanwhile.
LockHasOwner ==
  \A r \in lock :
    r \in stranded \/ \E w \in Workers : pc[w] \in LockedPC /\ cur[w] = r

\* /tmp/.v3_result is shared by the verifiers of all runs, and still no VERIFIED is recorded
\* for a run no verifier found PASS for.
VerifiedHasEvidence ==
  \A r \in Runs : Has(r, "VERIFIED") => \E c \in Commits : Passed(r, c)

\* A PROMOTED record stands for a merge that is in main, whatever timed out meanwhile.
PromotedIsMerged ==
  \A r \in Runs : Has(r, "PROMOTED") => \E m \in main : m.run = r

VerdictsOf(r) == {i \in DOMAIN history[r] : history[r][i] \in Verdicts}

\* A supervisor reads the status long before it appends its verdict, so those that overlap
\* may each judge a run, even after another one has promoted it; but the first verdict keeps
\* every later pass away (supervisor.mjs: "Idempotent: runs already VERIFIED/REJECTED/PROMOTED
\* are skipped"): a run gets at most as many verdicts as there are supervisors, and exactly
\* one verdict if they do not overlap.  An imported run starts anew once, when
\* create-build-run.mjs records its RUNNING behind the verdict of a quick supervisor.
JudgedOncePerSupervisor ==
  \A r \in Runs \ ImportRuns : Cardinality(VerdictsOf(r)) <= Cardinality(Workers)

\* A finished run with commits gets a verdict, though supervisors overlap and die.
FinishedRunsSettle ==
  \A r \in Runs :
    stage[r] = "done" /\ head[r] # Base ~> Last(r) # "RUNNING" \/ head[r] = Base

\* Some judgement in J is a PASS for commit c of run r under acceptance digest a.
Judged(J, r, c, a) ==
  \E j \in J : j.run = r /\ j.cand = c /\ j.acc = a /\ j.result = "PASS"

\* Why PromotedWasVerified holds: from the receipt on disk, through the copy the promotion
\* script keeps, to the git merge, a PASS always carries its own commit and digest.
Evidence ==
  /\ \A r \in Runs : receipt[r].result = "PASS" /\ receipt[r].gates =>
       Judged(judged, r, receipt[r].cand, receipt[r].acc)
  /\ \A w \in Workers : pc[w] \in {"head", "spec", "acc", "merge"} =>
       Judged(judged, cur[w], loc[w].cand, loc[w].acc)
  /\ \A w \in Workers : pc[w] \in {"spec", "acc", "merge"} => loc[w].cand \in Descendants
  /\ \A m \in merging \cup main : Judged(judged, m.run, m.cand, m.acc) /\ m.cand \in Descendants

\* Why PromotedPassedItsSuite holds: suite contents only grow, so a digest that is older
\* than the files tested and newer than the suite at the time of the merge is all three.
SuiteEvidence ==
  /\ \A j \in judged : j.acc <= j.tested /\ j.tested <= suite[IdeaOf[j.run]]
  /\ \A w \in Workers : pc[w] = "copy" => loc[w].acc <= suite[IdeaOf[cur[w]]]
  /\ \A w \in Workers : pc[w] \in {"test", "write"} =>
       loc[w].acc <= loc[w].tested /\ loc[w].tested <= suite[IdeaOf[cur[w]]]
  /\ \A w \in Workers : pc[w] = "merge" => Tested(judged, cur[w], loc[w].cand, loc[w].acc)
  /\ \A m \in merging \cup main : Tested(judged, m.run, m.cand, m.acc)

\* Why PromotedIsMerged holds: a script waits only for the one merge that it started, and
\* goes on to record PROMOTED only after that merge is in main.
MergeAwaited ==
  /\ \A m, n \in merging : m = n
  /\ \A w \in Workers : pc[w] = "merging" => \E m \in merging : m.by = w /\ m.run = cur[w]
  /\ \A w \in Workers : pc[w] = "promoted" => \E m \in main : m.run = cur[w]

\* The release boundary implements ReleaseGate: what the scripts do to main is, for a reader
\* of main and of the verdicts, a pass followed by the promotion of the commit that passed.
Gate == INSTANCE ReleaseGate WITH
  passed <- {<<j.run, j.cand>> : j \in {k \in judged : k.result = "PASS"}},
  promoted <- {<<m.run, m.cand>> : m \in main}

ImplementsGate == Gate!Spec
=============================================================================
