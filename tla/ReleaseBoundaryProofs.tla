------------------------- MODULE ReleaseBoundaryProofs -------------------------
(***************************************************************************)
(* Theorems about ReleaseBoundary for any runs, workers, commits, suites   *)
(* and interventions.  Its types, and the effect of every action.  What    *)
(* reaches main: only verified commits, tested with the acceptance suite   *)
(* they were merged under; the release boundary implements ReleaseGate.    *)
(* The lock and the status record: one promotion script per run, a lock    *)
(* directory outlives its script only where no trap ran, PROMOTED stands   *)
(* for what is merged, and a run is judged once per supervisor.            *)
(***************************************************************************)
EXTENDS ReleaseBoundary, FiniteSetTheorems, TLAPS

USE DEF Goto, Leave, SetLocal, Spend, AppendStatus, supervision, world, files, git, workers, past

-----------------------------------------------------------------------------
(* Type correctness, one lemma per group of actions                        *)

LEMMA Constants ==
  /\ 0 \in Suites
  /\ NoLocal \in Local
  /\ \A result \in Results \cup {"NONE"} : Blank(result) \in Receipt
  /\ \A code \in Nat : VerdictOf(code) \in Verdicts
BY CommitAssumption, BoundAssumption
   DEF Suites, NoLocal, Local, Blank, Receipt, Results, Verdicts, VerdictOf

LEMMA TypeInit == Init => TypeOK
BY Constants, CommitAssumption, BoundAssumption, RunAssumption
   DEF Init, TypeOK, Stages, PCs, Results

LEMMA TypeEnvironment ==
  ASSUME TypeOK, NEW r \in Runs, Environment(r)
  PROVE  TypeOK'
<1> USE DEF TypeOK
<1>1. CASE CreateWorktree(r) BY <1>1 DEF CreateWorktree, Stages
<1>2. CASE ImportUpstream(r) BY <1>2, CommitAssumption DEF ImportUpstream, Stages
<1>3. CASE RecordRunning(r) BY <1>3 DEF RecordRunning, Stages, Statuses
<1>4. CASE QueueTask(r) BY <1>4 DEF QueueTask, MoveTask, Stages
<1>5. CASE StartBuilder(r) BY <1>5 DEF StartBuilder, MoveTask, Stages
<1>6. CASE CompleteTask(r) BY <1>6 DEF CompleteTask, MoveTask, Stages
<1>7. CASE MoveBranch(r) BY <1>7 DEF MoveBranch, Kinds
<1>8. CASE EditSuite(IdeaOf[r]) BY <1>8, RunAssumption DEF EditSuite, Kinds
<1>9. CASE EditSpec(r) BY <1>9 DEF EditSpec, Kinds
<1> QED BY <1>1, <1>2, <1>3, <1>4, <1>5, <1>6, <1>7, <1>8, <1>9 DEF Environment

\* A worker is at work exactly while it has a run.
Placed ==
  /\ pc \in [Workers -> PCs]
  /\ cur \in [Workers -> Runs \cup {NoRun}]
  /\ \A w \in Workers : cur[w] = NoRun <=> pc[w] \in {"idle", "scan"}

LEMMA StayPlaced ==
  ASSUME TypeOK, NEW w \in Workers, NEW l \in PCs \ {"idle", "scan"},
         cur[w] \in Runs, Goto(w, l), UNCHANGED cur
  PROVE  Placed'
BY RunAssumption DEF TypeOK, Placed

LEMMA LeavePlaced ==
  ASSUME TypeOK, NEW w \in Workers, NEW l \in {"idle", "scan"}, Leave(w, l)
  PROVE  Placed'
BY RunAssumption DEF TypeOK, Placed, PCs, SupervisorPC

LEMMA TypeSupervisor ==
  ASSUME TypeOK, NEW w \in Workers,
         StartPass(w) \/ (\E r \in Runs : Consider(w, r)) \/ EndPass(w)
           \/ RecordVerdict(w) \/ EmitCompleted(w)
  PROVE  TypeOK'
<1> USE Constants, RunAssumption DEF TypeOK, PCs, SupervisorPC, VerifierPC, PromoterPC
<1>1. CASE StartPass(w) BY <1>1 DEF StartPass
<1>2. ASSUME NEW r \in Runs, Consider(w, r) PROVE TypeOK'
  BY <1>2 DEF Consider
<1>3. CASE EndPass(w) BY <1>3 DEF EndPass
<1>4. CASE RecordVerdict(w)
  <2>1. cur[w] \in Runs /\ loc[w].verdict \in Statuses
    BY <1>4 DEF RecordVerdict, Local, Statuses
  <2>2. history' \in [Runs -> Seq(Statuses)]
    BY <1>4, <2>1 DEF RecordVerdict
  <2>3. /\ pc' \in [Workers -> PCs] /\ cur' \in [Workers -> Runs \cup {NoRun}]
        /\ \A v \in Workers : cur'[v] = NoRun <=> pc'[v] \in {"idle", "scan"}
    <3>1. CASE loc[w].verdict = "VERIFIED" BY <1>4, <2>1, <3>1 DEF RecordVerdict
    <3>2. CASE loc[w].verdict # "VERIFIED" BY <1>4, <2>1, <3>2 DEF RecordVerdict
    <3> QED BY <3>1, <3>2
  <2> QED BY <1>4, <2>2, <2>3 DEF RecordVerdict
<1>5. CASE EmitCompleted(w)
  <2>0. cur[w] \in Runs BY <1>5 DEF EmitCompleted
  <2>1. graph' \subseteq Runs
    <3>1. graph' = graph \/ graph' = graph \cup {cur[w]} BY <1>5 DEF EmitCompleted
    <3> QED BY <2>0, <3>1
  <2>2. Placed' BY <1>5, LeavePlaced DEF EmitCompleted
  <2> QED BY <1>5, <2>1, <2>2 DEF EmitCompleted, Placed
<1> QED BY <1>1, <1>2, <1>3, <1>4, <1>5

LEMMA VerifierExitTypes ==
  ASSUME TypeOK, NEW w \in Workers, NEW code \in {0, 1, 3}, cur[w] \in Runs, VerifierExit(w, code)
  PROVE  Placed' /\ loc' \in [Workers -> Local]
<1>1. [NoLocal EXCEPT !.verdict = VerdictOf(code)] \in Local
  BY Constants DEF Local
<1>2. CASE supervised[w]
  <2>1. "verdict" \in PCs \ {"idle", "scan"} BY DEF PCs, SupervisorPC
  <2>2. Goto(w, "verdict") /\ UNCHANGED cur BY <1>2 DEF VerifierExit
  <2>3. Placed' BY <2>1, <2>2, StayPlaced
  <2>4. loc' \in [Workers -> Local] BY <1>1, <1>2 DEF VerifierExit, TypeOK
  <2> QED BY <2>3, <2>4
<1>3. CASE ~supervised[w]
  <2>1. Leave(w, "idle") BY <1>3 DEF VerifierExit
  <2>2. Placed' BY <2>1, LeavePlaced
  <2>3. loc' \in [Workers -> Local] BY Constants, <1>3 DEF VerifierExit, TypeOK
  <2> QED BY <2>2, <2>3
<1> QED BY <1>2, <1>3

LEMMA FailErrTypes ==
  ASSUME TypeOK, NEW w \in Workers, cur[w] \in Runs, FailErr(w)
  PROVE  Placed' /\ loc' \in [Workers -> Local] /\ receipt' \in [Runs -> Receipt]
<1>1. VerifierExit(w, 3) BY DEF FailErr
<1>2. Placed' /\ loc' \in [Workers -> Local] BY <1>1, VerifierExitTypes
<1>3. Blank("ERROR") \in Receipt BY Constants DEF Results
<1>4. CASE receipt' = [receipt EXCEPT ![cur[w]] = Blank("ERROR")] BY <1>2, <1>3, <1>4 DEF TypeOK
<1>5. CASE UNCHANGED receipt BY <1>2, <1>5 DEF TypeOK
<1> QED BY <1>4, <1>5 DEF FailErr

LEMMA PromoterExitTypes ==
  ASSUME TypeOK, NEW w \in Workers, NEW next \in {"scan", "emit"}, cur[w] \in Runs,
         PromoterExit(w, next)
  PROVE  Placed' /\ loc' \in [Workers -> Local]
<1>1. loc' \in [Workers -> Local] BY Constants DEF PromoterExit, TypeOK
<1>2. CASE supervised[w] /\ next = "emit"
  <2>1. "emit" \in PCs \ {"idle", "scan"} BY DEF PCs, SupervisorPC
  <2>2. Goto(w, "emit") /\ UNCHANGED cur BY <1>2 DEF PromoterExit
  <2> QED BY <1>1, <2>1, <2>2, StayPlaced
<1>3. CASE ~(supervised[w] /\ next = "emit")
  <2>1. PICK l \in {"idle", "scan"} : Leave(w, l) BY <1>3 DEF PromoterExit
  <2> QED BY <1>1, <2>1, LeavePlaced
<1> QED BY <1>2, <1>3

LEMMA TypeVerifier ==
  ASSUME TypeOK, NEW w \in Workers, Verifier(w)
  PROVE  TypeOK'
<1>0. cur[w] \in Runs
  BY DEF TypeOK, Verifier, Clone, DigestSuite, CopySuite, RunTests, WriteReceipt, WriteTmp,
         ReadTmp, RemoveTmp, AssertReceipt
<1> USE DEF TypeOK, PCs, VerifierPC
<1>1. CASE Clone(w)
  <2>1. CASE FailErr(w) BY <1>0, <1>1, <2>1, FailErrTypes DEF Clone, Placed
  <2>2. CASE /\ SetLocal(w, [loc[w] EXCEPT !.cand = head[cur[w]]])
             /\ Goto(w, "digest")
             /\ UNCHANGED <<cur, receipt>>
    BY <1>0, <1>1, <2>2, RunAssumption DEF Clone, Local
  <2> QED BY <1>1, <2>1, <2>2 DEF Clone
<1>2. CASE DigestSuite(w) BY <1>0, <1>2, RunAssumption DEF DigestSuite, Local
<1>3. CASE CopySuite(w) BY <1>0, <1>3, RunAssumption DEF CopySuite, Local
<1>4. CASE RunTests(w)
  <2>1. PICK result \in Outcomes : SetLocal(w, [loc[w] EXCEPT !.result = result])
    BY <1>4 DEF RunTests
  <2>2. result \in Results BY BoundAssumption
  <2>3. loc' \in [Workers -> Local] BY <2>1, <2>2 DEF Local
  <2> QED BY <1>0, <1>4, <2>3, RunAssumption DEF RunTests
<1>5. CASE WriteReceipt(w)
  BY <1>0, <1>5, RunAssumption DEF WriteReceipt, Local, Receipt, Judgement
<1>6. CASE WriteTmp(w) BY <1>0, <1>6, Constants, RunAssumption DEF WriteTmp, Local
<1>7. CASE ReadTmp(w)
  <2>1. PICK result \in Results : SetLocal(w, [loc[w] EXCEPT !.result = result])
    <3>1. (IF tmpResult = "NONE" THEN "ERROR" ELSE tmpResult) \in Results BY DEF Results
    <3> QED BY <1>7, <3>1 DEF ReadTmp
  <2>2. loc' \in [Workers -> Local] BY <2>1 DEF Local
  <2> QED BY <1>0, <1>7, <2>2, RunAssumption DEF ReadTmp
<1>8. CASE RemoveTmp(w) BY <1>0, <1>8, RunAssumption DEF RemoveTmp
<1>9. CASE AssertReceipt(w)
  <2>1. CASE FailErr(w) BY <1>0, <1>9, <2>1, FailErrTypes DEF AssertReceipt, Placed
  <2>2. ASSUME NEW code \in {0, 1}, VerifierExit(w, code), UNCHANGED receipt PROVE TypeOK'
    BY <1>0, <1>9, <2>2, VerifierExitTypes DEF AssertReceipt, Placed
  <2> QED BY <1>9, <2>1, <2>2 DEF AssertReceipt
<1> QED BY <1>1, <1>2, <1>3, <1>4, <1>5, <1>6, <1>7, <1>8, <1>9 DEF Verifier

LEMMA CheckTypes ==
  ASSUME TypeOK, NEW w \in Workers, NEW holds \in BOOLEAN, NEW next \in {"spec", "acc", "merge"},
         cur[w] \in Runs, Check(w, holds, next)
  PROVE  Placed' /\ loc' \in [Workers -> Local] /\ lock' \subseteq Runs
<1>1. CASE Refuse(w)
  <2>1. PromoterExit(w, "scan") BY <1>1 DEF Refuse
  <2>2. Placed' /\ loc' \in [Workers -> Local] BY <2>1, PromoterExitTypes
  <2> QED BY <1>1, <2>2 DEF Refuse, TypeOK
<1>2. CASE Goto(w, next) /\ UNCHANGED <<cur, loc, lock>>
  <2>1. next \in PCs \ {"idle", "scan"} BY DEF PCs, PromoterPC, LockedPC
  <2>2. Placed' BY <1>2, <2>1, StayPlaced
  <2> QED BY <1>2, <2>2 DEF TypeOK
<1> QED BY <1>1, <1>2 DEF Check

LEMMA TypePromoter ==
  ASSUME TypeOK, NEW w \in Workers, Promoter(w)
  PROVE  TypeOK'
<1>0. cur[w] \in Runs
  BY DEF TypeOK, Promoter, EnterPromotion, TakeLock, SetTrap, ReadReceipt, CheckHead, CheckSpec,
         CheckSuite, StartMerge, AbortMerge, RecordPromoted, CleanUp
<1>a. ASSUME PromoterExit(w, "scan") PROVE Placed' /\ loc' \in [Workers -> Local]
  BY <1>0, <1>a, PromoterExitTypes
<1>b. ASSUME NEW l \in PromoterPC, Goto(w, l), UNCHANGED cur PROVE Placed'
  <2>1. l \in PCs \ {"idle", "scan"} BY DEF PCs, PromoterPC, LockedPC
  <2> QED BY <1>0, <1>b, <2>1, StayPlaced
<1> USE DEF PromoterPC, LockedPC
<1>1. CASE EnterPromotion(w)
  <2>1. CASE RefuseUnlocked(w) BY <1>1, <1>a, <2>1 DEF EnterPromotion, RefuseUnlocked, Placed, TypeOK
  <2>2. CASE Goto(w, "lock") /\ UNCHANGED <<cur, loc, lock>>
    BY <1>1, <1>b, <2>2 DEF EnterPromotion, Placed, TypeOK
  <2> QED BY <1>1, <2>1, <2>2 DEF EnterPromotion
<1>2. CASE TakeLock(w)
  <2>1. CASE RefuseUnlocked(w) BY <1>2, <1>a, <2>1 DEF TakeLock, RefuseUnlocked, Placed, TypeOK
  <2>2. CASE lock' = lock \cup {cur[w]} /\ Goto(w, "trap") /\ UNCHANGED <<cur, loc>>
    BY <1>0, <1>2, <1>b, <2>2 DEF TakeLock, Placed, TypeOK
  <2> QED BY <1>2, <2>1, <2>2 DEF TakeLock
<1>c. CASE SetTrap(w) BY <1>b, <1>c DEF SetTrap, Placed, TypeOK
<1>3. CASE ReadReceipt(w)
  <2>1. CASE Refuse(w) BY <1>3, <1>a, <2>1 DEF ReadReceipt, Refuse, Placed, TypeOK
  <2>2. CASE /\ SetLocal(w, [loc[w] EXCEPT !.cand = receipt[cur[w]].cand,
                                           !.acc = receipt[cur[w]].acc])
             /\ Goto(w, "head") /\ UNCHANGED <<cur, lock>>
    <3>1. Placed' BY <1>b, <2>2
    <3>2. loc' \in [Workers -> Local] BY <1>0, <2>2 DEF TypeOK, Local, Receipt
    <3> QED BY <1>3, <2>2, <3>1, <3>2 DEF ReadReceipt, Placed, TypeOK
  <2> QED BY <1>3, <2>1, <2>2 DEF ReadReceipt
<1>4. CASE CheckHead(w) \/ CheckSpec(w) \/ CheckSuite(w)
  <2>1. PICK holds \in BOOLEAN, next \in {"spec", "acc", "merge"} : Check(w, holds, next)
    <3>1. CASE CheckHead(w)
      <4>1. (head[cur[w]] = loc[w].cand /\ loc[w].cand \in Descendants) \in BOOLEAN OBVIOUS
      <4> QED BY <3>1, <4>1 DEF CheckHead
    <3>2. CASE CheckSpec(w)
      <4>1. (cur[w] \in specIntact) \in BOOLEAN OBVIOUS
      <4> QED BY <3>2, <4>1 DEF CheckSpec
    <3>3. CASE CheckSuite(w)
      <4>1. (suite[IdeaOf[cur[w]]] = loc[w].acc) \in BOOLEAN OBVIOUS
      <4> QED BY <3>3, <4>1 DEF CheckSuite
    <3> QED BY <1>4, <3>1, <3>2, <3>3
  <2>2. Placed' /\ loc' \in [Workers -> Local] /\ lock' \subseteq Runs
    BY <1>0, <2>1, CheckTypes
  <2> QED BY <1>4, <2>2 DEF CheckHead, CheckSpec, CheckSuite, Placed, TypeOK
<1>5. CASE StartMerge(w)
  <2>1. PICK l \in {"merging", "abort"} : Goto(w, l) /\ UNCHANGED cur BY <1>5 DEF StartMerge
  <2>2. Placed' BY <1>b, <2>1
  <2>3. merging' \subseteq Merge
    <3>1. [run |-> cur[w], cand |-> loc[w].cand, acc |-> loc[w].acc, by |-> w] \in Merge
      BY <1>0 DEF TypeOK, Merge, Local
    <3> QED BY <1>5, <3>1 DEF StartMerge, TypeOK
  <2> QED BY <1>5, <2>2, <2>3 DEF StartMerge, Placed, TypeOK
<1>6. CASE AbortMerge(w)
  <2>1. history' \in [Runs -> Seq(Statuses)] BY <1>0, <1>6 DEF AbortMerge, TypeOK, Statuses
  <2>2. Placed' /\ loc' \in [Workers -> Local] BY <1>6, <1>a DEF AbortMerge, Refuse
  <2> QED BY <1>6, <2>1, <2>2 DEF AbortMerge, Refuse, Placed, TypeOK
<1>7. CASE RecordPromoted(w)
  <2>1. history' \in [Runs -> Seq(Statuses)] BY <1>0, <1>7 DEF RecordPromoted, TypeOK, Statuses
  <2>2. Placed' BY <1>7, <1>b DEF RecordPromoted
  <2> QED BY <1>7, <2>1, <2>2 DEF RecordPromoted, Placed, TypeOK
<1>8. CASE CleanUp(w)
  <2>1. PromoterExit(w, "emit") BY <1>8 DEF CleanUp
  <2>2. Placed' /\ loc' \in [Workers -> Local] BY <1>0, <2>1, PromoterExitTypes
  <2> QED BY <1>8, <2>2 DEF CleanUp, Placed, TypeOK
<1> QED BY <1>1, <1>2, <1>c, <1>3, <1>4, <1>5, <1>6, <1>7, <1>8 DEF Promoter

LEMMA TypeInterrupt ==
  ASSUME TypeOK, NEW w \in Workers, Interrupt(w)
  PROVE  TypeOK'
<1> USE DEF Kinds
<1>1. CASE VerifyTimeout(w)
  <2>1. cur[w] \in Runs /\ VerifierExit(w, 1) BY <1>1 DEF VerifyTimeout, VerifierPC, TypeOK
  <2>2. Placed' /\ loc' \in [Workers -> Local] BY <2>1, VerifierExitTypes
  <2> QED BY <1>1, <2>2 DEF VerifyTimeout, Placed, TypeOK
<1>2. CASE PromoteTimeout(w)
  <2>1. Placed' BY <1>2, LeavePlaced DEF PromoteTimeout
  <2>2. cur[w] \in Runs BY <1>2 DEF PromoteTimeout, PromoterPC, LockedPC, TypeOK
  <2> QED BY <1>2, <2>1, <2>2, Constants DEF PromoteTimeout, Strand, Placed, TypeOK
<1>3. CASE SupervisorDies(w)
  <2>1. Placed' /\ loc' \in [Workers -> Local]
    <3>1. CASE pc[w] \in SupervisorPC
      <4>1. Leave(w, "idle") /\ SetLocal(w, NoLocal) BY <1>3, <3>1 DEF SupervisorDies
      <4> QED BY <4>1, LeavePlaced, Constants DEF TypeOK
    <3>2. CASE pc[w] \notin SupervisorPC
      BY <1>3, <3>2 DEF SupervisorDies, Placed, TypeOK
    <3> QED BY <3>1, <3>2
  <2>2. /\ todo' \in [Workers -> SUBSET Runs] /\ supervised' \in [Workers -> BOOLEAN]
        /\ budget' \in [Kinds -> Nat]
        /\ UNCHANGED <<world, files, git, graph, past>>
    BY <1>3 DEF SupervisorDies, TypeOK
  <2> QED BY <2>1, <2>2 DEF Placed, TypeOK
<1>4. CASE Crash(w)
  <2>1. Placed' BY <1>4, LeavePlaced DEF Crash
  <2>2. stranded' \subseteq Runs BY <1>4 DEF Crash, Strand, LockedPC, TypeOK
  <2> QED BY <1>4, <2>1, <2>2, Constants DEF Crash, Placed, TypeOK
<1> QED BY <1>1, <1>2, <1>3, <1>4 DEF Interrupt

LEMMA TypeOperate ==
  ASSUME TypeOK, NEW w \in Workers, NEW r \in Runs, NEW first \in {"clone", "enter"},
         Operate(w, r, first)
  PROVE  TypeOK'
BY RunAssumption DEF Operate, TypeOK, PCs, VerifierPC, PromoterPC, Kinds

LEMMA TypeFinish ==
  ASSUME TypeOK, FinishMerge
  PROVE  TypeOK'
<1>1. PICK m \in merging : /\ merging' = {}
                           /\ main' \in {main, main \cup {m}}
                           /\ \/ pc[m.by] = "merging" /\ \E l \in {"promoted", "abort"} : Goto(m.by, l)
                              \/ UNCHANGED pc
                           /\ UNCHANGED <<world, files, graph, cur, loc, todo, supervised, past, budget>>
  BY DEF FinishMerge
<1>2. m.by \in Workers /\ m \in Merge BY <1>1 DEF Merge, TypeOK
<1>3. Placed'
  <2>1. CASE UNCHANGED pc BY <1>1, <2>1 DEF Placed, TypeOK
  <2>2. ASSUME NEW l \in {"promoted", "abort"}, pc[m.by] = "merging", Goto(m.by, l) PROVE Placed'
    <3>1. cur[m.by] \in Runs BY <1>2, <2>2 DEF TypeOK
    <3>2. l \in PCs \ {"idle", "scan"} BY DEF PCs, PromoterPC, LockedPC
    <3> QED BY <1>1, <1>2, <2>2, <3>1, <3>2, StayPlaced
  <2> QED BY <1>1, <2>1, <2>2
<1> QED BY <1>1, <1>2, <1>3 DEF Placed, TypeOK

\* The state of the scripts and files stays within its types, for any constants.
THEOREM TypeCorrect == Spec => []TypeOK
<1>1. TypeOK /\ [Next]_vars => TypeOK'
  <2> SUFFICES ASSUME TypeOK, [Next]_vars PROVE TypeOK' OBVIOUS
  <2>1. CASE Next
    BY <2>1, TypeEnvironment, TypeSupervisor, TypeVerifier, TypePromoter, TypeInterrupt,
       TypeOperate, TypeFinish DEF Next, Step
  <2>2. CASE UNCHANGED vars BY <2>2 DEF vars, TypeOK
  <2> QED BY <2>1, <2>2
<1> QED BY <1>1, TypeInit, PTL DEF Spec
-----------------------------------------------------------------------------
(* Control: what a step of one worker leaves alone, and which action leads to each place *)

WorkerStep(w) ==
  \/ Step(w)
  \/ Interrupt(w)
  \/ \E r \in Runs, first \in {"clone", "enter"} : Operate(w, r, first)

\* Only worker w moves; a worker that does not move keeps its variables.
OnlyMoves(w) ==
  \A v \in Workers : v # w \/ pc'[w] = pc[w] =>
    pc'[v] = pc[v] /\ cur'[v] = cur[v] /\ loc'[v] = loc[v]

\* The action that brings worker w to the places the invariants speak of.
Reached(w) ==
  \/ pc'[w] = pc[w]
  \/ /\ pc'[w] = "copy" => DigestSuite(w)
     /\ pc'[w] = "test" => CopySuite(w)
     /\ pc'[w] = "write" => RunTests(w)
     /\ pc'[w] = "read" => SetTrap(w)
     /\ pc'[w] = "head" => ReadReceipt(w)
     /\ pc'[w] = "spec" => CheckHead(w)
     /\ pc'[w] = "acc" => CheckSpec(w)
     /\ pc'[w] = "merge" => CheckSuite(w)
     /\ pc'[w] \in {"merging", "abort"} => StartMerge(w)
     /\ pc'[w] # "promoted"
     /\ pc'[w] = "clean" => RecordPromoted(w)

LEMMA WorkerMoves ==
  ASSUME TypeOK, NEW w \in Workers, WorkerStep(w)
  PROVE  OnlyMoves(w) /\ Reached(w)
<1> USE DEF TypeOK, OnlyMoves, Reached
<1>1. CASE StartPass(w) BY <1>1 DEF StartPass
<1>2. ASSUME NEW r \in Runs, Consider(w, r) PROVE OnlyMoves(w) /\ Reached(w)
  BY <1>2 DEF Consider
<1>3. CASE EndPass(w) BY <1>3 DEF EndPass
<1>4. CASE RecordVerdict(w) BY <1>4 DEF RecordVerdict
<1>5. CASE EmitCompleted(w) BY <1>5 DEF EmitCompleted
<1>6. ASSUME NEW code, VerifierExit(w, code), pc[w] \in VerifierPC PROVE OnlyMoves(w) /\ Reached(w)
  BY <1>6 DEF VerifierExit, VerifierPC
<1>7. CASE Verifier(w)
  <2>1. CASE Clone(w)
    <3>1. CASE Goto(w, "digest") /\ UNCHANGED cur /\ SetLocal(w, [loc[w] EXCEPT !.cand = head[cur[w]]])
      BY <2>1, <3>1 DEF Clone
    <3>2. CASE FailErr(w) BY <1>6, <2>1, <3>2 DEF Clone, FailErr, VerifierPC
    <3> QED BY <2>1, <3>1, <3>2 DEF Clone
  <2>2. CASE DigestSuite(w) BY <2>2 DEF DigestSuite
  <2>3. CASE CopySuite(w) BY <2>3 DEF CopySuite
  <2>4. CASE RunTests(w)
    <3>1. PICK result \in Outcomes : SetLocal(w, [loc[w] EXCEPT !.result = result])
      BY <2>4 DEF RunTests
    <3>2. Goto(w, "write") /\ UNCHANGED cur /\ pc[w] = "test" BY <2>4 DEF RunTests
    <3>3. pc'[w] = "write" BY <3>2
    <3> QED BY <2>4, <3>1, <3>2, <3>3
  <2>5. CASE WriteReceipt(w) BY <2>5 DEF WriteReceipt
  <2>6. CASE WriteTmp(w) BY <2>6 DEF WriteTmp
  <2>7. CASE ReadTmp(w) BY <2>7 DEF ReadTmp
  <2>8. CASE RemoveTmp(w) BY <2>8 DEF RemoveTmp
  <2>9. CASE AssertReceipt(w)
    BY <1>6, <2>9 DEF AssertReceipt, FailErr, VerifierPC
  <2> QED BY <1>7, <2>1, <2>2, <2>3, <2>4, <2>5, <2>6, <2>7, <2>8, <2>9 DEF Verifier
<1>8. ASSUME NEW next \in {"scan", "emit"}, PromoterExit(w, next), pc[w] \in PromoterPC
      PROVE  OnlyMoves(w) /\ Reached(w)
  <2>1. PICK l \in {"idle", "scan", "emit"} : Goto(w, l) BY <1>8 DEF PromoterExit
  <2>2. pc'[w] = l /\ pc'[w] # pc[w] BY <1>8, <2>1 DEF PromoterPC, LockedPC
  <2>3. \A v \in Workers \ {w} : cur'[v] = cur[v] /\ loc'[v] = loc[v] BY <1>8 DEF PromoterExit
  <2> QED BY <2>1, <2>2, <2>3
<1>9. CASE Promoter(w)
  <2> USE DEF PromoterPC, LockedPC
  <2>1. CASE EnterPromotion(w) BY <1>8, <2>1 DEF EnterPromotion, RefuseUnlocked
  <2>2. CASE TakeLock(w) BY <1>8, <2>2 DEF TakeLock, RefuseUnlocked
  <2>a. CASE SetTrap(w) BY <2>a DEF SetTrap
  <2>3. CASE ReadReceipt(w) BY <1>8, <2>3 DEF ReadReceipt, Refuse
  <2>4. CASE CheckHead(w) BY <1>8, <2>4 DEF CheckHead, Check, Refuse
  <2>5. CASE CheckSpec(w) BY <1>8, <2>5 DEF CheckSpec, Check, Refuse
  <2>6. CASE CheckSuite(w) BY <1>8, <2>6 DEF CheckSuite, Check, Refuse
  <2>7. CASE StartMerge(w) BY <2>7 DEF StartMerge
  <2>8. CASE AbortMerge(w) BY <1>8, <2>8 DEF AbortMerge, Refuse
  <2>9. CASE RecordPromoted(w) BY <2>9 DEF RecordPromoted
  <2>10. CASE CleanUp(w) BY <1>8, <2>10 DEF CleanUp
  <2> QED BY <1>9, <2>1, <2>2, <2>a, <2>3, <2>4, <2>5, <2>6, <2>7, <2>8, <2>9, <2>10 DEF Promoter
<1>10. CASE Interrupt(w)
  <2>1. CASE VerifyTimeout(w) BY <1>6, <2>1 DEF VerifyTimeout
  <2>2. CASE PromoteTimeout(w) BY <2>2 DEF PromoteTimeout, PromoterPC, LockedPC
  <2>3. CASE SupervisorDies(w)
    <3>1. CASE pc[w] \in SupervisorPC BY <2>3, <3>1 DEF SupervisorDies, SupervisorPC
    <3>2. CASE pc[w] \notin SupervisorPC BY <2>3, <3>2 DEF SupervisorDies
    <3> QED BY <3>1, <3>2
  <2>4. CASE Crash(w) BY <2>4 DEF Crash
  <2> QED BY <1>10, <2>1, <2>2, <2>3, <2>4 DEF Interrupt
<1>11. ASSUME NEW r \in Runs, NEW first \in {"clone", "enter"}, Operate(w, r, first)
       PROVE  OnlyMoves(w) /\ Reached(w)
  BY <1>11 DEF Operate
<1> QED BY <1>1, <1>2, <1>3, <1>4, <1>5, <1>7, <1>9, <1>10, <1>11 DEF WorkerStep, Step

\* What a step of a worker does to the evidence and to main.
LEMMA WorkerEffects ==
  ASSUME TypeOK, NEW w \in Workers, WorkerStep(w)
  PROVE  /\ UNCHANGED <<main, suite, stage, head>>
         /\ merging' = merging \/ StartMerge(w)
         /\ judged' = judged \/ WriteReceipt(w)
         /\ \/ receipt' = receipt
            \/ WriteReceipt(w)
            \/ receipt' = [receipt EXCEPT ![cur[w]] = Blank("ERROR")]
<1>1. CASE \/ StartPass(w) \/ \E r \in Runs : Consider(w, r)
           \/ EndPass(w) \/ RecordVerdict(w) \/ EmitCompleted(w)
  BY <1>1 DEF StartPass, Consider, EndPass, RecordVerdict, EmitCompleted
<1>2. CASE Clone(w) \/ AssertReceipt(w) BY <1>2 DEF Clone, AssertReceipt, FailErr
<1>3. CASE \/ DigestSuite(w) \/ CopySuite(w) \/ RunTests(w) \/ WriteTmp(w)
           \/ ReadTmp(w) \/ RemoveTmp(w)
  BY <1>3 DEF DigestSuite, CopySuite, RunTests, WriteTmp, ReadTmp, RemoveTmp
<1>4. CASE WriteReceipt(w) BY <1>4 DEF WriteReceipt
<1>5. CASE Promoter(w)
  <2>1. CASE StartMerge(w) BY <2>1 DEF StartMerge
  <2>2. CASE \/ EnterPromotion(w) \/ TakeLock(w) \/ SetTrap(w) \/ ReadReceipt(w) \/ CheckHead(w)
             \/ CheckSpec(w) \/ CheckSuite(w)
    BY <2>2 DEF EnterPromotion, TakeLock, SetTrap, ReadReceipt, CheckHead, CheckSpec, CheckSuite
  <2>3. CASE AbortMerge(w) \/ RecordPromoted(w) \/ CleanUp(w)
    BY <2>3 DEF AbortMerge, RecordPromoted, CleanUp
  <2> QED BY <1>5, <2>1, <2>2, <2>3 DEF Promoter
<1>6. CASE Interrupt(w)
  BY <1>6 DEF Interrupt, VerifyTimeout, PromoteTimeout, SupervisorDies, Crash
<1>7. CASE \E r \in Runs, first \in {"clone", "enter"} : Operate(w, r, first)
  BY <1>7 DEF Operate
<1> QED BY <1>1, <1>2, <1>3, <1>4, <1>5, <1>6, <1>7 DEF WorkerStep, Step, Verifier

\* Admission, builder and editors touch no evidence and no process.
LEMMA EnvironmentEffects ==
  ASSUME NEW r \in Runs, Environment(r)
  PROVE  UNCHANGED <<receipt, judged, stranded, merging, main, lock, pc, cur, loc>>
BY DEF Environment, CreateWorktree, ImportUpstream, RecordRunning, QueueTask, StartBuilder,
       CompleteTask, MoveTask, MoveBranch, EditSuite, EditSpec

\* A finishing merge moves the script that waits for it, if it still does.
LEMMA FinishEffects ==
  ASSUME TypeOK, FinishMerge
  PROVE  \E m \in merging :
           /\ merging' = {}
           /\ main' = main \/ main' = main \cup {m}
           /\ m.by \in Workers
           /\ \/ UNCHANGED pc /\ pc[m.by] # "merging"
              \/ /\ pc[m.by] = "merging"
                 /\ \/ pc' = [pc EXCEPT ![m.by] = "abort"]
                    \/ pc' = [pc EXCEPT ![m.by] = "promoted"] /\ main' = main \cup {m}
           /\ UNCHANGED <<world, files, graph, cur, loc, judged>>
<1>1. PICK m \in merging, done \in BOOLEAN :
        /\ merging' = {}
        /\ main' = IF done THEN main \cup {m} ELSE main
        /\ IF pc[m.by] = "merging" THEN Goto(m.by, IF done THEN "promoted" ELSE "abort")
           ELSE UNCHANGED pc
        /\ UNCHANGED <<world, files, graph, cur, loc, judged>>
  BY DEF FinishMerge
<1>2. m.by \in Workers BY DEF TypeOK, Merge
<1>3. CASE done BY <1>1, <1>2, <1>3
<1>4. CASE ~done BY <1>1, <1>2, <1>4
<1> QED BY <1>3, <1>4

\* Every step is one of these.
LEMMA NextCases ==
  ASSUME Next
  PROVE  \/ \E r \in Runs : Environment(r)
         \/ \E w \in Workers : WorkerStep(w)
         \/ FinishMerge
BY DEF Next, WorkerStep
-----------------------------------------------------------------------------
(* Only verified commits reach main                                        *)

LEMMA JudgedGrows ==
  ASSUME TypeOK, [Next]_vars
  PROVE  judged \subseteq judged'
<1>1. ASSUME NEW r \in Runs, Environment(r) PROVE judged' = judged
  BY <1>1, EnvironmentEffects
<1>2. ASSUME NEW w \in Workers, WorkerStep(w) PROVE judged \subseteq judged'
  BY <1>2, WorkerEffects DEF WriteReceipt
<1>3. CASE FinishMerge BY <1>3 DEF FinishMerge
<1>4. CASE UNCHANGED vars BY <1>4 DEF vars
<1> QED BY <1>1, <1>2, <1>3, <1>4, NextCases

LEMMA JudgedForever ==
  ASSUME TypeOK, [Next]_vars, NEW r, NEW c, NEW a, Judged(judged, r, c, a)
  PROVE  Judged(judged', r, c, a)
BY JudgedGrows DEF Judged

LEMMA EvidenceInit == Init => Evidence
BY DEF Init, Evidence, Blank

LEMMA EvidenceEnvironment ==
  ASSUME TypeOK, Evidence, NEW r \in Runs, Environment(r)
  PROVE  Evidence'
BY EnvironmentEffects DEF Evidence, Judged

\* What the receipts on disk say after a worker's step was judged.
LEMMA EvidenceReceipts ==
  ASSUME TypeOK, Evidence, NEW w \in Workers, WorkerStep(w),
         NEW r \in Runs, receipt'[r].result = "PASS", receipt'[r].gates
  PROVE  Judged(judged', r, receipt'[r].cand, receipt'[r].acc)
<1>0. \A c, a : Judged(judged, r, c, a) => Judged(judged', r, c, a)
  BY WorkerEffects DEF Judged, WriteReceipt
<1>1. CASE receipt' = receipt BY <1>0, <1>1 DEF Evidence
<1>2. CASE WriteReceipt(w)
  <2>1. CASE r = cur[w]
    <3> DEFINE j == [run |-> cur[w], cand |-> loc[w].cand, acc |-> loc[w].acc,
                     tested |-> loc[w].tested, result |-> loc[w].result]
    <3>1. j \in judged' BY <1>2 DEF WriteReceipt
    <3>2. /\ receipt'[r].result = loc[w].result
          /\ receipt'[r].cand = loc[w].cand /\ receipt'[r].acc = loc[w].acc
      BY <1>2, <2>1 DEF WriteReceipt, TypeOK
    <3> QED BY <2>1, <3>1, <3>2 DEF Judged
  <2>2. CASE r # cur[w]
    <3>1. receipt'[r] = receipt[r] BY <1>2, <2>2 DEF WriteReceipt, TypeOK
    <3> QED BY <1>0, <3>1 DEF Evidence
  <2> QED BY <2>1, <2>2
<1>3. CASE receipt' = [receipt EXCEPT ![cur[w]] = Blank("ERROR")]
  <2>1. r # cur[w] BY <1>3 DEF TypeOK, Blank
  <2>2. receipt'[r] = receipt[r] BY <1>3, <2>1 DEF TypeOK
  <2> QED BY <1>0, <2>2 DEF Evidence
<1> QED BY <1>1, <1>2, <1>3, WorkerEffects

\* A script that has read its receipt holds the verdict it read.
LEMMA EvidenceWorkers ==
  ASSUME TypeOK, Evidence, NEW w \in Workers, WorkerStep(w),
         NEW v \in Workers, pc'[v] \in {"head", "spec", "acc", "merge"}
  PROVE  /\ Judged(judged', cur'[v], loc'[v].cand, loc'[v].acc)
         /\ pc'[v] # "head" => loc'[v].cand \in Descendants
<1>0. \A r, c, a : Judged(judged, r, c, a) => Judged(judged', r, c, a)
  BY WorkerEffects DEF Judged, WriteReceipt
<1>1. OnlyMoves(w) /\ Reached(w) BY WorkerMoves
<1>2. CASE v # w \/ pc'[w] = pc[w]
  <2>1. pc'[v] = pc[v] /\ cur'[v] = cur[v] /\ loc'[v] = loc[v] BY <1>1, <1>2 DEF OnlyMoves
  <2> QED BY <1>0, <2>1 DEF Evidence
<1>3. CASE v = w /\ pc'[w] # pc[w]
  <2>1. CASE pc'[w] = "head"
    <3>1. ReadReceipt(w) BY <1>1, <1>3, <2>1 DEF Reached
    <3>2. /\ receipt[cur[w]].result = "PASS" /\ receipt[cur[w]].gates
          /\ cur' = cur /\ cur[w] \in Runs
          /\ loc'[w].cand = receipt[cur[w]].cand /\ loc'[w].acc = receipt[cur[w]].acc
      <4>1. ~Refuse(w) BY <2>1 DEF Refuse, PromoterExit, TypeOK
      <4>2. /\ pc[w] = "read"
            /\ receipt[cur[w]].result = "PASS" /\ receipt[cur[w]].gates
            /\ SetLocal(w, [loc[w] EXCEPT !.cand = receipt[cur[w]].cand,
                                         !.acc = receipt[cur[w]].acc])
            /\ UNCHANGED cur
        BY <3>1, <4>1 DEF ReadReceipt
      <4> QED BY <4>2 DEF TypeOK, Local
    <3> QED BY <1>0, <1>3, <2>1, <3>2 DEF Evidence
  <2>2. CASE pc'[w] = "spec"
    <3>1. CheckHead(w) BY <1>1, <1>3, <2>2 DEF Reached
    <3>2. /\ pc[w] = "head" /\ UNCHANGED <<cur, loc>> /\ loc[w].cand \in Descendants
      BY <2>2, <3>1 DEF CheckHead, Check, Refuse, PromoterExit, TypeOK
    <3> QED BY <1>0, <1>3, <3>2 DEF Evidence
  <2>3. CASE pc'[w] = "acc"
    <3>1. CheckSpec(w) BY <1>1, <1>3, <2>3 DEF Reached
    <3>2. pc[w] = "spec" /\ UNCHANGED <<cur, loc>>
      BY <2>3, <3>1 DEF CheckSpec, Check, Refuse, PromoterExit, TypeOK
    <3> QED BY <1>0, <1>3, <3>2 DEF Evidence
  <2>4. CASE pc'[w] = "merge"
    <3>1. CheckSuite(w) BY <1>1, <1>3, <2>4 DEF Reached
    <3>2. pc[w] = "acc" /\ UNCHANGED <<cur, loc>>
      BY <2>4, <3>1 DEF CheckSuite, Check, Refuse, PromoterExit, TypeOK
    <3> QED BY <1>0, <1>3, <3>2 DEF Evidence
  <2> QED BY <1>3, <2>1, <2>2, <2>3, <2>4
<1> QED BY <1>2, <1>3

LEMMA EvidenceStep ==
  ASSUME TypeOK, Evidence, [Next]_vars
  PROVE  Evidence'
<1>1. ASSUME NEW r \in Runs, Environment(r) PROVE Evidence'
  BY <1>1, EvidenceEnvironment
<1>2. ASSUME NEW w \in Workers, WorkerStep(w) PROVE Evidence'
  <2>1. ASSUME NEW m \in (merging \cup main)'
        PROVE  Judged(judged', m.run, m.cand, m.acc) /\ m.cand \in Descendants
    <3>1. CASE m \in merging \cup main
      <4>1. Judged(judged, m.run, m.cand, m.acc) /\ m.cand \in Descendants BY <3>1 DEF Evidence
      <4>2. Next BY <1>2 DEF Next, WorkerStep
      <4> QED BY <4>1, <4>2, JudgedForever
    <3>2. CASE m \notin merging \cup main
      <4>1. StartMerge(w) BY <1>2, <2>1, <3>2, WorkerEffects
      <4>2. /\ m = [run |-> cur[w], cand |-> loc[w].cand, acc |-> loc[w].acc, by |-> w]
            /\ pc[w] = "merge" /\ judged' = judged
        BY <2>1, <3>2, <4>1 DEF StartMerge
      <4> QED BY <4>2 DEF Evidence, Judged
    <3> QED BY <3>1, <3>2
  <2> QED BY <1>2, <2>1, EvidenceReceipts, EvidenceWorkers DEF Evidence
<1>3. CASE FinishMerge
  <2>1. PICK m \in merging :
          /\ (merging \cup main)' \subseteq merging \cup main
          /\ UNCHANGED <<receipt, judged, cur, loc>>
          /\ \A v \in Workers : pc'[v] \in {"head", "spec", "acc", "merge"} => pc'[v] = pc[v]
    BY <1>3, FinishEffects DEF TypeOK
  <2> QED BY <2>1 DEF Evidence, Judged
<1>4. CASE UNCHANGED vars BY <1>4 DEF vars, Evidence, Judged
<1> QED BY <1>1, <1>2, <1>3, <1>4, NextCases

\* Whatever races the scripts run into, every merge carries its evidence.
THEOREM EvidenceKept == Spec => []Evidence
<1>1. TypeOK /\ Evidence /\ [Next]_vars => Evidence' BY EvidenceStep
<1> QED BY <1>1, EvidenceInit, TypeCorrect, PTL DEF Spec

\* main only ever receives the exact commit that a verifier judged PASS for that run and
\* that descends from the run's base, however many supervisors, operators, editors,
\* builders, timeouts and kills interleave.
THEOREM OnlyVerifiedPromoted == Spec => []PromotedWasVerified
<1>1. Evidence => PromotedWasVerified
  BY DEF Evidence, Judged, PromotedWasVerified, Passed
<1> QED BY <1>1, EvidenceKept, PTL
-----------------------------------------------------------------------------
(* The suite that a promoted commit passed                                 *)

LEMMA SuiteInit == Init => SuiteEvidence
BY DEF Init, SuiteEvidence

\* Without reverts no step takes a suite back.
LEMMA SuiteGrows ==
  ASSUME ~Reverts, TypeOK, NEW r \in Runs, Environment(r), NEW i \in Ideas
  PROVE  suite[i] <= suite'[i]
<1>1. suite[i] \in Nat BY DEF TypeOK, Suites
<1>2. CASE EditSuite(IdeaOf[r])
  <2>1. PICK v \in Suites : v > suite[IdeaOf[r]] /\ suite' = [suite EXCEPT ![IdeaOf[r]] = v]
    BY <1>2 DEF EditSuite
  <2> QED BY <1>1, <2>1, RunAssumption DEF TypeOK, Suites
<1>3. CASE UNCHANGED suite BY <1>1, <1>3
<1> QED BY <1>2, <1>3 DEF Environment, CreateWorktree, ImportUpstream, RecordRunning, QueueTask,
        StartBuilder, CompleteTask, MoveTask, MoveBranch, EditSpec

LEMMA SuiteEnvironment ==
  ASSUME ~Reverts, TypeOK, SuiteEvidence, NEW r \in Runs, Environment(r)
  PROVE  SuiteEvidence'
<1>1. UNCHANGED <<judged, merging, main, pc, cur, loc>> BY EnvironmentEffects
<1>2. TypeOK' BY TypeEnvironment
<1>3. ASSUME NEW q \in Runs, NEW n \in Nat, n <= suite[IdeaOf[q]] PROVE n <= suite'[IdeaOf[q]]
  <2>1. IdeaOf[q] \in Ideas BY RunAssumption
  <2>2. suite[IdeaOf[q]] \in Nat /\ suite'[IdeaOf[q]] \in Nat BY <1>2, <2>1 DEF TypeOK, Suites
  <2> QED BY <1>3, <2>1, <2>2, SuiteGrows
<1>4. \A j \in judged : j.run \in Runs /\ j.tested \in Nat BY DEF TypeOK, Judgement, Suites
<1>5. \A w \in Workers : pc[w] \in {"copy", "test", "write"} => cur[w] \in Runs BY DEF TypeOK
<1>6. \A w \in Workers : loc[w].acc \in Nat /\ loc[w].tested \in Nat
  BY DEF TypeOK, Local, Suites
<1> QED BY <1>1, <1>3, <1>4, <1>5, <1>6 DEF SuiteEvidence

\* A script between its digest and its receipt, or about to merge, knows the suite.
LEMMA SuiteWorkers ==
  ASSUME TypeOK, Evidence, SuiteEvidence, NEW w \in Workers, WorkerStep(w), NEW v \in Workers
  PROVE  /\ pc'[v] = "copy" => loc'[v].acc <= suite'[IdeaOf[cur'[v]]]
         /\ pc'[v] \in {"test", "write"} =>
              loc'[v].acc <= loc'[v].tested /\ loc'[v].tested <= suite'[IdeaOf[cur'[v]]]
         /\ pc'[v] = "merge" => Tested(judged', cur'[v], loc'[v].cand, loc'[v].acc)
<1>1. OnlyMoves(w) /\ Reached(w) BY WorkerMoves
<1>2. suite' = suite /\ \A r, c, a : Tested(judged, r, c, a) => Tested(judged', r, c, a)
  BY WorkerEffects DEF Tested, WriteReceipt
<1>3. CASE v # w \/ pc'[w] = pc[w]
  <2>1. pc'[v] = pc[v] /\ cur'[v] = cur[v] /\ loc'[v] = loc[v] BY <1>1, <1>3 DEF OnlyMoves
  <2> QED BY <1>2, <2>1 DEF SuiteEvidence
<1>4. CASE v = w /\ pc'[w] # pc[w]
  <2>0. cur[w] \in Runs => suite[IdeaOf[cur[w]]] \in Nat
    BY RunAssumption DEF TypeOK, Suites
  <2>1. CASE pc'[w] = "copy"
    <3>1. DigestSuite(w) BY <1>1, <1>4, <2>1 DEF Reached
    <3>2. cur' = cur /\ cur[w] \in Runs /\ loc'[w].acc = suite[IdeaOf[cur[w]]]
      BY <3>1 DEF DigestSuite, TypeOK, Local
    <3> QED BY <1>2, <1>4, <2>0, <2>1, <3>2
  <2>2. CASE pc'[w] = "test"
    <3>1. CopySuite(w) BY <1>1, <1>4, <2>2 DEF Reached
    <3>2. /\ pc[w] = "copy" /\ cur' = cur /\ cur[w] \in Runs
          /\ loc'[w].acc = loc[w].acc /\ loc'[w].tested = suite[IdeaOf[cur[w]]]
      BY <3>1 DEF CopySuite, TypeOK, Local
    <3> QED BY <1>2, <1>4, <2>0, <2>2, <3>2 DEF SuiteEvidence
  <2>3. CASE pc'[w] = "write"
    <3>1. RunTests(w) BY <1>1, <1>4, <2>3 DEF Reached
    <3>2. PICK result \in Outcomes : SetLocal(w, [loc[w] EXCEPT !.result = result])
      BY <3>1 DEF RunTests
    <3>3. /\ pc[w] = "test" /\ cur' = cur
          /\ loc'[w].acc = loc[w].acc /\ loc'[w].tested = loc[w].tested
      BY <3>1, <3>2 DEF RunTests, TypeOK, Local
    <3> QED BY <1>2, <1>4, <2>3, <3>3 DEF SuiteEvidence
  <2>4. CASE pc'[w] = "merge"
    <3>1. CheckSuite(w) BY <1>1, <1>4, <2>4 DEF Reached
    <3>2. /\ pc[w] = "acc" /\ UNCHANGED <<cur, loc>> /\ suite[IdeaOf[cur[w]]] = loc[w].acc
      BY <2>4, <3>1 DEF CheckSuite, Check, Refuse, PromoterExit, TypeOK
    <3>3. PICK j \in judged : /\ j.run = cur[w] /\ j.cand = loc[w].cand
                              /\ j.acc = loc[w].acc /\ j.result = "PASS"
      BY <3>2 DEF Evidence, Judged
    <3>4. j.acc <= j.tested /\ j.tested <= j.acc BY <3>2, <3>3 DEF SuiteEvidence
    <3>5. j.acc = j.tested BY <3>4 DEF TypeOK, Judgement, Suites
    <3> QED BY <1>2, <1>4, <2>4, <3>2, <3>3, <3>5 DEF Tested
  <2> QED BY <1>4, <2>1, <2>2, <2>3, <2>4
<1> QED BY <1>3, <1>4

LEMMA SuiteStep ==
  ASSUME ~Reverts, TypeOK, Evidence, SuiteEvidence, [Next]_vars
  PROVE  SuiteEvidence'
<1>1. ASSUME NEW r \in Runs, Environment(r) PROVE SuiteEvidence'
  BY <1>1, SuiteEnvironment
<1>2. ASSUME NEW w \in Workers, WorkerStep(w) PROVE SuiteEvidence'
  <2>1. ASSUME NEW j \in judged' PROVE j.acc <= j.tested /\ j.tested <= suite'[IdeaOf[j.run]]
    <3>1. CASE j \in judged BY <1>2, <3>1, WorkerEffects DEF SuiteEvidence
    <3>2. CASE j \notin judged
      <4>1. WriteReceipt(w) BY <1>2, <2>1, <3>2, WorkerEffects
      <4>2. /\ pc[w] = "write" /\ suite' = suite
            /\ j = [run |-> cur[w], cand |-> loc[w].cand, acc |-> loc[w].acc,
                    tested |-> loc[w].tested, result |-> loc[w].result]
        BY <2>1, <3>2, <4>1 DEF WriteReceipt
      <4> QED BY <4>2 DEF SuiteEvidence
    <3> QED BY <3>1, <3>2
  <2>2. ASSUME NEW m \in (merging \cup main)' PROVE Tested(judged', m.run, m.cand, m.acc)
    <3>1. CASE m \in merging \cup main
      <4>1. Tested(judged, m.run, m.cand, m.acc) BY <3>1 DEF SuiteEvidence
      <4>2. judged \subseteq judged' BY <1>2, WorkerEffects DEF WriteReceipt
      <4> QED BY <4>1, <4>2 DEF Tested
    <3>2. CASE m \notin merging \cup main
      <4>1. StartMerge(w) BY <1>2, <2>2, <3>2, WorkerEffects
      <4>2. /\ m = [run |-> cur[w], cand |-> loc[w].cand, acc |-> loc[w].acc, by |-> w]
            /\ pc[w] = "merge" /\ judged' = judged
        BY <2>2, <3>2, <4>1 DEF StartMerge
      <4> QED BY <4>2 DEF SuiteEvidence, Tested
    <3> QED BY <3>1, <3>2
  <2> QED BY <1>2, <2>1, <2>2, SuiteWorkers DEF SuiteEvidence
<1>3. CASE FinishMerge
  <2>1. PICK m \in merging :
          /\ (merging \cup main)' \subseteq merging \cup main
          /\ UNCHANGED <<suite, judged, cur, loc>>
          /\ \A v \in Workers : pc'[v] \in {"copy", "test", "write", "merge"} => pc'[v] = pc[v]
    BY <1>3, FinishEffects DEF TypeOK
  <2> QED BY <2>1 DEF SuiteEvidence, Tested
<1>4. CASE UNCHANGED vars BY <1>4 DEF vars, SuiteEvidence, Tested
<1> QED BY <1>1, <1>2, <1>3, <1>4, NextCases

\* As long as no edit restores an earlier content of the "frozen" suite, the commit merged
\* under a digest was tested with the files of that digest, although the verifier reads the
\* digest and the files at different times and edits may come in between.
THEOREM PromotedOnTestedSuite ==
  ASSUME ~Reverts
  PROVE  Spec => []PromotedPassedItsSuite
<1>1. TypeOK /\ Evidence /\ SuiteEvidence /\ [Next]_vars => SuiteEvidence' BY SuiteStep
<1>2. SuiteEvidence => PromotedPassedItsSuite BY DEF SuiteEvidence, PromotedPassedItsSuite
<1> QED BY <1>1, <1>2, SuiteInit, TypeCorrect, EvidenceKept, PTL DEF Spec
-----------------------------------------------------------------------------
(* The release boundary implements ReleaseGate                             *)

PassedPairs == {<<j.run, j.cand>> : j \in {k \in judged : k.result = "PASS"}}
PromotedPairs == {<<m.run, m.cand>> : m \in main}

LEMMA GateInit == Init => Gate!Init
BY DEF Init, Gate!Init

LEMMA GateStep ==
  ASSUME TypeOK, Evidence, [Next]_vars
  PROVE  Gate!Next \/ UNCHANGED <<PassedPairs, PromotedPairs>>
<1>1. ASSUME NEW r \in Runs, Environment(r) PROVE UNCHANGED <<PassedPairs, PromotedPairs>>
  BY <1>1, EnvironmentEffects DEF PassedPairs, PromotedPairs
<1>2. ASSUME NEW w \in Workers, WorkerStep(w)
      PROVE  Gate!Next \/ UNCHANGED <<PassedPairs, PromotedPairs>>
  <2>1. UNCHANGED PromotedPairs BY <1>2, WorkerEffects DEF PromotedPairs
  <2>2. CASE judged' = judged BY <2>1, <2>2 DEF PassedPairs
  <2>3. CASE WriteReceipt(w)
    <3> DEFINE j == [run |-> cur[w], cand |-> loc[w].cand, acc |-> loc[w].acc,
                     tested |-> loc[w].tested, result |-> loc[w].result]
    <3>1. judged' = judged \cup {j} BY <2>3 DEF WriteReceipt
    <3>2. PICK r \in Runs, c \in Commits : r = cur[w] /\ c = loc[w].cand
      BY <2>3 DEF WriteReceipt, TypeOK, Local
    <3>3. CASE loc[w].result = "PASS"
      <4>1. {k \in judged' : k.result = "PASS"} = {k \in judged : k.result = "PASS"} \cup {j}
        BY <3>1, <3>3
      <4>2. j.run = r /\ j.cand = c BY <3>2
      <4> HIDE DEF j
      <4>3. ASSUME NEW p PROVE p \in PassedPairs' <=> p \in PassedPairs \cup {<<r, c>>}
        BY <4>1, <4>2 DEF PassedPairs
      <4>4. PassedPairs' = PassedPairs \cup {<<r, c>>} BY <4>3
      <4>5. Gate!Pass(r, c) BY <2>1, <4>4 DEF Gate!Pass, PassedPairs, PromotedPairs
      <4> QED BY <4>5 DEF Gate!Next
    <3>4. CASE loc[w].result # "PASS"
      <4>1. PassedPairs' = PassedPairs BY <3>1, <3>4 DEF PassedPairs
      <4> QED BY <2>1, <4>1
    <3> QED BY <3>3, <3>4
  <2> QED BY <1>2, <2>2, <2>3, WorkerEffects
<1>3. CASE FinishMerge
  <2>1. PICK m \in merging : (main' = main \/ main' = main \cup {m}) /\ judged' = judged
    BY <1>3, FinishEffects
  <2>2. UNCHANGED PassedPairs BY <2>1 DEF PassedPairs
  <2>3. CASE main' = main BY <2>2, <2>3 DEF PromotedPairs
  <2>4. CASE main' = main \cup {m}
    <3>1. PromotedPairs' = PromotedPairs \cup {<<m.run, m.cand>>} BY <2>4 DEF PromotedPairs
    <3>2. <<m.run, m.cand>> \in PassedPairs BY DEF Evidence, Judged, PassedPairs
    <3>3. Gate!Promote(m.run, m.cand)
      BY <2>2, <3>1, <3>2 DEF Gate!Promote, PassedPairs, PromotedPairs
    <3>4. m.run \in Runs /\ m.cand \in Commits BY DEF TypeOK, Merge
    <3> QED BY <3>3, <3>4 DEF Gate!Next
  <2> QED BY <2>1, <2>3, <2>4
<1>4. CASE UNCHANGED vars BY <1>4 DEF vars, PassedPairs, PromotedPairs
<1> QED BY <1>1, <1>2, <1>3, <1>4, NextCases

\* To a reader of the verdicts and of main the scripts are ReleaseGate: a pass, then the
\* promotion of the very commit that passed, and neither is ever undone.
THEOREM RefinesGate == Spec => ImplementsGate
<1>1. TypeOK /\ Evidence /\ [Next]_vars => Gate!Next \/ UNCHANGED <<PassedPairs, PromotedPairs>>
  BY GateStep
<1> QED BY <1>1, GateInit, TypeCorrect, EvidenceKept, PTL
        DEF Spec, ImplementsGate, Gate!Spec, PassedPairs, PromotedPairs
-----------------------------------------------------------------------------
(* The single-flight lock                                                  *)

\* What a step of worker w does to the lock directories: mkdir when there is none, and the
\* EXIT trap's rmdir when w, and only then, leaves the locked part of the script.
LEMMA LockEffects ==
  ASSUME TypeOK, NEW w \in Workers, WorkerStep(w)
  PROVE  \/ /\ lock' = lock
            /\ cur'[w] = cur[w] \/ pc'[w] \notin LockedPC
            /\ pc'[w] \in LockedPC => pc[w] \in LockedPC
            /\ pc[w] \in LockedPC => pc'[w] \in LockedPC \/ cur[w] \in stranded'
         \/ /\ pc'[w] = "trap" /\ cur' = cur
            /\ cur[w] \notin lock /\ lock' = lock \cup {cur[w]}
         \/ /\ pc[w] \in LockedPC /\ pc'[w] \notin LockedPC
            /\ lock' = lock \ {cur[w]}
<1> USE DEF TypeOK, LockedPC
<1>1. CASE \/ StartPass(w) \/ \E r \in Runs : Consider(w, r)
           \/ EndPass(w) \/ RecordVerdict(w) \/ EmitCompleted(w)
  BY <1>1 DEF StartPass, Consider, EndPass, RecordVerdict, EmitCompleted
<1>2. CASE Verifier(w)
  <2>1. lock' = lock /\ pc[w] \notin LockedPC /\ pc'[w] \notin LockedPC
    <3>1. CASE Clone(w) BY <3>1 DEF Clone, FailErr, VerifierExit
    <3>2. CASE DigestSuite(w) \/ CopySuite(w) \/ RunTests(w)
      BY <3>2 DEF DigestSuite, CopySuite, RunTests
    <3>3. CASE WriteReceipt(w) \/ WriteTmp(w) \/ ReadTmp(w) \/ RemoveTmp(w)
      BY <3>3 DEF WriteReceipt, WriteTmp, ReadTmp, RemoveTmp
    <3>4. CASE AssertReceipt(w) BY <3>4 DEF AssertReceipt, FailErr, VerifierExit
    <3> QED BY <1>2, <3>1, <3>2, <3>3, <3>4 DEF Verifier
  <2> QED BY <2>1
<1>3. CASE Promoter(w)
  <2>1. CASE EnterPromotion(w) BY <2>1 DEF EnterPromotion, RefuseUnlocked, PromoterExit
  <2>2. CASE TakeLock(w) BY <2>2 DEF TakeLock, RefuseUnlocked, PromoterExit
  <2>a. CASE SetTrap(w) BY <2>a DEF SetTrap
  <2>3. CASE ReadReceipt(w) BY <2>3 DEF ReadReceipt, Refuse, PromoterExit
  <2>4. CASE CheckHead(w) BY <2>4 DEF CheckHead, Check, Refuse, PromoterExit
  <2>5. CASE CheckSpec(w) BY <2>5 DEF CheckSpec, Check, Refuse, PromoterExit
  <2>6. CASE CheckSuite(w) BY <2>6 DEF CheckSuite, Check, Refuse, PromoterExit
  <2>7. CASE StartMerge(w) BY <2>7 DEF StartMerge
  <2>8. CASE AbortMerge(w) BY <2>8 DEF AbortMerge, Refuse, PromoterExit
  <2>9. CASE RecordPromoted(w) BY <2>9 DEF RecordPromoted
  <2>10. CASE CleanUp(w) BY <2>10 DEF CleanUp, PromoterExit
  <2> QED BY <1>3, <2>1, <2>2, <2>a, <2>3, <2>4, <2>5, <2>6, <2>7, <2>8, <2>9, <2>10 DEF Promoter
<1>4. CASE VerifyTimeout(w) BY <1>4 DEF VerifyTimeout, VerifierExit, VerifierPC
<1>5. CASE PromoteTimeout(w)
  <2>1. CASE pc[w] = "trap" BY <1>5, <2>1 DEF PromoteTimeout, Strand, TrapPC
  <2>2. CASE pc[w] # "trap" BY <1>5, <2>2 DEF PromoteTimeout, PromoterPC, TrapPC
  <2> QED BY <2>1, <2>2
<1>6. CASE SupervisorDies(w)
  <2>1. CASE pc[w] \in SupervisorPC BY <1>6, <2>1 DEF SupervisorDies, SupervisorPC
  <2>2. CASE pc[w] \notin SupervisorPC BY <1>6, <2>2 DEF SupervisorDies
  <2> QED BY <2>1, <2>2
<1>7. CASE Crash(w) BY <1>7 DEF Crash, Strand
<1>8. CASE \E r \in Runs, first \in {"clone", "enter"} : Operate(w, r, first)
  BY <1>8 DEF Operate
<1> QED BY <1>1, <1>2, <1>3, <1>4, <1>5, <1>6, <1>7, <1>8 DEF WorkerStep, Step, Interrupt

LEMMA SingleFlightInit == Init => SingleFlight
BY DEF Init, SingleFlight, LockedPC

\* A finishing merge leaves its script inside the locked part.
LEMMA FinishKeepsLocks ==
  ASSUME TypeOK, FinishMerge
  PROVE  /\ UNCHANGED <<lock, cur>>
         /\ \A v \in Workers : pc'[v] \in LockedPC <=> pc[v] \in LockedPC
BY FinishEffects DEF TypeOK, LockedPC

LEMMA SingleFlightStep ==
  ASSUME TypeOK, SingleFlight, [Next]_vars
  PROVE  SingleFlight'
<1>1. ASSUME NEW r \in Runs, Environment(r) PROVE SingleFlight'
  BY <1>1, EnvironmentEffects DEF SingleFlight
<1>2. ASSUME NEW w \in Workers, WorkerStep(w) PROVE SingleFlight'
  <2>1. \A v \in Workers \ {w} : pc'[v] = pc[v] /\ cur'[v] = cur[v]
    BY <1>2, WorkerMoves DEF OnlyMoves
  <2>2. CASE /\ lock' = lock
             /\ cur'[w] = cur[w] \/ pc'[w] \notin LockedPC
             /\ pc'[w] \in LockedPC => pc[w] \in LockedPC
    BY <2>1, <2>2 DEF SingleFlight
  <2>3. CASE /\ pc'[w] = "trap" /\ cur' = cur
             /\ cur[w] \notin lock /\ lock' = lock \cup {cur[w]}
    BY <2>1, <2>3 DEF SingleFlight
  <2>4. CASE /\ pc[w] \in LockedPC /\ pc'[w] \notin LockedPC
             /\ lock' = lock \ {cur[w]}
    BY <2>1, <2>4 DEF SingleFlight
  <2> QED BY <1>2, <2>2, <2>3, <2>4, LockEffects
<1>3. CASE FinishMerge BY <1>3, FinishKeepsLocks DEF SingleFlight
<1>4. CASE UNCHANGED vars BY <1>4 DEF vars, SingleFlight
<1> QED BY <1>1, <1>2, <1>3, <1>4, NextCases

\* mkdir excludes: at most one live promotion script of a run is past its lock, whatever is
\* timed out, killed or started by hand, and only it removes the lock directory.
THEOREM OnePromoterPerRun == Spec => []SingleFlight
<1>1. TypeOK /\ SingleFlight /\ [Next]_vars => SingleFlight' BY SingleFlightStep
<1> QED BY <1>1, SingleFlightInit, TypeCorrect, PTL DEF Spec

\* What was left without a trap stays on record.
LEMMA StrandedForever ==
  ASSUME [Next]_vars
  PROVE  stranded \subseteq stranded'
<1>1. ASSUME NEW w \in Workers, Verifier(w) \/ Promoter(w) PROVE stranded' = stranded
  BY <1>1 DEF Verifier, Clone, DigestSuite, CopySuite, RunTests, WriteReceipt, WriteTmp,
     ReadTmp, RemoveTmp, AssertReceipt, Promoter, EnterPromotion, TakeLock, SetTrap,
     ReadReceipt, CheckHead, CheckSpec, CheckSuite, StartMerge, AbortMerge, RecordPromoted,
     CleanUp
<1>2. ASSUME NEW w \in Workers, Step(w) PROVE stranded' = stranded
  BY <1>1, <1>2 DEF Step, StartPass, Consider, EndPass, RecordVerdict, EmitCompleted
<1>3. ASSUME NEW w \in Workers, Interrupt(w) PROVE stranded \subseteq stranded'
  BY <1>3 DEF Interrupt, VerifyTimeout, PromoteTimeout, SupervisorDies, Crash, Strand
<1>4. ASSUME NEW w \in Workers, NEW r \in Runs, NEW first \in {"clone", "enter"},
             Operate(w, r, first)
      PROVE  stranded' = stranded
  BY <1>4 DEF Operate
<1>5. ASSUME NEW r \in Runs, Environment(r) PROVE stranded' = stranded
  BY <1>5, EnvironmentEffects
<1>6. CASE FinishMerge BY <1>6 DEF FinishMerge
<1>7. CASE UNCHANGED vars BY <1>7 DEF vars
<1> QED BY <1>2, <1>3, <1>4, <1>5, <1>6, <1>7 DEF Next

LEMMA OwnedStep ==
  ASSUME TypeOK, LockHasOwner, [Next]_vars
  PROVE  LockHasOwner'
<1> USE StrandedForever
<1>1. ASSUME NEW r \in Runs, Environment(r) PROVE LockHasOwner'
  BY <1>1, EnvironmentEffects DEF LockHasOwner
<1>2. ASSUME NEW w \in Workers, WorkerStep(w) PROVE LockHasOwner'
  <2>1. \A v \in Workers \ {w} : pc'[v] = pc[v] /\ cur'[v] = cur[v]
    BY <1>2, WorkerMoves DEF OnlyMoves
  <2>2. CASE /\ lock' = lock
             /\ cur'[w] = cur[w] \/ pc'[w] \notin LockedPC
             /\ pc[w] \in LockedPC => pc'[w] \in LockedPC \/ cur[w] \in stranded'
    BY <2>1, <2>2 DEF LockHasOwner
  <2>3. CASE /\ pc'[w] = "trap" /\ cur' = cur
             /\ cur[w] \notin lock /\ lock' = lock \cup {cur[w]}
    <3>1. ASSUME NEW r \in lock' 
          PROVE  r \in stranded' \/ \E v \in Workers : pc'[v] \in LockedPC /\ cur'[v] = r
      <4>1. CASE r = cur[w] BY <2>3, <4>1 DEF LockedPC
      <4>2. CASE r # cur[w]
        <5>1. CASE r \in stranded BY <5>1
        <5>2. CASE r \notin stranded
          <6>1. PICK v \in Workers : pc[v] \in LockedPC /\ cur[v] = r
            BY <2>3, <3>1, <4>2, <5>2 DEF LockHasOwner
          <6>2. v # w BY <4>2, <6>1
          <6> QED BY <2>1, <6>1, <6>2
        <5> QED BY <5>1, <5>2
      <4> QED BY <4>1, <4>2
    <3> QED BY <3>1 DEF LockHasOwner
  <2>4. CASE /\ pc[w] \in LockedPC /\ pc'[w] \notin LockedPC
             /\ lock' = lock \ {cur[w]}
    BY <2>1, <2>4 DEF LockHasOwner
  <2> QED BY <1>2, <2>2, <2>3, <2>4, LockEffects
<1>3. CASE FinishMerge BY <1>3, FinishKeepsLocks DEF LockHasOwner
<1>4. CASE UNCHANGED vars BY <1>4 DEF vars, LockHasOwner
<1> QED BY <1>1, <1>2, <1>3, <1>4, NextCases

\* Whatever overlaps, is refused or is timed out: a lock directory outlives its script only
\* for a run whose script was ended by SIGKILL or between its mkdir and its trap.
THEOREM LocksAreReleased == Spec => []LockHasOwner
<1>1. Init => LockHasOwner BY DEF Init, LockHasOwner
<1>2. TypeOK /\ LockHasOwner /\ [Next]_vars => LockHasOwner' BY OwnedStep
<1> QED BY <1>1, <1>2, TypeCorrect, PTL DEF Spec
-----------------------------------------------------------------------------
(* PROMOTED stands for a merge                                             *)

\* Who appends PROMOTED, and who touches the merge under way.
LEMMA StatusEffects ==
  ASSUME TypeOK, NEW w \in Workers, WorkerStep(w)
  PROVE  \/ UNCHANGED history
         \/ /\ pc[w] \in {"verdict", "abort"}
            /\ \E s \in Statuses \ {"PROMOTED"} : AppendStatus(cur[w], s) /\ cur[w] \in Runs
         \/ pc[w] = "promoted" /\ AppendStatus(cur[w], "PROMOTED") /\ cur[w] \in Runs
<1>1. CASE RecordVerdict(w)
  <2>1. cur[w] \in Runs /\ loc[w].verdict \in Statuses \ {"PROMOTED"}
    BY <1>1 DEF RecordVerdict, TypeOK, Local, Verdicts, Statuses
  <2> QED BY <1>1, <2>1 DEF RecordVerdict
<1>2. CASE AbortMerge(w)
  <2>1. cur[w] \in Runs /\ "PROMOTION_FAILED" \in Statuses \ {"PROMOTED"}
    BY <1>2 DEF AbortMerge, TypeOK, Statuses
  <2> QED BY <1>2, <2>1 DEF AbortMerge
<1>3. CASE RecordPromoted(w) BY <1>3 DEF RecordPromoted, TypeOK
<1>4. CASE \/ StartPass(w) \/ (\E r \in Runs : Consider(w, r)) \/ EndPass(w)
           \/ EmitCompleted(w)
  BY <1>4 DEF StartPass, Consider, EndPass, EmitCompleted
<1>5. CASE Verifier(w)
  BY <1>5 DEF Verifier, Clone, DigestSuite, CopySuite, RunTests, WriteReceipt, WriteTmp,
     ReadTmp, RemoveTmp, AssertReceipt
<1>6. CASE \/ EnterPromotion(w) \/ TakeLock(w) \/ SetTrap(w) \/ ReadReceipt(w) \/ CheckHead(w)
           \/ CheckSpec(w) \/ CheckSuite(w) \/ StartMerge(w) \/ CleanUp(w)
  BY <1>6 DEF EnterPromotion, TakeLock, SetTrap, ReadReceipt, CheckHead, CheckSpec, CheckSuite,
     StartMerge, CleanUp
<1>7. CASE Interrupt(w)
  BY <1>7 DEF Interrupt, VerifyTimeout, PromoteTimeout, SupervisorDies, Crash
<1>8. CASE \E r \in Runs, first \in {"clone", "enter"} : Operate(w, r, first)
  BY <1>8 DEF Operate
<1> QED BY <1>1, <1>2, <1>3, <1>4, <1>5, <1>6, <1>7, <1>8 DEF WorkerStep, Step, Promoter

\* Appending a status makes a run have that status, and no other one new.
LEMMA HasAppended ==
  ASSUME TypeOK, NEW q \in Runs, NEW s \in Statuses, AppendStatus(q, s),
         NEW r \in Runs, NEW status, Has(r, status)'
  PROVE  Has(r, status) \/ (r = q /\ s = status)
<1>1. CASE r # q BY <1>1 DEF Has, TypeOK
<1>2. CASE r = q
  <2>1. history[q] \in Seq(Statuses) /\ history'[q] = Append(history[q], s) BY DEF TypeOK
  <2>2. PICK i \in DOMAIN history'[q] : history'[q][i] = status BY <1>2 DEF Has
  <2>3. CASE i \in DOMAIN history[q] BY <1>2, <2>1, <2>2, <2>3 DEF Has
  <2>4. CASE i = Len(history[q]) + 1 BY <1>2, <2>1, <2>2, <2>4
  <2> QED BY <2>1, <2>2, <2>3, <2>4
<1> QED BY <1>1, <1>2

LEMMA MergedInit == Init => MergeAwaited /\ PromotedIsMerged
BY DEF Init, MergeAwaited, PromotedIsMerged, Has

LEMMA MergedEnvironment ==
  ASSUME TypeOK, MergeAwaited, PromotedIsMerged, NEW r \in Runs, Environment(r)
  PROVE  MergeAwaited' /\ PromotedIsMerged'
<1>1. UNCHANGED <<merging, main, pc, cur>> BY EnvironmentEffects
<1>2. UNCHANGED history \/ AppendStatus(r, "RUNNING")
  BY DEF Environment, CreateWorktree, ImportUpstream, RecordRunning, QueueTask, StartBuilder,
         CompleteTask, MoveTask, MoveBranch, EditSuite, EditSpec
<1>3. \A q \in Runs : Has(q, "PROMOTED")' => Has(q, "PROMOTED")
  <2>1. CASE UNCHANGED history BY <2>1 DEF Has
  <2>2. CASE AppendStatus(r, "RUNNING") BY <2>2, HasAppended DEF Statuses
  <2> QED BY <1>2, <2>1, <2>2
<1> QED BY <1>1, <1>3 DEF MergeAwaited, PromotedIsMerged

LEMMA MergedWorker ==
  ASSUME TypeOK, MergeAwaited, PromotedIsMerged, NEW w \in Workers, WorkerStep(w)
  PROVE  MergeAwaited' /\ PromotedIsMerged'
<1>1. \A v \in Workers : v # w \/ pc'[w] = pc[w] => pc'[v] = pc[v] /\ cur'[v] = cur[v]
  BY WorkerMoves DEF OnlyMoves
<1>2. /\ pc'[w] # pc[w] => pc'[w] # "promoted"
      /\ pc'[w] # pc[w] /\ pc'[w] = "merging" => StartMerge(w)
  BY WorkerMoves DEF Reached
<1>3. main' = main /\ (merging' = merging \/ StartMerge(w)) BY WorkerEffects
<1>4. PromotedIsMerged'
  <2>1. ASSUME NEW r \in Runs, Has(r, "PROMOTED")', ~Has(r, "PROMOTED")
        PROVE  pc[w] = "promoted" /\ r = cur[w]
    <3>1. ~UNCHANGED history BY <2>1 DEF Has
    <3>2. ASSUME NEW s \in Statuses \ {"PROMOTED"}, AppendStatus(cur[w], s), cur[w] \in Runs
          PROVE  FALSE
      BY <2>1, <3>2, HasAppended
    <3>3. pc[w] = "promoted" /\ AppendStatus(cur[w], "PROMOTED") /\ cur[w] \in Runs
      BY <3>1, <3>2, StatusEffects
    <3>4. "PROMOTED" \in Statuses BY DEF Statuses
    <3> QED BY <2>1, <3>3, <3>4, HasAppended
  <2> QED BY <1>3, <2>1 DEF PromotedIsMerged, MergeAwaited
<1>5. CASE StartMerge(w)
  <2>1. CASE merging = {} /\ pc'[w] = "merging"
    <3> DEFINE m == [run |-> cur[w], cand |-> loc[w].cand, acc |-> loc[w].acc, by |-> w]
    <3>1. merging' = {m} /\ cur' = cur BY <1>5, <2>1 DEF StartMerge, TypeOK
    <3>2. \A v \in Workers : pc'[v] = "merging" => v = w BY <1>1, <2>1 DEF MergeAwaited
    <3> QED BY <1>1, <1>3, <1>4, <2>1, <3>1, <3>2 DEF MergeAwaited
  <2>2. CASE merging' = merging /\ pc'[w] = "abort"
    BY <1>1, <1>3, <1>4, <2>2 DEF MergeAwaited
  <2> QED BY <1>5, <2>1, <2>2 DEF StartMerge, TypeOK
<1>6. CASE ~StartMerge(w)
  <2>1. merging' = merging BY <1>3, <1>6
  <2> QED BY <1>1, <1>2, <1>3, <1>4, <1>6, <2>1 DEF MergeAwaited
<1> QED BY <1>5, <1>6

LEMMA MergedFinish ==
  ASSUME TypeOK, MergeAwaited, PromotedIsMerged, FinishMerge
  PROVE  MergeAwaited' /\ PromotedIsMerged'
<1>1. PICK m \in merging :
        /\ merging' = {}
        /\ main' = main \/ main' = main \cup {m}
        /\ m.by \in Workers
        /\ \/ UNCHANGED pc /\ pc[m.by] # "merging"
           \/ /\ pc[m.by] = "merging"
              /\ \/ pc' = [pc EXCEPT ![m.by] = "abort"]
                 \/ pc' = [pc EXCEPT ![m.by] = "promoted"] /\ main' = main \cup {m}
        /\ UNCHANGED <<history, cur>>
  BY FinishEffects
<1>2. \A v \in Workers : pc[v] = "merging" => v = m.by /\ cur[v] = m.run
  BY <1>1 DEF MergeAwaited
<1>3. PromotedIsMerged' BY <1>1 DEF PromotedIsMerged, Has
<1>4. \A v \in Workers : pc'[v] # "merging" BY <1>1, <1>2 DEF TypeOK
<1>5. \A v \in Workers : pc'[v] = "promoted" => \E n \in main' : n.run = cur'[v]
  <2>1. ASSUME NEW v \in Workers, pc'[v] = "promoted" PROVE \E n \in main' : n.run = cur'[v]
    <3>1. CASE pc[v] = "promoted" BY <1>1, <3>1 DEF MergeAwaited
    <3>2. CASE pc[v] # "promoted"
      <4>1. v = m.by /\ pc[v] = "merging" /\ m \in main'
        BY <1>1, <2>1, <3>2 DEF TypeOK
      <4> QED BY <1>1, <1>2, <4>1
    <3> QED BY <3>1, <3>2
  <2> QED BY <2>1
<1> QED BY <1>1, <1>3, <1>4, <1>5 DEF MergeAwaited

\* PROMOTED is recorded only for a run whose merge is in main, although the merge may
\* outlive the script that started it and other scripts wait for merges of their own.
THEOREM PromotedMerged == Spec => []PromotedIsMerged
<1> DEFINE Inv == MergeAwaited /\ PromotedIsMerged
<1>1. TypeOK /\ Inv /\ [Next]_vars => Inv'
  <2> SUFFICES ASSUME TypeOK, Inv, [Next]_vars PROVE Inv' OBVIOUS
  <2>1. CASE UNCHANGED vars
    BY <2>1 DEF vars, MergeAwaited, PromotedIsMerged, Has
  <2> QED BY <2>1, MergedEnvironment, MergedWorker, MergedFinish, NextCases
<1>2. Init => Inv BY MergedInit
<1>3. Inv => PromotedIsMerged OBVIOUS
<1> QED BY <1>1, <1>2, <1>3, TypeCorrect, PTL DEF Spec
-----------------------------------------------------------------------------
(* VERIFIED stands for a PASS                                              *)

\* A supervisor that is about to record VERIFIED has the exit code of a passing verifier.
VerdictsHaveEvidence ==
  \A w \in Workers : pc[w] = "verdict" /\ loc[w].verdict = "VERIFIED" =>
    \E c \in Commits : Passed(cur[w], c)

LEMMA PassedForever ==
  ASSUME judged \subseteq judged', NEW r, NEW c, Passed(r, c)
  PROVE  Passed(r, c)'
BY DEF Passed

\* A verifier exits with 0 only if the receipt on disk says PASS, whatever the shared file
\* says.
LEMMA VerdictReached ==
  ASSUME TypeOK, NEW w \in Workers, WorkerStep(w), pc'[w] = "verdict", pc[w] # "verdict",
         loc'[w].verdict = "VERIFIED"
  PROVE  /\ cur'[w] = cur[w] /\ cur[w] \in Runs
         /\ receipt[cur[w]].result = "PASS" /\ receipt[cur[w]].gates
<1> USE DEF TypeOK
<1>1. ASSUME NEW code, VerifierExit(w, code), pc[w] \in VerifierPC
      PROVE  code = 0 /\ cur'[w] = cur[w] /\ cur[w] \in Runs
  <2>1. supervised[w] /\ loc'[w].verdict = VerdictOf(code) /\ cur' = cur
    BY <1>1 DEF VerifierExit, NoLocal
  <2> QED BY <1>1, <2>1 DEF VerdictOf, VerifierPC
<1>2. CASE AssertReceipt(w)
  <2>1. CASE FailErr(w) BY <1>1, <1>2, <2>1 DEF FailErr, AssertReceipt, VerifierPC
  <2>2. CASE /\ receipt[cur[w]].result = loc[w].result /\ receipt[cur[w]].gates
             /\ VerifierExit(w, IF loc[w].result = "PASS" THEN 0 ELSE 1)
    <3>1. PICK code : code = (IF loc[w].result = "PASS" THEN 0 ELSE 1) OBVIOUS
    <3>2. code = 0 /\ cur'[w] = cur[w] /\ cur[w] \in Runs
      BY <1>1, <1>2, <2>2, <3>1 DEF AssertReceipt, VerifierPC
    <3> QED BY <2>2, <3>1, <3>2
  <2> QED BY <1>2, <2>1, <2>2 DEF AssertReceipt
<1>3. CASE Clone(w)
  <2>1. FailErr(w) BY <1>3 DEF Clone
  <2> QED BY <1>1, <1>3, <2>1 DEF FailErr, Clone, VerifierPC
<1>4. CASE VerifyTimeout(w) BY <1>1, <1>4 DEF VerifyTimeout
<1>5. CASE \/ DigestSuite(w) \/ CopySuite(w) \/ RunTests(w) \/ WriteReceipt(w) \/ WriteTmp(w)
           \/ ReadTmp(w) \/ RemoveTmp(w)
  BY <1>5 DEF DigestSuite, CopySuite, RunTests, WriteReceipt, WriteTmp, ReadTmp, RemoveTmp
<1>6. CASE \/ StartPass(w) \/ (\E r \in Runs : Consider(w, r)) \/ EndPass(w)
           \/ RecordVerdict(w) \/ EmitCompleted(w)
  BY <1>6 DEF StartPass, Consider, EndPass, RecordVerdict, EmitCompleted
<1>7. CASE Promoter(w)
  <2>1. ASSUME NEW next \in {"scan", "emit"}, PromoterExit(w, next) PROVE FALSE
    BY <2>1 DEF PromoterExit, Goto, Leave
  <2>2. CASE EnterPromotion(w) \/ TakeLock(w)
    BY <2>1, <2>2 DEF EnterPromotion, TakeLock, RefuseUnlocked, Goto
  <2>3. CASE ReadReceipt(w) BY <2>1, <2>3 DEF ReadReceipt, Refuse, Goto
  <2>4. CASE CheckHead(w) BY <2>1, <2>4 DEF CheckHead, Check, Refuse, Goto
  <2>5. CASE CheckSpec(w) BY <2>1, <2>5 DEF CheckSpec, Check, Refuse, Goto
  <2>6. CASE CheckSuite(w) BY <2>1, <2>6 DEF CheckSuite, Check, Refuse, Goto
  <2>7. CASE SetTrap(w) \/ StartMerge(w) \/ RecordPromoted(w)
    BY <2>7 DEF SetTrap, StartMerge, RecordPromoted, Goto
  <2>8. CASE AbortMerge(w) BY <2>1, <2>8 DEF AbortMerge, Refuse
  <2>9. CASE CleanUp(w) BY <2>1, <2>9 DEF CleanUp
  <2> QED BY <1>7, <2>2, <2>3, <2>4, <2>5, <2>6, <2>7, <2>8, <2>9 DEF Promoter
<1>8. CASE PromoteTimeout(w) \/ SupervisorDies(w) \/ Crash(w)
  BY <1>8 DEF PromoteTimeout, SupervisorDies, Crash
<1>9. CASE \E r \in Runs, first \in {"clone", "enter"} : Operate(w, r, first)
  BY <1>9 DEF Operate
<1> QED BY <1>2, <1>3, <1>4, <1>5, <1>6, <1>7, <1>8, <1>9
        DEF WorkerStep, Step, Verifier, Interrupt

\* Only a supervisor with that verdict appends VERIFIED.
LEMMA VerifiedEffects ==
  ASSUME TypeOK, NEW w \in Workers, WorkerStep(w), NEW r \in Runs,
         Has(r, "VERIFIED")', ~Has(r, "VERIFIED")
  PROVE  r = cur[w] /\ pc[w] = "verdict" /\ loc[w].verdict = "VERIFIED"
<1>1. CASE RecordVerdict(w)
  <2>1. cur[w] \in Runs /\ loc[w].verdict \in Statuses
    BY <1>1 DEF RecordVerdict, TypeOK, Local, Verdicts, Statuses
  <2>2. PICK s \in Statuses : s = loc[w].verdict BY <2>1
  <2>3. PICK q \in Runs : q = cur[w] BY <2>1
  <2>4. AppendStatus(q, s) BY <1>1, <2>2, <2>3 DEF RecordVerdict
  <2>5. r = q /\ s = "VERIFIED" BY <2>4, HasAppended
  <2> QED BY <1>1, <2>2, <2>3, <2>5 DEF RecordVerdict
<1>2. ASSUME NEW s \in {"PROMOTED", "PROMOTION_FAILED"}, AppendStatus(cur[w], s), cur[w] \in Runs
      PROVE  FALSE
  <2>1. PICK q \in Runs : q = cur[w] BY <1>2
  <2>2. AppendStatus(q, s) /\ s \in Statuses BY <1>2, <2>1 DEF Statuses
  <2>3. s = "VERIFIED" BY <2>2, HasAppended
  <2> QED BY <1>2, <2>3
<1>3. CASE AbortMerge(w) BY <1>2, <1>3 DEF AbortMerge, TypeOK
<1>4. CASE RecordPromoted(w) BY <1>2, <1>4 DEF RecordPromoted, TypeOK
<1>5. CASE history' = history BY <1>5 DEF Has
<1>6. CASE \/ StartPass(w) \/ (\E q \in Runs : Consider(w, q)) \/ EndPass(w)
           \/ EmitCompleted(w)
  BY <1>5, <1>6 DEF StartPass, Consider, EndPass, EmitCompleted
<1>7. CASE Verifier(w)
  BY <1>5, <1>7 DEF Verifier, Clone, DigestSuite, CopySuite, RunTests, WriteReceipt, WriteTmp,
     ReadTmp, RemoveTmp, AssertReceipt
<1>8. CASE \/ EnterPromotion(w) \/ TakeLock(w) \/ SetTrap(w) \/ ReadReceipt(w) \/ CheckHead(w)
           \/ CheckSpec(w) \/ CheckSuite(w) \/ StartMerge(w) \/ CleanUp(w)
  BY <1>5, <1>8 DEF EnterPromotion, TakeLock, SetTrap, ReadReceipt, CheckHead, CheckSpec, CheckSuite,
     StartMerge, CleanUp
<1>9. CASE Interrupt(w)
  BY <1>5, <1>9 DEF Interrupt, VerifyTimeout, PromoteTimeout, SupervisorDies, Crash
<1>10. CASE \E q \in Runs, first \in {"clone", "enter"} : Operate(w, q, first)
  BY <1>5, <1>10 DEF Operate
<1> QED BY <1>1, <1>3, <1>4, <1>6, <1>7, <1>8, <1>9, <1>10 DEF WorkerStep, Step, Promoter

LEMMA VerifiedWorker ==
  ASSUME TypeOK, Evidence, VerdictsHaveEvidence, VerifiedHasEvidence,
         NEW w \in Workers, WorkerStep(w)
  PROVE  VerdictsHaveEvidence' /\ VerifiedHasEvidence'
<1>1. judged \subseteq judged' BY WorkerEffects DEF WriteReceipt
<1>2. \A r, c : Passed(r, c) => Passed(r, c)' BY <1>1, PassedForever
<1>3. ASSUME NEW r \in Runs, Has(r, "VERIFIED")' PROVE \E c \in Commits : Passed(r, c)'
  <2>1. CASE Has(r, "VERIFIED") BY <1>2, <2>1 DEF VerifiedHasEvidence
  <2>2. CASE ~Has(r, "VERIFIED")
    <3>1. r = cur[w] /\ pc[w] = "verdict" /\ loc[w].verdict = "VERIFIED"
      BY <1>3, <2>2, VerifiedEffects
    <3>2. PICK c \in Commits : Passed(r, c) BY <3>1 DEF VerdictsHaveEvidence
    <3> QED BY <1>2, <3>2
  <2> QED BY <2>1, <2>2
<1>4. ASSUME NEW v \in Workers, pc'[v] = "verdict", loc'[v].verdict = "VERIFIED"
      PROVE  (\E c \in Commits : Passed(cur[v], c))'
  <2>1. CASE v # w \/ pc'[w] = pc[w]
    <3>1. pc'[v] = pc[v] /\ cur'[v] = cur[v] /\ loc'[v] = loc[v]
      BY <2>1, WorkerMoves DEF OnlyMoves
    <3>2. PICK c \in Commits : Passed(cur[v], c) BY <1>4, <3>1 DEF VerdictsHaveEvidence
    <3> QED BY <1>1, <3>1, <3>2 DEF Passed
  <2>2. CASE v = w /\ pc'[w] # pc[w]
    <3>1. /\ cur'[w] = cur[w] /\ cur[w] \in Runs
          /\ receipt[cur[w]].result = "PASS" /\ receipt[cur[w]].gates
      BY <1>4, <2>2, VerdictReached
    <3>2. Judged(judged, cur[w], receipt[cur[w]].cand, receipt[cur[w]].acc)
      BY <3>1 DEF Evidence
    <3>3. receipt[cur[w]].cand \in Commits BY <3>1 DEF TypeOK, Receipt
    <3> QED BY <1>1, <2>2, <3>1, <3>2, <3>3 DEF Passed, Judged
  <2> QED BY <2>1, <2>2
<1> QED BY <1>3, <1>4 DEF VerdictsHaveEvidence, VerifiedHasEvidence

\* VERIFIED is recorded only for a run a verifier found PASS for, although all verifiers
\* share /tmp/.v3_result, overlap and are killed (verify-candidate.sh: the receipt on disk is
\* asserted before the exit).
THEOREM VerifiedMeansPassed == Spec => []VerifiedHasEvidence
<1> DEFINE Inv == VerdictsHaveEvidence /\ VerifiedHasEvidence
<1>1. Init => Inv BY DEF Init, VerdictsHaveEvidence, VerifiedHasEvidence, Has
<1>2. TypeOK /\ Evidence /\ Inv /\ [Next]_vars => Inv'
  <2> SUFFICES ASSUME TypeOK, Evidence, Inv, [Next]_vars PROVE Inv' OBVIOUS
  <2>1. ASSUME NEW r \in Runs, Environment(r) PROVE Inv'
    <3>1. UNCHANGED <<judged, pc, cur, loc>> BY <2>1, EnvironmentEffects
    <3>2. UNCHANGED history \/ AppendStatus(r, "RUNNING")
      BY <2>1 DEF Environment, CreateWorktree, ImportUpstream, RecordRunning, QueueTask,
         StartBuilder, CompleteTask, MoveTask, MoveBranch, EditSuite, EditSpec
    <3>3. ASSUME NEW q \in Runs, Has(q, "VERIFIED")' PROVE Has(q, "VERIFIED")
      <4>1. CASE UNCHANGED history BY <3>3, <4>1 DEF Has
      <4>2. CASE AppendStatus(r, "RUNNING") BY <3>3, <4>2, HasAppended DEF Statuses
      <4> QED BY <3>2, <4>1, <4>2
    <3> QED BY <3>1, <3>3 DEF VerdictsHaveEvidence, VerifiedHasEvidence, Passed
  <2>2. CASE FinishMerge
    <3>1. /\ UNCHANGED <<judged, cur, loc, history>>
          /\ \A v \in Workers : pc'[v] = "verdict" => pc[v] = "verdict"
      BY <2>2, FinishEffects DEF TypeOK
    <3> QED BY <3>1 DEF VerdictsHaveEvidence, VerifiedHasEvidence, Passed, Has
  <2>3. CASE UNCHANGED vars
    BY <2>3 DEF vars, VerdictsHaveEvidence, VerifiedHasEvidence, Passed, Has
  <2> QED BY <2>1, <2>2, <2>3, VerifiedWorker, NextCases
<1>3. Inv => VerifiedHasEvidence OBVIOUS
<1> QED BY <1>1, <1>2, <1>3, TypeCorrect, EvidenceKept, PTL DEF Spec
-----------------------------------------------------------------------------
(* A run is judged once per supervisor                                     *)

\* Before it is recorded a run has no status, no commits and nobody at work on it.
Unstarted ==
  \A r \in Runs : stage[r] \in {"absent", "created"} =>
    head[r] = Base /\ history[r] = <<>> /\ \A w \in Workers : cur[w] # r

\* A worker takes up a run only when it has commits or has been announced.
LEMMA TakenUp ==
  ASSUME TypeOK, NEW w \in Workers, WorkerStep(w)
  PROVE  \/ cur'[w] \in {cur[w], NoRun}
         \/ head[cur'[w]] # Base
         \/ stage[cur'[w]] \in {"ready", "working", "done"}
<1> USE DEF TypeOK
<1>1. CASE \/ StartPass(w) \/ EndPass(w) \/ RecordVerdict(w) \/ EmitCompleted(w)
  BY <1>1 DEF StartPass, EndPass, RecordVerdict, EmitCompleted
<1>2. ASSUME NEW r \in Runs, Consider(w, r) PROVE cur'[w] = cur[w] \/ head[cur'[w]] # Base
  BY <1>2 DEF Consider, Eligible
<1>3. CASE Verifier(w)
  BY <1>3 DEF Verifier, Clone, DigestSuite, CopySuite, RunTests, WriteReceipt, WriteTmp,
     ReadTmp, RemoveTmp, AssertReceipt, FailErr, VerifierExit
<1>4. CASE Promoter(w)
  BY <1>4 DEF Promoter, EnterPromotion, TakeLock, SetTrap, ReadReceipt, CheckHead, CheckSpec, CheckSuite,
     StartMerge, AbortMerge, RecordPromoted, CleanUp, Check, Refuse, RefuseUnlocked, PromoterExit
<1>5. CASE Interrupt(w)
  BY <1>5 DEF Interrupt, VerifyTimeout, VerifierExit, PromoteTimeout, SupervisorDies, Crash
<1>6. ASSUME NEW r \in Runs, NEW first \in {"clone", "enter"}, Operate(w, r, first)
      PROVE  stage[cur'[w]] \in {"ready", "working", "done"}
  BY <1>6 DEF Operate
<1> QED BY <1>1, <1>2, <1>3, <1>4, <1>5, <1>6 DEF WorkerStep, Step

LEMMA UnstartedStep ==
  ASSUME TypeOK, Unstarted, [Next]_vars
  PROVE  Unstarted'
<1>1. ASSUME NEW q \in Runs, Environment(q) PROVE Unstarted'
  <2>1. UNCHANGED cur BY <1>1, EnvironmentEffects
  <2>2. ASSUME NEW r \in Runs, stage'[r] \in {"absent", "created"}
        PROVE  stage[r] \in {"absent", "created"} /\ head'[r] = head[r] /\ history'[r] = history[r]
    <3> USE DEF TypeOK
    <3>1. CASE CreateWorktree(q) BY <2>2, <3>1 DEF CreateWorktree
    <3>2. CASE ImportUpstream(q) BY <2>2, <3>2 DEF ImportUpstream
    <3>3. CASE RecordRunning(q) BY <2>2, <3>3 DEF RecordRunning
    <3>4. CASE QueueTask(q) \/ StartBuilder(q) \/ CompleteTask(q)
      BY <2>2, <3>4 DEF QueueTask, StartBuilder, CompleteTask, MoveTask
    <3>5. CASE MoveBranch(q) BY <2>2, <3>5 DEF MoveBranch
    <3>6. CASE EditSuite(IdeaOf[q]) \/ EditSpec(q) BY <2>2, <3>6 DEF EditSuite, EditSpec
    <3> QED BY <1>1, <3>1, <3>2, <3>3, <3>4, <3>5, <3>6 DEF Environment
  <2> QED BY <2>1, <2>2 DEF Unstarted
<1>2. ASSUME NEW w \in Workers, WorkerStep(w) PROVE Unstarted'
  <2>1. UNCHANGED <<stage, head>> BY <1>2, WorkerEffects
  <2>2. \A v \in Workers \ {w} : cur'[v] = cur[v] BY <1>2, WorkerMoves DEF OnlyMoves
  <2>3. ASSUME NEW r \in Runs, stage[r] \in {"absent", "created"}
        PROVE  history'[r] = <<>> /\ cur'[w] # r
    <3>1. head[r] = Base /\ history[r] = <<>> /\ cur[w] # r BY <2>3 DEF Unstarted
    <3>2. history'[r] = history[r]
      <4>1. UNCHANGED history \/ \E s : AppendStatus(cur[w], s) BY <1>2, StatusEffects
      <4> QED BY <3>1, <4>1 DEF TypeOK
    <3>3. cur'[w] # r BY <1>2, <2>3, <3>1, TakenUp, RunAssumption
    <3> QED BY <3>1, <3>2, <3>3
  <2> QED BY <2>1, <2>2, <2>3 DEF Unstarted
<1>3. CASE FinishMerge BY <1>3, FinishEffects DEF Unstarted, world, files
<1>4. CASE UNCHANGED vars BY <1>4 DEF vars, world, files, workers, Unstarted
<1> QED BY <1>1, <1>2, <1>3, <1>4, NextCases


\* Worker w owes its run a verdict.
Judging(w) == supervised[w] /\ pc[w] \in VerifierPC \cup {"verdict"}
Judges(r) == {w \in Workers : Judging(w) /\ cur[w] = r}

\* Only a supervisor comes to record a verdict, and the scripts an operator starts have none.
Supervision ==
  \A w \in Workers : /\ supervised[w] => pc[w] # "idle"
                     /\ pc[w] = "verdict" => supervised[w]

\* Once a run has a verdict it is not taken up again; the verdicts it has and those it is
\* still owed come from different supervisors.
JudgeInv ==
  \A r \in Runs \ ImportRuns :
    /\ Last(r) \in {"", "RUNNING"} => VerdictsOf(r) = {}
    /\ Cardinality(VerdictsOf(r)) + Cardinality(Judges(r)) <= Cardinality(Workers)

\* A worker owes a verdict because it did before, or because it has just taken up a run.
Judged1(w) ==
  /\ supervised'[w] => pc'[w] # "idle"
  /\ pc'[w] = "verdict" => supervised'[w]
  /\ Judging(w)' =>
       \/ Judging(w) /\ cur'[w] = cur[w]
       \/ cur'[w] \in Runs /\ Eligible(cur'[w]) /\ UNCHANGED history

LEMMA ExitJudged ==
  ASSUME TypeOK, Supervision, NEW w \in Workers, UNCHANGED supervised, NEW code,
         pc[w] \in VerifierPC, VerifierExit(w, code)
  PROVE  Judged1(w)
<1>1. CASE supervised[w]
  <2>1. pc'[w] = "verdict" /\ cur' = cur BY <1>1 DEF VerifierExit, TypeOK
  <2> QED BY <1>1, <2>1 DEF Judged1, Judging
<1>2. CASE ~supervised[w]
  <2>1. pc'[w] = "idle" BY <1>2 DEF VerifierExit, TypeOK
  <2> QED BY <1>2, <2>1 DEF Judged1, Judging
<1> QED BY <1>1, <1>2

LEMMA WorkerJudged ==
  ASSUME TypeOK, Supervision, NEW w \in Workers, WorkerStep(w)
  PROVE  Judged1(w)
<1>1. ASSUME pc'[w] \in PCs \ (VerifierPC \cup {"verdict", "idle"}) PROVE Judged1(w)
  BY <1>1 DEF Judged1, Judging
<1>2. ASSUME pc'[w] \in PCs \ {"verdict"}, ~supervised'[w] PROVE Judged1(w)
  BY <1>2 DEF Judged1, Judging
<1> USE DEF PCs, SupervisorPC, PromoterPC, LockedPC, VerifierPC
<1>3. CASE StartPass(w) BY <1>1, <1>3 DEF StartPass, TypeOK
<1>4. ASSUME NEW r \in Runs, Consider(w, r) PROVE Judged1(w)
  <2>1. UNCHANGED <<history, supervised>> /\ pc[w] = "scan" BY <1>4 DEF Consider
  <2>2. CASE Eligible(r) /\ Goto(w, "clone") /\ cur' = [cur EXCEPT ![w] = r]
    <3>1. pc'[w] = "clone" /\ cur'[w] = r BY <2>2 DEF TypeOK
    <3> QED BY <2>1, <2>2, <3>1 DEF Judged1
  <2>3. CASE UNCHANGED pc BY <1>1, <2>1, <2>3
  <2> QED BY <1>4, <2>2, <2>3 DEF Consider
<1>5. CASE EndPass(w) BY <1>2, <1>5 DEF EndPass, TypeOK
<1>6. CASE RecordVerdict(w) BY <1>1, <1>6 DEF RecordVerdict, TypeOK
<1>7. CASE EmitCompleted(w) BY <1>1, <1>7 DEF EmitCompleted, TypeOK
<1>8. CASE Verifier(w)
  <2>1. UNCHANGED supervised /\ pc[w] \in VerifierPC
    BY <1>8 DEF Verifier, Clone, DigestSuite, CopySuite, RunTests, WriteReceipt, WriteTmp,
       ReadTmp, RemoveTmp, AssertReceipt
  <2>2. ASSUME NEW l \in VerifierPC, Goto(w, l), UNCHANGED cur PROVE Judged1(w)
    <3>1. pc'[w] = l BY <2>2 DEF TypeOK
    <3> QED BY <2>1, <2>2, <3>1 DEF Judged1, Judging
  <2>3. \/ \E l \in VerifierPC : Goto(w, l) /\ UNCHANGED cur
        \/ \E code : VerifierExit(w, code)
    BY <1>8 DEF Verifier, Clone, DigestSuite, CopySuite, RunTests, WriteReceipt, WriteTmp,
       ReadTmp, RemoveTmp, AssertReceipt, FailErr
  <2> QED BY <2>1, <2>2, <2>3, ExitJudged
<1>9. CASE Promoter(w)
  <2>1. UNCHANGED supervised
    BY <1>9 DEF Promoter, EnterPromotion, TakeLock, SetTrap, ReadReceipt, CheckHead, CheckSpec,
       CheckSuite, StartMerge, AbortMerge, RecordPromoted, CleanUp
  <2>2. \/ pc'[w] \in PromoterPC \cup {"scan", "emit"}
        \/ pc'[w] = "idle" /\ ~supervised[w]
    BY <1>9 DEF Promoter, EnterPromotion, TakeLock, SetTrap, ReadReceipt, CheckHead, CheckSpec,
       CheckSuite, StartMerge, AbortMerge, RecordPromoted, CleanUp, Check, Refuse,
       RefuseUnlocked, PromoterExit, TypeOK
  <2> QED BY <1>1, <1>2, <2>1, <2>2
<1>10. CASE VerifyTimeout(w) BY <1>10, ExitJudged DEF VerifyTimeout
<1>11. CASE PromoteTimeout(w) BY <1>1, <1>11 DEF PromoteTimeout, TypeOK
<1>12. CASE SupervisorDies(w)
  <2>1. ~supervised'[w] BY <1>12 DEF SupervisorDies, TypeOK
  <2>2. pc'[w] \in PCs \ {"verdict"} BY <1>12 DEF SupervisorDies, TypeOK
  <2> QED BY <1>2, <2>1, <2>2
<1>13. CASE Crash(w) BY <1>2, <1>13 DEF Crash, TypeOK
<1>14. ASSUME NEW r \in Runs, NEW first \in {"clone", "enter"}, Operate(w, r, first)
       PROVE  Judged1(w)
  <2>1. pc'[w] = first /\ supervised'[w] = supervised[w] /\ ~supervised[w]
    BY <1>14 DEF Operate, TypeOK, Supervision
  <2> QED BY <1>2, <2>1
<1> QED BY <1>3, <1>4, <1>5, <1>6, <1>7, <1>8, <1>9, <1>10, <1>11, <1>12, <1>13, <1>14
        DEF WorkerStep, Step, Interrupt

\* A step of worker w does not change who supervises the others.
LEMMA SuperviseOne ==
  ASSUME TypeOK, NEW w \in Workers, WorkerStep(w)
  PROVE  \A v \in Workers \ {w} : supervised'[v] = supervised[v]
<1>1. CASE Verifier(w) \/ Promoter(w)
  BY <1>1 DEF Verifier, Clone, DigestSuite, CopySuite, RunTests, WriteReceipt, WriteTmp,
     ReadTmp, RemoveTmp, AssertReceipt, Promoter, EnterPromotion, TakeLock, SetTrap,
     ReadReceipt, CheckHead, CheckSpec, CheckSuite, StartMerge, AbortMerge, RecordPromoted,
     CleanUp
<1>2. CASE \/ StartPass(w) \/ (\E r \in Runs : Consider(w, r)) \/ EndPass(w)
           \/ RecordVerdict(w) \/ EmitCompleted(w)
  BY <1>2 DEF StartPass, Consider, EndPass, RecordVerdict, EmitCompleted, TypeOK
<1>3. CASE Interrupt(w)
  BY <1>3 DEF Interrupt, VerifyTimeout, PromoteTimeout, SupervisorDies, Crash, TypeOK
<1>4. CASE \E r \in Runs, first \in {"clone", "enter"} : Operate(w, r, first)
  BY <1>4 DEF Operate
<1> QED BY <1>1, <1>2, <1>3, <1>4 DEF WorkerStep, Step

LEMMA VerdictsFinite ==
  ASSUME TypeOK, NEW r \in Runs
  PROVE  IsFiniteSet(VerdictsOf(r)) /\ Cardinality(VerdictsOf(r)) \in Nat
<1>1. Len(history[r]) \in Nat /\ DOMAIN history[r] = 1 .. Len(history[r]) BY DEF TypeOK
<1>2. IsFiniteSet(1 .. Len(history[r])) BY <1>1, FS_Interval
<1>3. VerdictsOf(r) \subseteq 1 .. Len(history[r]) BY <1>1 DEF VerdictsOf
<1>4. IsFiniteSet(VerdictsOf(r)) BY <1>2, <1>3, FS_Subset
<1> QED BY <1>4, FS_CardinalityType

LEMMA JudgesFinite ==
  ASSUME NEW r
  PROVE  /\ IsFiniteSet(Judges(r)) /\ Cardinality(Judges(r)) \in Nat
         /\ Cardinality(Judges(r)) <= Cardinality(Workers)
         /\ Cardinality(Workers) \in Nat
<1>1. Judges(r) \subseteq Workers BY DEF Judges
<1> QED BY <1>1, WorkerAssumption, FS_Subset, FS_CardinalityType

\* What an appended status does to the verdicts of the run.
LEMMA VerdictAppended ==
  ASSUME TypeOK, NEW r \in Runs, NEW s \in Statuses, AppendStatus(r, s)
  PROVE  /\ Last(r)' = s
         /\ s \notin Verdicts => VerdictsOf(r)' = VerdictsOf(r)
         /\ Cardinality(VerdictsOf(r)') \in Nat
         /\ Cardinality(VerdictsOf(r)') <= Cardinality(VerdictsOf(r)) + 1
<1>1. PICK h \in Seq(Statuses) : h = history[r] BY DEF TypeOK
<1>2. PICK n \in Nat : n = Len(h) BY <1>1
<1>3. history'[r] = Append(h, s) BY <1>1 DEF TypeOK
<1>4. /\ DOMAIN history'[r] = 1 .. (n + 1) /\ DOMAIN h = 1 .. n
      /\ history'[r][n + 1] = s /\ \A i \in 1 .. n : history'[r][i] = h[i]
      /\ history'[r] # <<>> /\ Len(history'[r]) = n + 1
  BY <1>1, <1>2, <1>3
<1>5. VerdictsOf(r)' = IF s \in Verdicts THEN VerdictsOf(r) \cup {n + 1} ELSE VerdictsOf(r)
  <2>1. VerdictsOf(r)' = {i \in 1 .. (n + 1) : history'[r][i] \in Verdicts}
    BY <1>4 DEF VerdictsOf
  <2>2. VerdictsOf(r) = {i \in 1 .. n : h[i] \in Verdicts} BY <1>1, <1>4 DEF VerdictsOf
  <2> QED BY <1>2, <1>4, <2>1, <2>2
<1>6. IsFiniteSet(VerdictsOf(r)) /\ Cardinality(VerdictsOf(r)) \in Nat BY VerdictsFinite
<1>7. CASE s \in Verdicts
  <2>1. VerdictsOf(r)' = VerdictsOf(r) \cup {n + 1} BY <1>5, <1>7
  <2>2. Cardinality(VerdictsOf(r) \cup {n + 1}) \in
          {Cardinality(VerdictsOf(r)), Cardinality(VerdictsOf(r)) + 1}
    BY <1>6, FS_AddElement
  <2> QED BY <1>4, <1>6, <1>7, <2>1, <2>2 DEF Last
<1>8. CASE s \notin Verdicts
  <2>1. VerdictsOf(r)' = VerdictsOf(r) BY <1>5, <1>8
  <2> QED BY <1>4, <1>6, <1>8, <2>1 DEF Last
<1> QED BY <1>7, <1>8

\* Only three actions append to a status file.
LEMMA RecordersOnly ==
  ASSUME NEW w \in Workers, WorkerStep(w), ~UNCHANGED history
  PROVE  RecordVerdict(w) \/ AbortMerge(w) \/ RecordPromoted(w)
<1>1. CASE Verifier(w)
  BY <1>1 DEF Verifier, Clone, DigestSuite, CopySuite, RunTests, WriteReceipt, WriteTmp,
     ReadTmp, RemoveTmp, AssertReceipt
<1>2. CASE Promoter(w)
  BY <1>2 DEF Promoter, EnterPromotion, TakeLock, SetTrap, ReadReceipt, CheckHead, CheckSpec,
     CheckSuite, StartMerge, CleanUp
<1>3. CASE \/ StartPass(w) \/ (\E r \in Runs : Consider(w, r)) \/ EndPass(w) \/ EmitCompleted(w)
  BY <1>3 DEF StartPass, Consider, EndPass, EmitCompleted
<1>4. CASE Interrupt(w)
  BY <1>4 DEF Interrupt, VerifyTimeout, PromoteTimeout, SupervisorDies, Crash
<1>5. CASE \E r \in Runs, first \in {"clone", "enter"} : Operate(w, r, first)
  BY <1>5 DEF Operate
<1> QED BY <1>1, <1>2, <1>3, <1>4, <1>5 DEF WorkerStep, Step

LEMMA JudgeInit == Init => Supervision /\ JudgeInv
<1> SUFFICES ASSUME Init PROVE Supervision /\ JudgeInv OBVIOUS
<1>1. Supervision BY DEF Init, Supervision
<1>2. ASSUME NEW r \in Runs
      PROVE  /\ VerdictsOf(r) = {} /\ Judges(r) = {}
             /\ Cardinality({}) + Cardinality({}) <= Cardinality(Workers)
  <2>1. VerdictsOf(r) = {} BY DEF Init, VerdictsOf
  <2>2. Judges(r) = {} BY DEF Init, Judges, Judging
  <2>3. Cardinality({}) = 0 BY FS_EmptySet
  <2>4. Cardinality(Workers) \in Nat BY JudgesFinite
  <2> QED BY <2>1, <2>2, <2>3, <2>4
<1>3. JudgeInv BY <1>2 DEF JudgeInv
<1> QED BY <1>1, <1>3

\* Fewer judges and no more verdicts.
LEMMA FewerJudges ==
  ASSUME TypeOK, NEW r \in Runs, VerdictsOf(r)' = VerdictsOf(r), Judges(r)' \subseteq Judges(r),
         Cardinality(VerdictsOf(r)) + Cardinality(Judges(r)) <= Cardinality(Workers)
  PROVE  Cardinality(VerdictsOf(r)') + Cardinality(Judges(r)') <= Cardinality(Workers)
<1>1. IsFiniteSet(Judges(r)) /\ Cardinality(Judges(r)) \in Nat BY JudgesFinite
<1>2. Cardinality(Judges(r)') <= Cardinality(Judges(r)) /\ Cardinality(Judges(r)') \in Nat
  BY <1>1, FS_Subset, FS_CardinalityType
<1>3. Cardinality(VerdictsOf(r)) \in Nat BY VerdictsFinite
<1>4. Cardinality(Workers) \in Nat BY JudgesFinite
<1> QED BY <1>1, <1>2, <1>3, <1>4

\* A judge turns into a verdict.
LEMMA JudgeDone ==
  ASSUME TypeOK, NEW r \in Runs, NEW w \in Judges(r),
         Cardinality(VerdictsOf(r)') \in Nat,
         Cardinality(VerdictsOf(r)') <= Cardinality(VerdictsOf(r)) + 1,
         Judges(r)' \subseteq Judges(r) \ {w},
         Cardinality(VerdictsOf(r)) + Cardinality(Judges(r)) <= Cardinality(Workers)
  PROVE  Cardinality(VerdictsOf(r)') + Cardinality(Judges(r)') <= Cardinality(Workers)
<1>1. IsFiniteSet(Judges(r)) /\ Cardinality(Judges(r)) \in Nat BY JudgesFinite
<1>2. IsFiniteSet(Judges(r) \ {w}) /\ Cardinality(Judges(r) \ {w}) = Cardinality(Judges(r)) - 1
  BY <1>1, FS_RemoveElement
<1>3. Cardinality(Judges(r)') <= Cardinality(Judges(r) \ {w}) /\ Cardinality(Judges(r)') \in Nat
  BY <1>2, FS_Subset, FS_CardinalityType
<1>4. Cardinality(VerdictsOf(r)) \in Nat BY VerdictsFinite
<1>5. Cardinality(Workers) \in Nat BY JudgesFinite
<1> QED BY <1>1, <1>2, <1>3, <1>4, <1>5

LEMMA JudgeWorker ==
  ASSUME TypeOK, Supervision, JudgeInv, NEW w \in Workers, WorkerStep(w)
  PROVE  Supervision' /\ JudgeInv'
<1>1. Judged1(w) BY WorkerJudged
<1>2. \A v \in Workers \ {w} :
        pc'[v] = pc[v] /\ cur'[v] = cur[v] /\ supervised'[v] = supervised[v]
  BY WorkerMoves, SuperviseOne DEF OnlyMoves
<1>3. Supervision' BY <1>1, <1>2 DEF Supervision, Judged1
<1>4. ASSUME NEW r \in Runs
      PROVE  \/ Judges(r)' \subseteq Judges(r)
             \/ UNCHANGED history /\ Eligible(r)
  BY <1>1, <1>2 DEF Judges, Judging, Judged1
<1>5. ASSUME NEW r \in Runs \ ImportRuns
      PROVE  /\ Last(r)' \in {"", "RUNNING"} => VerdictsOf(r)' = {}
             /\ Cardinality(VerdictsOf(r)') + Cardinality(Judges(r)') <= Cardinality(Workers)
  <2>0. /\ Last(r) \in {"", "RUNNING"} => VerdictsOf(r) = {}
        /\ Cardinality(VerdictsOf(r)) + Cardinality(Judges(r)) <= Cardinality(Workers)
    BY <1>5 DEF JudgeInv
  <2>1. CASE history'[r] = history[r]
    <3>1. VerdictsOf(r)' = VerdictsOf(r) /\ Last(r)' = Last(r)
      BY <2>1 DEF VerdictsOf, Last
    <3>2. CASE Judges(r)' \subseteq Judges(r) BY <2>0, <3>1, <3>2, FewerJudges
    <3>3. CASE Eligible(r)
      <4>1. VerdictsOf(r)' = {} BY <2>0, <3>1, <3>3 DEF Eligible
      <4>2. Cardinality(VerdictsOf(r)') = 0 BY <4>1, FS_EmptySet
      <4>3. Judges(r)' \subseteq Workers BY DEF Judges
      <4>4. Cardinality(Judges(r)') <= Cardinality(Workers) /\ Cardinality(Judges(r)') \in Nat
        BY <4>3, WorkerAssumption, FS_Subset, FS_CardinalityType
      <4>5. Cardinality(Workers) \in Nat BY JudgesFinite
      <4> QED BY <2>0, <3>1, <4>1, <4>2, <4>4, <4>5
    <3> QED BY <1>4, <3>2, <3>3
  <2>2. CASE history'[r] # history[r] /\ RecordVerdict(w)
    <3>1. cur[w] = r /\ loc[w].verdict \in Verdicts
      BY <2>2 DEF RecordVerdict, TypeOK, Local
    <3>2. PICK s \in Verdicts : AppendStatus(r, s) BY <2>2, <3>1 DEF RecordVerdict
    <3>3. s \in Statuses BY <3>2 DEF Statuses
    <3>4. /\ Last(r)' = s
          /\ Cardinality(VerdictsOf(r)') \in Nat
          /\ Cardinality(VerdictsOf(r)') <= Cardinality(VerdictsOf(r)) + 1
      BY <3>2, <3>3, VerdictAppended
    <3>5. w \in Judges(r)
      BY <2>2, <3>1 DEF RecordVerdict, Judges, Judging, Supervision
    <3>6. w \notin Judges(r)'
      <4>1. pc'[w] \in {"enter", "scan"} BY <2>2 DEF RecordVerdict, TypeOK
      <4> QED BY <4>1 DEF Judges, Judging, VerifierPC
    <3>7. ~UNCHANGED history BY <2>2
    <3>8. Judges(r)' \subseteq Judges(r) \ {w} BY <1>4, <3>6, <3>7
    <3>9. Cardinality(VerdictsOf(r)') + Cardinality(Judges(r)') <= Cardinality(Workers)
      BY <2>0, <3>4, <3>5, <3>8, JudgeDone
    <3>10. Last(r)' \notin {"", "RUNNING"} BY <3>2, <3>4 DEF Verdicts
    <3> QED BY <3>9, <3>10
  <2>3. CASE history'[r] # history[r] /\ ~RecordVerdict(w)
    <3>1. PICK s \in Statuses \ Verdicts :
             /\ AppendStatus(cur[w], s) /\ cur[w] \in Runs /\ s \notin {"", "RUNNING"}
      <4>1. AbortMerge(w) \/ RecordPromoted(w) BY <2>3, RecordersOnly
      <4>2. cur[w] \in Runs BY <4>1 DEF AbortMerge, RecordPromoted, TypeOK
      <4>3. {"PROMOTED", "PROMOTION_FAILED"} \subseteq (Statuses \ Verdicts) \ {"", "RUNNING"}
        BY DEF Statuses, Verdicts
      <4>4. CASE AbortMerge(w) BY <4>2, <4>3, <4>4 DEF AbortMerge
      <4>5. CASE RecordPromoted(w) BY <4>2, <4>3, <4>5 DEF RecordPromoted
      <4> QED BY <4>1, <4>4, <4>5
    <3>2. cur[w] = r BY <2>3, <3>1 DEF TypeOK
    <3>3. Last(r)' = s /\ VerdictsOf(r)' = VerdictsOf(r) BY <3>1, <3>2, VerdictAppended
    <3>4. Judges(r)' \subseteq Judges(r) BY <1>4, <2>3
    <3>5. Cardinality(VerdictsOf(r)') + Cardinality(Judges(r)') <= Cardinality(Workers)
      BY <2>0, <3>3, <3>4, FewerJudges
    <3> QED BY <3>1, <3>3, <3>5
  <2> QED BY <2>1, <2>2, <2>3
<1>6. JudgeInv' BY <1>5 DEF JudgeInv
<1> QED BY <1>3, <1>6

LEMMA JudgeEnvironment ==
  ASSUME TypeOK, Unstarted, Supervision, JudgeInv, NEW q \in Runs, Environment(q)
  PROVE  Supervision' /\ JudgeInv'
<1>1. UNCHANGED <<pc, cur, supervised>>
  BY DEF Environment, CreateWorktree, ImportUpstream, RecordRunning, QueueTask, StartBuilder,
     CompleteTask, MoveTask, MoveBranch, EditSuite, EditSpec
<1>2. Supervision' BY <1>1 DEF Supervision
<1>3. ASSUME NEW r \in Runs PROVE Judges(r)' = Judges(r) BY <1>1 DEF Judges, Judging
<1>4. ASSUME NEW r \in Runs \ ImportRuns
      PROVE  /\ Last(r)' \in {"", "RUNNING"} => VerdictsOf(r)' = {}
             /\ Cardinality(VerdictsOf(r)') + Cardinality(Judges(r)') <= Cardinality(Workers)
  <2>0. /\ Last(r) \in {"", "RUNNING"} => VerdictsOf(r) = {}
        /\ Cardinality(VerdictsOf(r)) + Cardinality(Judges(r)) <= Cardinality(Workers)
    BY <1>4 DEF JudgeInv
  <2>1. CASE history'[r] = history[r]
    <3>1. VerdictsOf(r)' = VerdictsOf(r) /\ Last(r)' = Last(r)
      BY <2>1 DEF VerdictsOf, Last
    <3> QED BY <1>3, <2>0, <3>1, FewerJudges
  <2>2. CASE history'[r] # history[r]
    <3>1. RecordRunning(q) /\ q = r
      BY <2>2 DEF Environment, CreateWorktree, ImportUpstream, RecordRunning, QueueTask,
         StartBuilder, CompleteTask, MoveTask, MoveBranch, EditSuite, EditSpec, TypeOK
    <3>2. stage[r] = "created" BY <1>4, <3>1 DEF RecordRunning
    <3>3. history[r] = <<>> BY <3>2 DEF Unstarted
    <3>4. VerdictsOf(r) = {} BY <3>3 DEF VerdictsOf
    <3>5. "RUNNING" \in Statuses \ Verdicts BY DEF Statuses, Verdicts
    <3>6. VerdictsOf(r)' = VerdictsOf(r)
      BY <3>1, <3>5, VerdictAppended DEF RecordRunning
    <3>7. Cardinality(VerdictsOf(r)') + Cardinality(Judges(r)') <= Cardinality(Workers)
      BY <1>3, <2>0, <3>6, FewerJudges
    <3> QED BY <3>4, <3>6, <3>7
  <2> QED BY <2>1, <2>2
<1> QED BY <1>2, <1>4 DEF JudgeInv

LEMMA JudgeStep ==
  ASSUME TypeOK, Unstarted, Supervision, JudgeInv, [Next]_vars
  PROVE  Supervision' /\ JudgeInv'
<1>1. CASE FinishMerge
  <2>1. UNCHANGED <<cur, history, supervised>> BY <1>1, FinishEffects DEF FinishMerge
  <2>2. \A w \in Workers : \/ pc'[w] = pc[w]
                           \/ pc[w] = "merging" /\ pc'[w] \in {"abort", "promoted"}
    BY <1>1, FinishEffects DEF TypeOK
  <2>3. Supervision' BY <2>1, <2>2 DEF Supervision
  <2>4. ASSUME NEW r \in Runs
        PROVE  Judges(r)' = Judges(r) /\ VerdictsOf(r)' = VerdictsOf(r) /\ Last(r)' = Last(r)
    BY <2>1, <2>2 DEF Judges, Judging, VerifierPC, VerdictsOf, Last
  <2> QED BY <2>3, <2>4 DEF JudgeInv
<1>2. CASE UNCHANGED vars
  <2>1. Supervision' BY <1>2 DEF vars, Supervision
  <2>2. ASSUME NEW r \in Runs
        PROVE  Judges(r)' = Judges(r) /\ VerdictsOf(r)' = VerdictsOf(r) /\ Last(r)' = Last(r)
    BY <1>2 DEF vars, Judges, Judging, VerdictsOf, Last
  <2> QED BY <2>1, <2>2 DEF JudgeInv
<1> QED BY <1>1, <1>2, NextCases, JudgeWorker, JudgeEnvironment

\* However many supervisors overlap, are timed out or are killed, a run that was not imported
\* gets at most one verdict from each: the first verdict on record keeps all later passes
\* away, whatever is recorded after it.
THEOREM VerdictPerSupervisor == Spec => []JudgedOncePerSupervisor
<1>1. Init => Unstarted
  BY RunAssumption DEF Init, Unstarted
<1>2. TypeOK /\ Unstarted /\ [Next]_vars => Unstarted' BY UnstartedStep
<1>3. TypeOK /\ Unstarted /\ Supervision /\ JudgeInv /\ [Next]_vars => (Supervision /\ JudgeInv)'
  BY JudgeStep
<1>4. TypeOK /\ JudgeInv => JudgedOncePerSupervisor
  <2> SUFFICES ASSUME TypeOK, JudgeInv, NEW r \in Runs \ ImportRuns
               PROVE  Cardinality(VerdictsOf(r)) <= Cardinality(Workers)
    BY DEF JudgedOncePerSupervisor
  <2>1. Cardinality(VerdictsOf(r)) + Cardinality(Judges(r)) <= Cardinality(Workers)
    BY DEF JudgeInv
  <2>2. Cardinality(VerdictsOf(r)) \in Nat BY VerdictsFinite
  <2>3. Cardinality(Judges(r)) \in Nat /\ Cardinality(Workers) \in Nat BY JudgesFinite
  <2> QED BY <2>1, <2>2, <2>3
<1> QED BY <1>1, <1>2, <1>3, <1>4, JudgeInit, TypeCorrect, PTL DEF Spec
=============================================================================
