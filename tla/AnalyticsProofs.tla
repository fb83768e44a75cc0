---------------------------- MODULE AnalyticsProofs ----------------------------
(***************************************************************************)
(* Theorems about Forecasts for any jobs, predictions and observations: as *)
(* long as two runs of a script are not in progress together, a forecast   *)
(* is made once and resolved once; a resolver handles what had closed, and *)
(* outcomes it records stand.  Then                                        *)
(* about Lineage for any graph, store and depth: whatever is projected     *)
(* during a query, the paths it finds are paths, it finds what was within  *)
(* reach, and the totals of the reports count it.                          *)
(***************************************************************************)
EXTENDS Forecasts, Lineage, FiniteSetTheorems, WellFoundedInduction, TLAPS

Prophecy == [p : DOMAIN predictions, start : Int]
Verdict == [key : (DOMAIN predictions) \X Int, end : Int, outcome : BOOLEAN, readAt : Int]
File(S) == [lines : Seq(S), torn : Torn]
Run == [i : Nat, start : Int, issued : Int,
        list : Seq(Prophecy), keys : SUBSET ((DOMAIN predictions) \X Int), began : Int,
        outcome : BOOLEAN, readAt : Int]

Predictions == [start : Nat \cup {NoDay}, days : Nat, ruled : BOOLEAN]

Types ==
  /\ predictions \in Seq(Predictions)
  /\ now \in Nat /\ observed \subseteq Observations
  /\ forecasts \in File(Prophecy) /\ finals \in File(Verdict)
  /\ pc \in [Jobs -> {"idle"} \cup Issuing \cup Resolving] /\ run \in [Jobs -> Run]
  /\ \A j \in Jobs :
       /\ pc[j] \in Issuing => run[j].i \in DOMAIN predictions
       /\ pc[j] = "take" => run[j].i # 0
       /\ pc[j] \in {"series", "resolve"} => run[j].i \in DOMAIN run[j].list

-----------------------------------------------------------------------------
LEMMA WindowStartType ==
  ASSUME Types, NEW p \in DOMAIN predictions
  PROVE  WindowStart(p) \in Int
<1>1. predictions[p] \in Predictions BY DEF Types
<1>2. DayLength \in Nat \ {0} /\ now \in Nat BY ForecastsAssumption DEF Types
<1>3. CASE predictions[p].start = NoDay
  <2>1. now % DayLength \in Int BY <1>2
  <2> QED BY <1>2, <1>3, <2>1 DEF WindowStart
<1>4. CASE predictions[p].start # NoDay
  <2>1. predictions[p].start \in Nat BY <1>1, <1>4 DEF Predictions
  <2>2. predictions[p].start * DayLength \in Int BY <1>2, <2>1
  <2> QED BY <1>4, <2>2 DEF WindowStart
<1> QED BY <1>3, <1>4

LEMMA WindowEndType ==
  ASSUME Types, NEW f \in Prophecy
  PROVE  WindowEnd(f) \in Int
<1>1. f.p \in DOMAIN predictions /\ f.start \in Int BY DEF Prophecy
<1>2. predictions[f.p].days \in Nat
  <2>1. predictions[f.p] \in Predictions BY <1>1 DEF Types
  <2> QED BY <2>1 DEF Predictions
<1>3. DayLength \in Int BY ForecastsAssumption
<1>4. predictions[f.p].days * DayLength \in Int BY <1>2, <1>3
<1> QED BY <1>1, <1>4 DEF WindowEnd, Prediction

\* A file takes whole lines only while it has no torn one.
LEMMA LineAppended ==
  ASSUME NEW S, NEW file \in File(S), NEW line \in S
  PROVE  /\ With(file, line) \in File(S)
         /\ With(file, line).torn = "no" =>
              file.torn = "no" /\ With(file, line).lines = Append(file.lines, line)
BY DEF File, With, Torn

LEMMA LineTorn ==
  ASSUME NEW S, NEW file \in File(S)
  PROVE  TornAppend(file) \in File(S) /\ TornAppend(file).torn # "no"
BY DEF File, TornAppend, Torn

LEMMA LinesType ==
  ASSUME NEW S, NEW file \in File(S)
  PROVE  Lines(file) \in Seq(S)
BY DEF File, Lines

LEMMA IdleType == Types => Idle \in Run
<1>1. <<>> \in Seq(Prophecy) OBVIOUS
<1> QED BY <1>1 DEF Idle, Run

\* What a job goes on with after prediction i.
LEMMA FollowingType ==
  ASSUME Types, NEW j \in Jobs, NEW i \in Nat, i <= Len(predictions), Following(j, i)
  PROVE  /\ pc' \in [Jobs -> {"idle"} \cup Issuing \cup Resolving] /\ run' \in [Jobs -> Run]
         /\ pc'[j] \in {"idle", "read"} /\ (pc'[j] = "read" => run'[j].i \in DOMAIN predictions)
         /\ \A k \in Jobs \ {j} : pc'[k] = pc[k] /\ run'[k] = run[k]
<1>1. Idle \in Run BY IdleType
<1>2. CASE i = Len(predictions)
  BY <1>1, <1>2 DEF Following, End, Go, Types
<1>3. CASE i # Len(predictions)
  <2>1. i + 1 \in DOMAIN predictions BY <1>3 DEF Types
  <2>2. WindowStart(i + 1) \in Int BY <2>1, WindowStartType
  <2>3. PICK r : r = [Idle EXCEPT !.i = i + 1, !.start = WindowStart(i + 1)] OBVIOUS
  <2>4. r \in Run /\ r.i = i + 1
    <3>1. i + 1 \in Nat OBVIOUS
    <3>2. PICK start \in Int : start = WindowStart(i + 1) BY <2>2
    <3>3. r = [Idle EXCEPT !.i = i + 1, !.start = start] BY <2>3, <3>2
    <3> QED BY <1>1, <3>1, <3>2, <3>3 DEF Run
  <2>5. pc' = [pc EXCEPT ![j] = "read"] /\ run' = [run EXCEPT ![j] = r]
    BY <1>3, <2>3 DEF Following, Go
  <2> QED BY <2>1, <2>4, <2>5 DEF Types, Issuing
<1> QED BY <1>2, <1>3
-----------------------------------------------------------------------------
(* What the jobs do to the files                                           *)

\* A job other than j is where it was.
Others(j) == \A k \in Jobs \ {j} : pc'[k] = pc[k] /\ run'[k] = run[k]

LEMMA GoStep ==
  ASSUME Types, NEW j \in Jobs, NEW at, NEW r, Go(j, at, r)
  PROVE  pc'[j] = at /\ run'[j] = r /\ Others(j)
BY DEF Go, Types, Others

\* The types after a step that puts job j at a place that fits its run.
LEMMA GoTypes ==
  ASSUME Types, NEW j \in Jobs, NEW at \in {"idle"} \cup Issuing \cup Resolving, NEW r \in Run,
         Go(j, at, r), UNCHANGED <<predictions, now, observed>>,
         forecasts' \in File(Prophecy), finals' \in File(Verdict),
         at \in Issuing => r.i \in DOMAIN predictions,
         at = "take" => r.i # 0,
         at \in {"series", "resolve"} => r.i \in DOMAIN r.list
  PROVE  Types'
<1>1. pc'[j] = at /\ run'[j] = r /\ Others(j) BY GoStep
<1>2. pc' \in [Jobs -> {"idle"} \cup Issuing \cup Resolving] /\ run' \in [Jobs -> Run]
  BY DEF Go, Types
<1> HIDE DEF Go
<1>3. Prophecy' = Prophecy /\ Verdict' = Verdict /\ Run' = Run
  BY DEF Prophecy, Verdict, Run
<1>4. \A k \in Jobs :
       /\ pc'[k] \in Issuing => run'[k].i \in DOMAIN predictions
       /\ pc'[k] = "take" => run'[k].i # 0
       /\ pc'[k] \in {"series", "resolve"} => run'[k].i \in DOMAIN run'[k].list
  BY <1>1 DEF Types, Others
<1> QED BY <1>2, <1>3, <1>4 DEF Types, File

LEMMA FollowingStep ==
  ASSUME Types, NEW j \in Jobs, NEW i \in Nat, i <= Len(predictions), Following(j, i),
         UNCHANGED <<predictions, now, observed>>,
         forecasts' \in File(Prophecy), finals' \in File(Verdict)
  PROVE  Types' /\ Others(j) /\ pc'[j] \in {"idle", "read"}
<1>1. /\ pc' \in [Jobs -> {"idle"} \cup Issuing \cup Resolving] /\ run' \in [Jobs -> Run]
      /\ pc'[j] \in {"idle", "read"} /\ (pc'[j] = "read" => run'[j].i \in DOMAIN predictions)
      /\ \A k \in Jobs \ {j} : pc'[k] = pc[k] /\ run'[k] = run[k]
  BY FollowingType
<1>2. Prophecy' = Prophecy /\ Verdict' = Verdict /\ Run' = Run
  BY DEF Prophecy, Verdict, Run
<1>3. \A k \in Jobs :
       /\ pc'[k] \in Issuing => run'[k].i \in DOMAIN predictions
       /\ pc'[k] = "take" => run'[k].i # 0
       /\ pc'[k] \in {"series", "resolve"} => run'[k].i \in DOMAIN run'[k].list
  BY <1>1 DEF Types, Issuing
<1> QED BY <1>1, <1>2, <1>3 DEF Types, File, Others

LEMMA FurtherType ==
  ASSUME NEW j \in Jobs, run[j] \in Run
  PROVE  /\ Further(j) \in Run /\ Further(j).i # 0 /\ Further(j).keys = run[j].keys
         /\ Further(j).list = run[j].list
<1>1. run[j].i + 1 \in Nat /\ run[j].i + 1 # 0 BY DEF Run
<1>2. PICK n \in Nat : n = run[j].i + 1 BY <1>1
<1>3. Further(j) = [run[j] EXCEPT !.i = n] BY <1>2 DEF Further
<1> QED BY <1>1, <1>2, <1>3 DEF Run

\* A window that is judged has two observations, and the outcome says whether the price rose.
LEMMA OutcomeType ==
  ASSUME NEW S, NEW outcome \in Outcomes(S), S \subseteq Observations
  PROVE  outcome \in BOOLEAN
<1>1. PICK ends \in Slopes(S) : outcome = (ends[2].value > ends[1].value) BY DEF Outcomes
<1>2. (ends[2].value > ends[1].value) \in BOOLEAN OBVIOUS
<1> QED BY <1>1, <1>2
-----------------------------------------------------------------------------
\* The forecast and the resolution job j appends.
Made(j) == [p |-> run[j].i, start |-> run[j].start]
Judged(j) == [key |-> Key(Taken(j)), end |-> WindowEnd(Taken(j)),
              outcome |-> run[j].outcome, readAt |-> run[j].readAt]

LEMMA MadeType ==
  ASSUME Types, NEW j \in Jobs, pc[j] = "append"
  PROVE  Made(j) \in Prophecy
<1>1. run[j] \in Run /\ run[j].i \in DOMAIN predictions BY DEF Types, Issuing
<1> QED BY <1>1 DEF Made, Run, Prophecy

LEMMA TakenType ==
  ASSUME Types, NEW j \in Jobs, run[j].i \in DOMAIN run[j].list
  PROVE  Taken(j) \in Prophecy /\ Key(Taken(j)) \in (DOMAIN predictions) \X Int
<1>1. run[j] \in Run BY DEF Types
<1>2. run[j].list \in Seq(Prophecy) BY <1>1 DEF Run
<1>3. Taken(j) \in Prophecy BY <1>2 DEF Taken
<1> QED BY <1>3 DEF Key, Prophecy

LEMMA JudgedType ==
  ASSUME Types, NEW j \in Jobs, pc[j] = "resolve"
  PROVE  Judged(j) \in Verdict
<1>1. run[j] \in Run /\ run[j].i \in DOMAIN run[j].list BY DEF Types
<1>2. Taken(j) \in Prophecy /\ Key(Taken(j)) \in (DOMAIN predictions) \X Int BY <1>1, TakenType
<1>3. WindowEnd(Taken(j)) \in Int BY <1>2, WindowEndType
<1>4. run[j].outcome \in BOOLEAN /\ run[j].readAt \in Int BY <1>1 DEF Run
<1> QED BY <1>2, <1>3, <1>4 DEF Judged, Verdict
-----------------------------------------------------------------------------
(* Types                                                                   *)

LEMMA TypesInit == Init => Types
<1> SUFFICES ASSUME Init PROVE Types OBVIOUS
<1>1. predictions \in Seq(Predictions) BY ForecastsAssumption DEF Init, Predictions
<1>2. <<>> \in Seq(Prophecy) /\ <<>> \in Seq(Verdict) OBVIOUS
<1>3. Idle \in Run BY <1>2 DEF Idle, Run
<1>4. forecasts \in File(Prophecy) /\ finals \in File(Verdict)
  BY <1>2 DEF Init, File, EmptyFile, Torn
<1> QED BY <1>1, <1>3, <1>4 DEF Init, Types, Issuing

LEMMA IssueTypes ==
  ASSUME Types, NEW j \in Jobs, Issue(j)
  PROVE  Types'
<1> USE DEF world, files
<1>0. /\ run[j] \in Run /\ forecasts \in File(Prophecy) /\ finals \in File(Verdict)
      /\ now \in Int
  BY DEF Types
<1>1. CASE StartIssuing(j)
  <2>1. Following(j, 0) /\ UNCHANGED <<predictions, now, observed, forecasts, finals>>
    BY <1>1 DEF StartIssuing, Begin
  <2>2. 0 <= Len(predictions) BY DEF Types
  <2> QED BY <1>0, <2>1, <2>2, FollowingStep
<1>2. ASSUME pc[j] \in Issuing, Following(j, run[j].i),
             UNCHANGED <<predictions, now, observed, finals>>, forecasts' \in File(Prophecy)
      PROVE  Types'
  <2>1. run[j].i \in Nat /\ run[j].i <= Len(predictions) BY <1>2 DEF Types
  <2> QED BY <1>0, <1>2, <2>1, FollowingStep
<1>3. CASE IssueRead(j)
  <2>1. pc[j] \in Issuing /\ UNCHANGED <<predictions, now, observed, forecasts, finals>>
    BY <1>3 DEF IssueRead, Issuing
  <2>2. CASE Following(j, run[j].i) BY <1>0, <1>2, <2>1, <2>2
  <2>3. CASE Go(j, "evidence", [run[j] EXCEPT !.issued = now])
    <3>1. PICK r : r = [run[j] EXCEPT !.issued = now] OBVIOUS
    <3>2. r \in Run /\ r.i = run[j].i BY <1>0, <3>1 DEF Run
    <3>3. r.i \in DOMAIN predictions /\ "evidence" \in Issuing BY <2>1, <3>2 DEF Types, Issuing
    <3>4. Go(j, "evidence", r) BY <2>3, <3>1
    <3> QED BY <1>0, <2>1, <3>2, <3>3, <3>4, GoTypes
  <2> QED BY <1>3, <2>2, <2>3 DEF IssueRead
<1>4. CASE IssueEvidence(j)
  <2>1. pc[j] \in Issuing /\ UNCHANGED <<predictions, now, observed, forecasts, finals>>
    BY <1>4 DEF IssueEvidence, Issuing
  <2>2. CASE Following(j, run[j].i) BY <1>0, <1>2, <2>1, <2>2
  <2>3. CASE Go(j, "append", run[j])
    <3>1. run[j] \in Run BY <1>0
    <3>2. run[j].i \in DOMAIN predictions /\ "append" \in Issuing BY <2>1 DEF Types, Issuing
    <3> QED BY <1>0, <2>1, <2>3, <3>1, <3>2, GoTypes
  <2> QED BY <1>4, <2>2, <2>3 DEF IssueEvidence
<1>5. CASE IssueAppend(j)
  <2>1. pc[j] = "append" /\ forecasts' = With(forecasts, Made(j)) /\ Following(j, run[j].i)
        /\ UNCHANGED <<predictions, now, observed, finals>>
    BY <1>5 DEF IssueAppend, Made
  <2>2. Made(j) \in Prophecy BY <2>1, MadeType
  <2>3. forecasts' \in File(Prophecy) BY <1>0, <2>1, <2>2, LineAppended
  <2> QED BY <1>2, <2>1, <2>3 DEF Issuing
<1> QED BY <1>1, <1>3, <1>4, <1>5 DEF Issue

LEMMA ResolveTypes ==
  ASSUME Types, NEW j \in Jobs, Resolve(j)
  PROVE  Types'
<1> USE DEF world, files
<1>0. /\ run[j] \in Run /\ forecasts \in File(Prophecy) /\ finals \in File(Verdict)
      /\ now \in Int /\ Idle \in Run
  BY IdleType DEF Types
<1>1. CASE StartResolving(j)
  <2>1. PICK r : r = [Idle EXCEPT !.began = now] OBVIOUS
  <2>2. r \in Run BY <1>0, <2>1 DEF Run
  <2>3. Go(j, "open", r) /\ UNCHANGED <<predictions, now, observed, forecasts, finals>>
    BY <1>1, <2>1 DEF StartResolving, Begin
  <2> QED BY <1>0, <2>2, <2>3, GoTypes DEF Issuing, Resolving
<1>2. CASE ReadForecasts(j)
  <2>1. PICK r : r = [run[j] EXCEPT !.list = Lines(forecasts)] OBVIOUS
  <2>2. r \in Run BY <1>0, <2>1, LinesType DEF Run
  <2>3. Go(j, "finals", r) /\ UNCHANGED <<predictions, now, observed, forecasts, finals>>
    BY <1>2, <2>1 DEF ReadForecasts
  <2> QED BY <1>0, <2>2, <2>3, GoTypes DEF Issuing, Resolving
<1>3. CASE ReadFinals(j)
  <2>1. PICK r : r = [run[j] EXCEPT !.i = 1, !.keys = {f.key : f \in Range(Lines(finals))}]
    OBVIOUS
  <2>2. Lines(finals) \in Seq(Verdict) BY <1>0, LinesType
  <2>3. {f.key : f \in Range(Lines(finals))} \subseteq (DOMAIN predictions) \X Int
    <3> SUFFICES ASSUME NEW k \in DOMAIN Lines(finals)
                 PROVE  Lines(finals)[k].key \in (DOMAIN predictions) \X Int
      BY DEF Range
    <3>1. Lines(finals)[k] \in Verdict BY <2>2
    <3> QED BY <3>1 DEF Verdict
  <2>4. r \in Run /\ r.i = 1 BY <1>0, <2>1, <2>3 DEF Run
  <2>5. Go(j, "take", r) /\ UNCHANGED <<predictions, now, observed, forecasts, finals>>
    BY <1>3, <2>1 DEF ReadFinals
  <2> QED BY <1>0, <2>4, <2>5, GoTypes DEF Issuing, Resolving
<1>4. ASSUME pc[j] \in {"take", "series"}, Go(j, "take", Further(j)),
             UNCHANGED <<predictions, now, observed, forecasts, finals>>
      PROVE  Types'
  <2>1. PICK r : r = Further(j) OBVIOUS
  <2>2. r \in Run /\ r.i # 0 BY <1>0, <2>1, FurtherType
  <2>3. Go(j, "take", r) BY <1>4, <2>1
  <2> QED BY <1>0, <1>4, <2>2, <2>3, GoTypes DEF Issuing, Resolving
<1>5. CASE TakeForecast(j)
  <2>1. pc[j] = "take" /\ UNCHANGED <<predictions, now, observed, forecasts, finals>>
    BY <1>5 DEF TakeForecast
  <2>2. CASE run[j].i > Len(run[j].list) /\ End(j)
    <3>1. Go(j, "idle", Idle) BY <2>2 DEF End
    <3> QED BY <1>0, <2>1, <3>1, GoTypes DEF Issuing
  <2>3. CASE Go(j, "take", Further(j)) BY <1>4, <2>1, <2>3
  <2>4. CASE ~(run[j].i > Len(run[j].list)) /\ Go(j, "series", run[j])
    <3>1. run[j].i # 0 BY <2>1 DEF Types
    <3>2. run[j].i \in Nat /\ run[j].list \in Seq(Prophecy) BY <1>0 DEF Run
    <3>3. run[j].i \in DOMAIN run[j].list BY <2>4, <3>1, <3>2
    <3> QED BY <1>0, <2>1, <2>4, <3>3, GoTypes DEF Issuing, Resolving
  <2> QED BY <1>5, <2>2, <2>3, <2>4 DEF TakeForecast
<1>6. CASE ReadSeries(j)
  <2>1. pc[j] = "series" /\ UNCHANGED <<predictions, now, observed, forecasts, finals>>
    BY <1>6 DEF ReadSeries
  <2>2. CASE Go(j, "take", Further(j)) BY <1>4, <2>1, <2>2
  <2>3. ASSUME NEW outcome \in Outcomes(InWindow(Taken(j))),
               Go(j, "resolve", [run[j] EXCEPT !.outcome = outcome, !.readAt = now])
        PROVE  Types'
    <3>1. PICK r : r = [run[j] EXCEPT !.outcome = outcome, !.readAt = now] OBVIOUS
    <3>2. outcome \in BOOLEAN BY OutcomeType DEF InWindow, Types
    <3>3. r \in Run /\ r.i = run[j].i /\ r.list = run[j].list BY <1>0, <3>1, <3>2 DEF Run
    <3>4. r.i \in DOMAIN r.list BY <2>1, <3>3 DEF Types
    <3>5. Go(j, "resolve", r) BY <2>3, <3>1
    <3> QED BY <1>0, <2>1, <3>3, <3>4, <3>5, GoTypes DEF Issuing, Resolving
  <2> QED BY <1>6, <2>2, <2>3 DEF ReadSeries
<1>7. CASE AppendFinal(j)
  <2>1. pc[j] = "resolve" /\ finals' = With(finals, Judged(j))
        /\ UNCHANGED <<predictions, now, observed, forecasts>>
    BY <1>7 DEF AppendFinal, Judged
  <2>2. Judged(j) \in Verdict BY <2>1, JudgedType
  <2>3. finals' \in File(Verdict) BY <1>0, <2>1, <2>2, LineAppended
  <2>4. KeysNow(j) \subseteq (DOMAIN predictions) \X Int
    <3>1. run[j].keys \subseteq (DOMAIN predictions) \X Int BY <1>0 DEF Run
    <3>2. Key(Taken(j)) \in (DOMAIN predictions) \X Int BY <2>1, TakenType DEF Types
    <3> QED BY <3>1, <3>2 DEF KeysNow
  <2>5. PICK r : r = [Further(j) EXCEPT !.keys = KeysNow(j)] OBVIOUS
  <2>6. Further(j) \in Run /\ Further(j).i # 0 BY <1>0, FurtherType
  <2>7. r \in Run /\ r.i # 0 BY <2>4, <2>5, <2>6 DEF Run
  <2>8. Go(j, "take", r) BY <1>7, <2>5 DEF AppendFinal
  <2> QED BY <1>0, <2>1, <2>3, <2>7, <2>8, GoTypes DEF Issuing, Resolving
<1> QED BY <1>1, <1>2, <1>3, <1>5, <1>6, <1>7 DEF Resolve

LEMMA TypesStep ==
  ASSUME Types, [Next]_vars
  PROVE  Types'
<1>1. ASSUME UNCHANGED <<predictions, files, pc, run>>, now' \in Nat, observed' \subseteq Observations
      PROVE  Types'
  <2>1. Prophecy' = Prophecy /\ Verdict' = Verdict /\ Run' = Run
    BY <1>1 DEF Prophecy, Verdict, Run
  <2> QED BY <1>1, <2>1 DEF Types, File, files
<1>2. CASE Tick BY <1>1, <1>2 DEF Tick, Types
<1>3. CASE Observe
  <2>1. now' = now /\ UNCHANGED <<predictions, files, pc, run>> BY <1>3 DEF Observe
  <2>2. PICK at \in 0 .. now, entity \in Entities, value \in Values :
          observed' = observed \cup {[at |-> at, entity |-> entity, value |-> value]}
    BY <1>3 DEF Observe
  <2>3. [at |-> at, entity |-> entity, value |-> value] \in Observations
    BY DEF Observations, Types
  <2> QED BY <1>1, <2>1, <2>2, <2>3 DEF Types
<1>4. ASSUME NEW j \in Jobs, Die(j) PROVE Types'
  <2>1. Go(j, "idle", Idle) /\ UNCHANGED <<predictions, now, observed>>
    BY <1>4 DEF Die, End, world
  <2>2. /\ forecasts' = forecasts \/ forecasts' = TornAppend(forecasts)
        /\ finals' = finals \/ finals' = TornAppend(finals)
    BY <1>4 DEF Die
  <2>3. forecasts' \in File(Prophecy) /\ finals' \in File(Verdict)
    BY <2>2, LineTorn DEF Types
  <2> QED BY <2>1, <2>3, IdleType, GoTypes DEF Issuing
<1>5. CASE UNCHANGED vars BY <1>1, <1>5 DEF vars, world, Types
<1> QED BY <1>2, <1>3, <1>4, <1>5, IssueTypes, ResolveTypes DEF Next
-----------------------------------------------------------------------------
(* Forecasts                                                               *)

Alone(script, states) ==
  script \in overlapped \/ \A j, k \in Jobs : pc[j] \in states /\ pc[k] \in states => j = k

\* What an issuer holds: the forecast it goes on with is not in the file yet (one issuer at
\* a time).
NotYetMade(j) ==
  pc[j] \in {"evidence", "append"} =>
    \A k \in DOMAIN forecasts.lines : Key(forecasts.lines[k]) # <<run[j].i, run[j].start>>
MadeOnce ==
  \/ "issue" \in overlapped \/ forecasts.torn # "no"
  \/ Once(forecasts, Key) /\ \A j \in Jobs : NotYetMade(j)

\* What a resolver holds: the keys of all resolutions there are, and of those only.
Knows(j) ==
  /\ pc[j] \in {"take", "series", "resolve"} =>
       \A k \in DOMAIN finals.lines : finals.lines[k].key \in run[j].keys
  /\ pc[j] \in {"series", "resolve"} => Key(Taken(j)) \notin run[j].keys
JudgedOnce ==
  \/ "resolve" \in overlapped \/ finals.torn # "no"
  \/ /\ \A a, b \in DOMAIN finals.lines : finals.lines[a].key = finals.lines[b].key => a = b
     /\ \A j \in Jobs : Knows(j)

\* The cases of a step for the two files and the jobs that write to them.
IssueCases(j) ==
  \/ forecasts' = forecasts /\ pc'[j] \notin {"evidence", "append"}
  \/ /\ forecasts' = forecasts /\ pc[j] = "read" /\ pc'[j] = "evidence" /\ ~Issued(j)
     /\ run'[j].i = run[j].i /\ run'[j].start = run[j].start
  \/ /\ forecasts' = forecasts /\ pc[j] = "evidence" /\ pc'[j] = "append"
     /\ run'[j].i = run[j].i /\ run'[j].start = run[j].start
  \/ /\ forecasts' = With(forecasts, Made(j)) /\ pc[j] = "append"
     /\ pc'[j] \in {"idle", "read"}
  \/ forecasts' = TornAppend(forecasts) /\ pc'[j] = "idle"

ResolveCases(j) ==
  \/ finals' = finals /\ pc'[j] \notin {"take", "series", "resolve"}
  \/ /\ finals' = finals /\ pc'[j] = "take"
     /\ run'[j].keys = {f.key : f \in Range(Lines(finals))}
  \/ /\ finals' = finals /\ pc[j] \in {"take", "series"} /\ run'[j].keys = run[j].keys
     /\ \/ pc'[j] = "take"
        \/ /\ pc'[j] \in {"series", "resolve"} /\ Taken(j)' = Taken(j)
           /\ pc[j] = "take" => Key(Taken(j)) \notin run[j].keys
  \/ /\ finals' = With(finals, Judged(j)) /\ pc[j] = "resolve" /\ pc'[j] = "take"
     /\ run'[j].keys = run[j].keys \cup {Key(Taken(j))}
  \/ finals' = TornAppend(finals) /\ pc'[j] = "idle"

\* Nobody becomes an issuer (a resolver) beside another one unnoticed.
AloneCases(j, script, states) ==
  /\ overlapped \subseteq overlapped'
  /\ pc'[j] \in states => pc[j] \in states \/ script \in overlapped'
                            \/ \A k \in Jobs : pc[k] \notin states

JobCases(j) ==
  /\ predictions' = predictions /\ Others(j) /\ IssueCases(j) /\ ResolveCases(j)
  /\ AloneCases(j, "issue", Issuing) /\ AloneCases(j, "resolve", Resolving)

Quiet == UNCHANGED <<predictions, forecasts, finals, pc, run, overlapped>>

LEMMA IssueStep ==
  ASSUME Types, NEW j \in Jobs, Issue(j)
  PROVE  JobCases(j)
<1> USE DEF world, files
<1>1. CASE StartIssuing(j)
  <2>1. Following(j, 0) /\ 0 <= Len(predictions) BY <1>1 DEF StartIssuing, Types
  <2>2. pc'[j] \in {"idle", "read"} /\ Others(j) BY <2>1, FollowingType DEF Others
  <2>3. AloneCases(j, "issue", Issuing) /\ AloneCases(j, "resolve", Resolving)
    BY <1>1, <2>2 DEF StartIssuing, Begin, AloneCases, Issuing, Resolving
  <2>4. UNCHANGED <<predictions, forecasts, finals>> BY <1>1 DEF StartIssuing, Begin
  <2> QED BY <2>2, <2>3, <2>4 DEF JobCases, IssueCases, ResolveCases
<1>2. ASSUME pc[j] \in Issuing, Following(j, run[j].i), UNCHANGED <<predictions, overlapped, finals>>
      PROVE  /\ pc'[j] \in {"idle", "read"} /\ Others(j) /\ ResolveCases(j)
             /\ AloneCases(j, "issue", Issuing) /\ AloneCases(j, "resolve", Resolving)
  <2>1. run[j].i \in Nat /\ run[j].i <= Len(predictions) BY <1>2 DEF Types
  <2>2. pc'[j] \in {"idle", "read"} /\ Others(j) BY <1>2, <2>1, FollowingType DEF Others
  <2> QED BY <1>2, <2>2 DEF ResolveCases, AloneCases, Issuing, Resolving
<1>3. CASE IssueRead(j)
  <2>1. pc[j] = "read" /\ UNCHANGED <<predictions, overlapped, forecasts, finals>>
    BY <1>3 DEF IssueRead
  <2>2. CASE Following(j, run[j].i)
    BY <1>2, <2>1, <2>2 DEF JobCases, IssueCases, Issuing
  <2>3. CASE ~Issued(j) /\ Go(j, "evidence", [run[j] EXCEPT !.issued = now])
    <3>1. pc'[j] = "evidence" /\ run'[j] = [run[j] EXCEPT !.issued = now] /\ Others(j)
      BY <2>3, GoStep
    <3>2. run[j] \in Run BY DEF Types
    <3>3. run'[j].i = run[j].i /\ run'[j].start = run[j].start BY <3>1, <3>2 DEF Run
    <3> QED BY <2>1, <2>3, <3>1, <3>3
            DEF JobCases, IssueCases, ResolveCases, AloneCases, Issuing, Resolving
  <2> QED BY <1>3, <2>2, <2>3 DEF IssueRead
<1>4. CASE IssueEvidence(j)
  <2>1. pc[j] = "evidence" /\ UNCHANGED <<predictions, overlapped, forecasts, finals>>
    BY <1>4 DEF IssueEvidence
  <2>2. CASE Following(j, run[j].i)
    BY <1>2, <2>1, <2>2 DEF JobCases, IssueCases, Issuing
  <2>3. CASE ~Invalid(j) /\ Go(j, "append", run[j])
    <3>1. pc'[j] = "append" /\ run'[j] = run[j] /\ Others(j) BY <2>3, GoStep
    <3> QED BY <2>1, <3>1
            DEF JobCases, IssueCases, ResolveCases, AloneCases, Issuing, Resolving
  <2> QED BY <1>4, <2>2, <2>3 DEF IssueEvidence
<1>5. CASE IssueAppend(j)
  <2>1. pc[j] = "append" /\ forecasts' = With(forecasts, Made(j)) /\ Following(j, run[j].i)
        /\ UNCHANGED <<predictions, overlapped, finals>>
    BY <1>5 DEF IssueAppend, Made
  <2> QED BY <1>2, <2>1 DEF JobCases, IssueCases, Issuing
<1> QED BY <1>1, <1>3, <1>4, <1>5 DEF Issue

LEMMA ResolveStep ==
  ASSUME Types, NEW j \in Jobs, Resolve(j)
  PROVE  JobCases(j)
<1> USE DEF world, files
<1>0. run[j] \in Run BY DEF Types
<1>1. CASE StartResolving(j)
  <2>1. pc'[j] = "open" /\ Others(j) BY <1>1, GoStep DEF StartResolving
  <2>2. AloneCases(j, "issue", Issuing) /\ AloneCases(j, "resolve", Resolving)
    BY <1>1, <2>1 DEF StartResolving, Begin, AloneCases, Issuing, Resolving
  <2>3. UNCHANGED <<predictions, forecasts, finals>> BY <1>1 DEF StartResolving, Begin
  <2> QED BY <2>1, <2>2, <2>3 DEF JobCases, IssueCases, ResolveCases
<1>2. ASSUME NEW at \in {"idle"} \cup Resolving, NEW r, Go(j, at, r),
             pc[j] \in Resolving, UNCHANGED <<predictions, overlapped, forecasts>>
      PROVE  /\ pc'[j] = at /\ run'[j] = r /\ predictions' = predictions /\ Others(j)
             /\ IssueCases(j) /\ AloneCases(j, "issue", Issuing) /\ AloneCases(j, "resolve", Resolving)
  <2>1. pc'[j] = at /\ run'[j] = r /\ Others(j) BY <1>2, GoStep
  <2> QED BY <1>2, <2>1 DEF IssueCases, AloneCases, Issuing, Resolving
<1>3. CASE ReadForecasts(j)
  <2>1. /\ pc[j] = "open" /\ UNCHANGED <<predictions, overlapped, forecasts, finals>>
        /\ Go(j, "finals", [run[j] EXCEPT !.list = Lines(forecasts)])
    BY <1>3 DEF ReadForecasts
  <2> QED BY <1>2, <2>1 DEF JobCases, ResolveCases, Resolving
<1>4. CASE ReadFinals(j)
  <2>1. PICK r : r = [run[j] EXCEPT !.i = 1, !.keys = {f.key : f \in Range(Lines(finals))}]
    OBVIOUS
  <2>2. /\ pc[j] = "finals" /\ UNCHANGED <<predictions, overlapped, forecasts, finals>>
        /\ Go(j, "take", r)
    BY <1>4, <2>1 DEF ReadFinals
  <2>3. r.keys = {f.key : f \in Range(Lines(finals))} BY <1>0, <2>1 DEF Run
  <2> QED BY <1>2, <2>2, <2>3 DEF JobCases, ResolveCases, Resolving
<1>5. ASSUME pc[j] \in {"take", "series"}, Go(j, "take", Further(j)),
             UNCHANGED <<predictions, overlapped, forecasts, finals>>
      PROVE  JobCases(j)
  <2>1. Further(j).keys = run[j].keys BY <1>0, FurtherType
  <2> QED BY <1>2, <1>5, <2>1 DEF JobCases, ResolveCases, Resolving
<1>6. CASE TakeForecast(j)
  <2>1. pc[j] = "take" /\ UNCHANGED <<predictions, overlapped, forecasts, finals>>
    BY <1>6 DEF TakeForecast
  <2>2. CASE End(j) BY <1>2, <2>1, <2>2 DEF End, JobCases, ResolveCases, Resolving
  <2>3. CASE Go(j, "take", Further(j)) BY <1>5, <2>1, <2>3
  <2>4. CASE Key(Taken(j)) \notin run[j].keys /\ Go(j, "series", run[j])
    <3>1. Taken(j)' = Taken(j) BY <2>4, GoStep DEF Taken
    <3> QED BY <1>2, <2>1, <2>4, <3>1 DEF JobCases, ResolveCases, Resolving
  <2> QED BY <1>6, <2>2, <2>3, <2>4 DEF TakeForecast
<1>7. CASE ReadSeries(j)
  <2>1. pc[j] = "series" /\ UNCHANGED <<predictions, overlapped, forecasts, finals>>
    BY <1>7 DEF ReadSeries
  <2>2. CASE Go(j, "take", Further(j)) BY <1>5, <2>1, <2>2
  <2>3. ASSUME NEW outcome, Go(j, "resolve", [run[j] EXCEPT !.outcome = outcome, !.readAt = now])
        PROVE  JobCases(j)
    <3>1. PICK r : r = [run[j] EXCEPT !.outcome = outcome, !.readAt = now] OBVIOUS
    <3>2. r.i = run[j].i /\ r.list = run[j].list /\ r.keys = run[j].keys BY <1>0, <3>1 DEF Run
    <3>3. pc'[j] = "resolve" /\ run'[j] = r BY <2>3, <3>1, GoStep
    <3>4. Taken(j)' = Taken(j) BY <3>2, <3>3 DEF Taken
    <3> QED BY <1>2, <2>1, <2>3, <3>2, <3>3, <3>4 DEF JobCases, ResolveCases, Resolving
  <2> QED BY <1>7, <2>2, <2>3 DEF ReadSeries
<1>8. CASE AppendFinal(j)
  <2>1. /\ pc[j] = "resolve" /\ finals' = With(finals, Judged(j))
        /\ UNCHANGED <<predictions, overlapped, forecasts>>
    BY <1>8 DEF AppendFinal, Judged
  <2>2. PICK r : r = [Further(j) EXCEPT !.keys = KeysNow(j)] OBVIOUS
  <2>3. r.keys = run[j].keys \cup {Key(Taken(j))}
    <3>1. Further(j) \in Run BY <1>0, FurtherType
    <3> QED BY <2>2, <3>1 DEF KeysNow, Run
  <2>4. Go(j, "take", r) BY <1>8, <2>2 DEF AppendFinal
  <2> QED BY <1>2, <2>1, <2>3, <2>4 DEF JobCases, ResolveCases, Resolving
<1> QED BY <1>1, <1>3, <1>4, <1>6, <1>7, <1>8 DEF Resolve

LEMMA StepCases ==
  ASSUME Types, [Next]_vars
  PROVE  Quiet \/ \E j \in Jobs : JobCases(j)
<1>1. ASSUME NEW j \in Jobs, Die(j) PROVE JobCases(j)
  <2>1. pc'[j] = "idle" /\ Others(j) BY <1>1, GoStep DEF Die, End
  <2>2. /\ forecasts' = forecasts \/ forecasts' = TornAppend(forecasts)
        /\ finals' = finals \/ finals' = TornAppend(finals)
        /\ UNCHANGED <<predictions, overlapped>>
    BY <1>1 DEF Die, world
  <2> QED BY <2>1, <2>2 DEF JobCases, IssueCases, ResolveCases, AloneCases, Issuing, Resolving
<1>2. Tick \/ Observe \/ UNCHANGED vars => Quiet
  BY DEF Tick, Observe, vars, world, files, Quiet
<1> QED BY <1>1, <1>2, IssueStep, ResolveStep DEF Next
-----------------------------------------------------------------------------
(* The invariants                                                          *)

LEMMA AloneStep ==
  ASSUME NEW CONSTANT script, NEW CONSTANT states, Alone(script, states), NEW j \in Jobs,
         Others(j), AloneCases(j, script, states)
  PROVE  Alone(script, states)'
BY DEF Alone, AloneCases, Others

LEMMA MadeOnceStep ==
  ASSUME Types, Types', Alone("issue", Issuing), MadeOnce, NEW j \in Jobs, JobCases(j)
  PROVE  MadeOnce'
<1>1. Others(j) /\ IssueCases(j) /\ overlapped \subseteq overlapped'
  BY DEF JobCases, AloneCases
<1>2. forecasts \in File(Prophecy) /\ run[j] \in Run /\ DOMAIN forecasts.lines \subseteq Nat
  BY DEF Types, File
<1>3. SUFFICES ASSUME "issue" \notin overlapped', forecasts'.torn = "no" PROVE MadeOnce'
  BY DEF MadeOnce
<1>4. CASE forecasts' = forecasts
  <2>1. Once(forecasts, Key) /\ \A k \in Jobs : NotYetMade(k)
    BY <1>1, <1>3, <1>4 DEF MadeOnce
  <2>2. (\A k \in Jobs \ {j} : NotYetMade(k))' BY <1>1, <1>4, <2>1 DEF NotYetMade, Others
  <2>3. NotYetMade(j)'
    <3>1. CASE pc'[j] \notin {"evidence", "append"} BY <3>1 DEF NotYetMade
    <3>2. CASE ~Issued(j) /\ run'[j].i = run[j].i /\ run'[j].start = run[j].start
      <4>1. Lines(forecasts) = forecasts.lines BY <1>3, <1>4 DEF Lines
      <4>2. \A k \in DOMAIN forecasts.lines :
              Key(forecasts.lines[k]) # <<run[j].i, run[j].start>>
        BY <3>2, <4>1 DEF Issued, Range
      <4> QED BY <1>4, <3>2, <4>2 DEF NotYetMade
    <3>3. CASE pc[j] = "evidence" /\ run'[j].i = run[j].i /\ run'[j].start = run[j].start
      BY <1>4, <2>1, <3>3 DEF NotYetMade
    <3>4. CASE pc[j] = "append" /\ pc'[j] \in {"idle", "read"} BY <3>4 DEF NotYetMade
    <3>5. CASE pc'[j] = "idle" BY <3>5 DEF NotYetMade
    <3> QED BY <1>1, <3>1, <3>2, <3>3, <3>4, <3>5 DEF IssueCases
  <2> QED BY <1>4, <2>1, <2>2, <2>3 DEF MadeOnce, Once
<1>5. CASE /\ forecasts' = With(forecasts, Made(j)) /\ pc[j] = "append"
           /\ pc'[j] \in {"idle", "read"}
  <2>1. Made(j) \in Prophecy BY <1>5, MadeType
  <2>2. forecasts.torn = "no" /\ forecasts'.lines = Append(forecasts.lines, Made(j))
    BY <1>2, <1>3, <1>5, <2>1, LineAppended
  <2>3. Once(forecasts, Key) /\ NotYetMade(j) BY <1>1, <1>3, <2>2 DEF MadeOnce
  <2>4. Key(Made(j)) = <<run[j].i, run[j].start>> BY DEF Key, Made
  <2>5. PICK new \in Prophecy : new = Made(j) BY <2>1
  <2>6. \A k \in DOMAIN forecasts.lines : Key(forecasts.lines[k]) # Key(new)
    BY <1>5, <2>3, <2>4, <2>5 DEF NotYetMade
  <2>7. PICK lines \in Seq(Prophecy) : lines = forecasts.lines BY <1>2 DEF File
  <2>8. \A a, b \in DOMAIN Append(lines, new) :
          Key(Append(lines, new)[a]) = Key(Append(lines, new)[b]) => a = b
    <3>1. \A a, b \in DOMAIN lines : Key(lines[a]) = Key(lines[b]) => a = b
      BY <2>3, <2>7 DEF Once
    <3>2. \A a \in DOMAIN lines : Key(lines[a]) # Key(new) BY <2>6, <2>7
    <3>3. /\ DOMAIN Append(lines, new) = DOMAIN lines \cup {Len(lines) + 1}
          /\ Append(lines, new)[Len(lines) + 1] = new
          /\ \A a \in DOMAIN lines : Append(lines, new)[a] = lines[a]
      OBVIOUS
    <3> QED BY <3>1, <3>2, <3>3
  <2>9. Once(forecasts, Key)' BY <2>2, <2>5, <2>7, <2>8 DEF Once, Key
  <2>10. \A k \in Jobs \ {j} : pc[k] \notin Issuing
    BY <1>1, <1>3, <1>5 DEF Alone, Issuing
  <2>11. \A k \in Jobs : NotYetMade(k)' BY <1>1, <1>5, <2>10 DEF NotYetMade, Others, Issuing
  <2> QED BY <2>9, <2>11 DEF MadeOnce
<1>6. CASE forecasts' = TornAppend(forecasts) BY <1>2, <1>3, <1>6, LineTorn
<1> QED BY <1>1, <1>4, <1>5, <1>6 DEF IssueCases

LEMMA JudgedOnceStep ==
  ASSUME Types, Types', Alone("resolve", Resolving), JudgedOnce, NEW j \in Jobs, JobCases(j)
  PROVE  JudgedOnce'
<1>1. Others(j) /\ ResolveCases(j) /\ overlapped \subseteq overlapped'
  BY DEF JobCases, AloneCases
<1>2. finals \in File(Verdict) BY DEF Types
<1>3. SUFFICES ASSUME "resolve" \notin overlapped', finals'.torn = "no" PROVE JudgedOnce'
  BY DEF JudgedOnce
<1>4. CASE finals' = finals
  <2>1. /\ \A a, b \in DOMAIN finals.lines : finals.lines[a].key = finals.lines[b].key => a = b
        /\ \A k \in Jobs : Knows(k)
    BY <1>1, <1>3, <1>4 DEF JudgedOnce
  <2>2. \A k \in Jobs \ {j} : Knows(k)' BY <1>1, <1>4, <2>1 DEF Knows, Others, Taken, Key
  <2>3. Knows(j)'
    <3>1. CASE pc'[j] \notin {"take", "series", "resolve"} BY <3>1 DEF Knows
    <3>2. CASE pc'[j] = "take" /\ run'[j].keys = {f.key : f \in Range(Lines(finals))}
      <4>1. Lines(finals) = finals.lines BY <1>3, <1>4 DEF Lines
      <4>2. \A k \in DOMAIN finals.lines : finals.lines[k].key \in run'[j].keys
        BY <3>2, <4>1 DEF Range
      <4> QED BY <1>4, <3>2, <4>2 DEF Knows
    <3>3. CASE pc[j] \in {"take", "series"} /\ run'[j].keys = run[j].keys /\ pc'[j] = "take"
      BY <1>4, <2>1, <3>3 DEF Knows
    <3>4. CASE /\ pc[j] \in {"take", "series"} /\ run'[j].keys = run[j].keys
               /\ pc'[j] \in {"series", "resolve"} /\ Taken(j)' = Taken(j)
               /\ pc[j] = "take" => Key(Taken(j)) \notin run[j].keys
      <4>1. Key(Taken(j)) \notin run[j].keys BY <2>1, <3>4 DEF Knows
      <4>2. \A k \in DOMAIN finals.lines : finals.lines[k].key \in run[j].keys
        BY <2>1, <3>4 DEF Knows
      <4>3. Key(Taken(j))' = Key(Taken(j)) BY <3>4 DEF Key
      <4> QED BY <1>4, <3>4, <4>1, <4>2, <4>3 DEF Knows
    <3>5. CASE pc[j] = "resolve" /\ pc'[j] = "take" /\ run'[j].keys = run[j].keys \cup {Key(Taken(j))}
      BY <1>4, <2>1, <3>5 DEF Knows
    <3> QED BY <1>1, <3>1, <3>2, <3>3, <3>4, <3>5 DEF ResolveCases
  <2> QED BY <1>4, <2>1, <2>2, <2>3 DEF JudgedOnce
<1>5. CASE /\ finals' = With(finals, Judged(j)) /\ pc[j] = "resolve" /\ pc'[j] = "take"
           /\ run'[j].keys = run[j].keys \cup {Key(Taken(j))}
  <2>1. PICK new \in Verdict : new = Judged(j) BY <1>5, JudgedType
  <2>2. finals.torn = "no" /\ finals'.lines = Append(finals.lines, new)
    BY <1>2, <1>3, <1>5, <2>1, LineAppended
  <2>3. /\ \A a, b \in DOMAIN finals.lines : finals.lines[a].key = finals.lines[b].key => a = b
        /\ Knows(j)
    BY <1>1, <1>3, <2>2 DEF JudgedOnce
  <2>4. new.key = Key(Taken(j)) BY <2>1 DEF Judged
  <2>5. \A k \in DOMAIN finals.lines : finals.lines[k].key # new.key /\ finals.lines[k].key \in run[j].keys
    BY <1>5, <2>3, <2>4 DEF Knows
  <2>6. PICK lines \in Seq(Verdict) : lines = finals.lines BY <1>2 DEF File
  <2>7. /\ DOMAIN Append(lines, new) = DOMAIN lines \cup {Len(lines) + 1}
        /\ Append(lines, new)[Len(lines) + 1] = new
        /\ \A a \in DOMAIN lines : Append(lines, new)[a] = lines[a]
    OBVIOUS
  <2>8. \A a, b \in DOMAIN finals'.lines : finals'.lines[a].key = finals'.lines[b].key => a = b
    BY <2>2, <2>3, <2>5, <2>6, <2>7
  <2>9. \A k \in DOMAIN finals'.lines : finals'.lines[k].key \in run'[j].keys
    BY <1>5, <2>2, <2>4, <2>5, <2>6, <2>7
  <2>10. \A k \in Jobs \ {j} : pc[k] \notin Resolving
    BY <1>1, <1>3, <1>5 DEF Alone, Resolving
  <2>11. \A k \in Jobs \ {j} : Knows(k)' BY <1>1, <2>10 DEF Knows, Others, Resolving
  <2>12. Knows(j)' BY <1>5, <2>9 DEF Knows
  <2> QED BY <2>8, <2>11, <2>12 DEF JudgedOnce
<1>6. CASE finals' = TornAppend(finals) BY <1>2, <1>3, <1>6, LineTorn
<1> QED BY <1>1, <1>4, <1>5, <1>6 DEF ResolveCases
-----------------------------------------------------------------------------
Inv ==
  /\ Types
  /\ Alone("issue", Issuing) /\ Alone("resolve", Resolving)
  /\ MadeOnce /\ JudgedOnce

LEMMA Initial == Init => Inv
<1> SUFFICES ASSUME Init PROVE Inv OBVIOUS
<1>1. /\ forecasts.lines = <<>> /\ finals.lines = <<>>
      /\ \A j \in Jobs : pc[j] = "idle"
  BY DEF Init, EmptyFile
<1>2. Alone("issue", Issuing) /\ Alone("resolve", Resolving)
  BY <1>1 DEF Alone, Issuing, Resolving
<1>3. MadeOnce BY <1>1 DEF MadeOnce, Once, NotYetMade
<1>4. JudgedOnce BY <1>1 DEF JudgedOnce, Knows
<1> QED BY <1>2, <1>3, <1>4, TypesInit DEF Inv

LEMMA Step ==
  ASSUME Inv, [Next]_vars
  PROVE  Inv'
<1> USE DEF Inv
<1>1. Types' BY TypesStep
<1>2. CASE Quiet
  <2>1. (Alone("issue", Issuing) /\ Alone("resolve", Resolving))' BY <1>2 DEF Quiet, Alone
  <2>2. MadeOnce' BY <1>2 DEF Quiet, MadeOnce, Once, NotYetMade, Key
  <2>4. JudgedOnce' BY <1>2 DEF Quiet, JudgedOnce, Knows, Taken, Key
  <2> QED BY <1>1, <2>1, <2>2, <2>4
<1>3. ASSUME NEW j \in Jobs, JobCases(j) PROVE Inv'
  <2>1. (Alone("issue", Issuing) /\ Alone("resolve", Resolving))'
    BY <1>3, AloneStep DEF JobCases, Issuing, Resolving
  <2> QED BY <1>1, <1>3, <2>1, MadeOnceStep, JudgedOnceStep
<1> QED BY <1>2, <1>3, StepCases

LEMMA Inductive == Spec => []Inv
BY Initial, Step, PTL DEF Spec

\* As long as two runs of a script are not in progress together and no crash tore a line of
\* its file, a prediction gets one forecast for a window and a forecast one resolution,
\* however often the scripts are started and killed (issue-forecasts.mjs, resolve-forecasts.mjs:
\* both look for the key before they append).
THEOREM OneForecastOneResolution == Spec => []RecordedOnce
<1>1. Inv => RecordedOnce BY DEF Inv, MadeOnce, JudgedOnce, RecordedOnce, Once
<1> QED BY <1>1, Inductive, PTL
-----------------------------------------------------------------------------
(* Outcomes stand                                                          *)

\* An outcome judged, at readAt, after the window of f closed: what is observed later lies
\* outside the window, unless it came in late.
Stands(f, outcome, readAt) ==
  /\ readAt <= now /\ WindowEnd(f) <= readAt
  /\ readAt = WindowEnd(f) \/ InWindow(f) \cap late # {} \/ outcome \in Outcomes(InWindow(f))
Of(key) == [p |-> key[1], start |-> key[2]]

LinesStand ==
  \A r \in Range(finals.lines) : r.end = WindowEnd(Of(r.key)) /\ Stands(Of(r.key), r.outcome, r.readAt)
RunStands(j) ==
  /\ pc[j] = "series" => WindowEnd(Taken(j)) <= now
  /\ pc[j] = "resolve" => Stands(Taken(j), run[j].outcome, run[j].readAt)
Judgement == LinesStand /\ \A j \in Jobs : RunStands(j)

\* The clock goes on, and an observation of this instant, or a late one, may come in.
Outside ==
  /\ now' \in Nat /\ now <= now' /\ predictions' = predictions /\ late \subseteq late'
  /\ \/ observed' = observed
     \/ \E o \in Observations : observed' = observed \cup {o} /\ (o.at = now \/ o \in late')

LEMMA StandsStays ==
  ASSUME Types, Outside, NEW f, f.start \in Int, f.p \in DOMAIN predictions,
         NEW outcome, NEW readAt \in Int, Stands(f, outcome, readAt)
  PROVE  Stands(f, outcome, readAt)'
<1>1. WindowEnd(f) \in Int
  <2>1. predictions[f.p] \in Predictions BY DEF Types
  <2>2. predictions[f.p].days \in Nat BY <2>1 DEF Predictions
  <2>3. predictions[f.p].days * DayLength \in Int BY <2>2, ForecastsAssumption
  <2> QED BY <2>3 DEF WindowEnd, Prediction
<1>2. PICK e \in Int : e = WindowEnd(f) BY <1>1
<1>3. WindowEnd(f)' = e BY <1>2 DEF WindowEnd, Prediction, Outside
<1>4. now \in Nat /\ now' \in Nat /\ now <= now' /\ readAt <= now /\ e <= readAt
  BY <1>2 DEF Types, Outside, Stands
<1>5. readAt <= now' /\ e <= readAt BY <1>4
<1>6. CASE readAt = e BY <1>3, <1>5, <1>6 DEF Stands
<1>7. CASE InWindow(f) \cap late # {}
  <2>1. InWindow(f) \subseteq InWindow(f)' BY <1>2, <1>3 DEF InWindow, Outside
  <2>2. InWindow(f)' \cap late' # {} BY <1>7, <2>1 DEF Outside
  <2> QED BY <1>3, <1>5, <2>2 DEF Stands
<1>8. CASE readAt # e /\ outcome \in Outcomes(InWindow(f))
  <2>1. CASE observed' = observed
    <3>1. InWindow(f)' = InWindow(f) BY <1>2, <1>3, <2>1 DEF InWindow
    <3>2. Outcomes(InWindow(f))' = Outcomes(InWindow(f)) BY <3>1 DEF Outcomes, Slopes, Firsts, Lasts
    <3> QED BY <1>3, <1>5, <1>8, <3>2 DEF Stands
  <2>2. ASSUME NEW o \in Observations, observed' = observed \cup {o}, o.at = now \/ o \in late'
        PROVE  Stands(f, outcome, readAt)'
    <3>1. CASE f.start <= o.at /\ o.at <= e
      <4>1. o.at # now BY <1>4, <1>8, <3>1
      <4>2. o \in InWindow(f)' BY <1>3, <2>2, <3>1 DEF InWindow
      <4> QED BY <1>3, <1>5, <2>2, <4>1, <4>2 DEF Stands
    <3>2. CASE ~(f.start <= o.at /\ o.at <= e)
      <4>1. InWindow(f)' = InWindow(f) BY <1>2, <1>3, <2>2, <3>2 DEF InWindow
      <4>2. Outcomes(InWindow(f))' = Outcomes(InWindow(f)) BY <4>1 DEF Outcomes, Slopes, Firsts, Lasts
      <4> QED BY <1>3, <1>5, <1>8, <4>2 DEF Stands
    <3> QED BY <3>1, <3>2
  <2> QED BY <2>1, <2>2 DEF Outside
<1> QED BY <1>2, <1>6, <1>7, <1>8 DEF Stands

\* A verdict in the file, and a forecast a job has taken, in the form StandsStays wants them.
LEMMA VerdictShape ==
  ASSUME Types, NEW r \in Range(finals.lines)
  PROVE  r \in Verdict /\ Of(r.key).start \in Int /\ Of(r.key).p \in DOMAIN predictions /\ r.readAt \in Int
<1>1. finals.lines \in Seq(Verdict) BY DEF Types, File
<1>2. PICK i \in DOMAIN finals.lines : r = finals.lines[i] BY DEF Range
<1>3. r \in Verdict BY <1>1, <1>2
<1> QED BY <1>3 DEF Verdict, Of

\* While nothing is judged, what is judged stands.
LEMMA OutsideStands ==
  ASSUME Types, Judgement, Outside, UNCHANGED <<finals, pc, run>>
  PROVE  Judgement'
<1>1. ASSUME NEW r \in Range(finals.lines)
      PROVE  r.end = WindowEnd(Of(r.key))' /\ Stands(Of(r.key), r.outcome, r.readAt)'
  <2>1. Stands(Of(r.key), r.outcome, r.readAt) BY DEF Judgement, LinesStand
  <2>2. r.end = WindowEnd(Of(r.key)) BY DEF Judgement, LinesStand
  <2>3. WindowEnd(Of(r.key))' = WindowEnd(Of(r.key)) BY DEF WindowEnd, Prediction, Outside
  <2> QED BY <2>1, <2>2, <2>3, VerdictShape, StandsStays
<1>2. ASSUME NEW j \in Jobs PROVE RunStands(j)'
  <2>1. PICK f, outcome, readAt : f = Taken(j) /\ outcome = run[j].outcome /\ readAt = run[j].readAt OBVIOUS
  <2>2. CASE pc[j] = "series"
    <3>1. f \in Prophecy BY <2>1, <2>2, TakenType DEF Types
    <3>2. WindowEnd(f) <= now BY <2>1, <2>2 DEF Judgement, RunStands
    <3>3. WindowEnd(f) \in Int /\ WindowEnd(f)' = WindowEnd(f)
      BY <3>1, WindowEndType DEF WindowEnd, Prediction, Outside
    <3>4. WindowEnd(f)' <= now' BY <3>2, <3>3 DEF Types, Outside
    <3>5. Taken(j)' = f BY <2>1 DEF Taken
    <3> QED BY <2>2, <3>4, <3>5 DEF RunStands, WindowEnd, Prediction
  <2>3. CASE pc[j] = "resolve"
    <3>1. f \in Prophecy BY <2>1, <2>3, TakenType DEF Types
    <3>2. f.start \in Int /\ f.p \in DOMAIN predictions BY <3>1 DEF Prophecy
    <3>3. readAt \in Int BY <2>1 DEF Types, Run
    <3>4. Stands(f, outcome, readAt) BY <2>1, <2>3 DEF Judgement, RunStands
    <3>5. Stands(f, outcome, readAt)' BY <3>2, <3>3, <3>4, StandsStays
    <3>6. Taken(j)' = f BY <2>1 DEF Taken
    <3> QED BY <2>1, <2>3, <3>5, <3>6 DEF RunStands, Stands, WindowEnd, InWindow, Prediction
  <2>4. CASE pc[j] \notin {"series", "resolve"} BY <2>4 DEF RunStands
  <2> QED BY <2>2, <2>3, <2>4
<1> QED BY <1>1, <1>2 DEF Judgement, LinesStand, Range

LEMMA StandsSame ==
  ASSUME UNCHANGED <<predictions, now, observed, late>>, NEW f, NEW outcome, NEW readAt
  PROVE  /\ Stands(f, outcome, readAt)' <=> Stands(f, outcome, readAt)
         /\ WindowEnd(f)' = WindowEnd(f)
<1>1. WindowEnd(f)' = WindowEnd(f) BY DEF WindowEnd, Prediction
<1>2. InWindow(f)' = InWindow(f) BY <1>1 DEF InWindow
<1> QED BY <1>1, <1>2 DEF Stands

\* A job moves on, and may add the verdict it holds to the file.
LEMMA JobStands ==
  ASSUME Types, Judgement, NEW j \in Jobs, Others(j), UNCHANGED <<predictions, now, observed, late>>,
         RunStands(j)',
         \/ finals'.lines = finals.lines
         \/ pc[j] = "resolve" /\ finals'.lines = Append(finals.lines, Judged(j))
  PROVE  Judgement'
<1>1. ASSUME NEW r \in Range(finals'.lines)
      PROVE  r.end = WindowEnd(Of(r.key))' /\ Stands(Of(r.key), r.outcome, r.readAt)'
  <2>1. CASE r \in Range(finals.lines)
    BY <2>1, StandsSame DEF Judgement, LinesStand
  <2>2. CASE r = Judged(j) /\ pc[j] = "resolve"
    <3>1. PICK f : f = Taken(j) /\ f \in Prophecy BY <2>2, TakenType DEF Types
    <3>2. Stands(f, r.outcome, r.readAt) /\ r.key = <<f.p, f.start>> /\ r.end = WindowEnd(f)
      BY <2>2, <3>1 DEF Judgement, RunStands, Judged, Key
    <3>3. PICK g : g = Of(r.key) /\ g.p = f.p /\ g.start = f.start
      <4>1. PICK key : key = r.key OBVIOUS
      <4>2. key[1] = f.p /\ key[2] = f.start BY <3>2, <4>1
      <4>3. Of(key).p = f.p /\ Of(key).start = f.start BY <4>2 DEF Of
      <4> QED BY <4>1, <4>3
    <3>4. WindowEnd(g) = WindowEnd(f) /\ InWindow(g) = InWindow(f)
      BY <3>3 DEF WindowEnd, Prediction, InWindow
    <3>5. Stands(g, r.outcome, r.readAt) BY <3>2, <3>4 DEF Stands
    <3> QED BY <3>2, <3>3, <3>4, <3>5, StandsSame
  <2>3. r \in Range(finals.lines) \/ (r = Judged(j) /\ pc[j] = "resolve")
    <3>1. finals.lines \in Seq(Verdict) BY DEF Types, File
    <3>2. PICK i \in DOMAIN finals'.lines : r = finals'.lines[i] BY DEF Range
    <3>3. CASE finals'.lines = finals.lines
      <4>1. r \in Range(finals.lines) BY <3>2, <3>3 DEF Range
      <4> QED BY <4>1
    <3>4. CASE pc[j] = "resolve" /\ finals'.lines = Append(finals.lines, Judged(j))
      <4>1. (i \in DOMAIN finals.lines /\ r = finals.lines[i]) \/ r = Judged(j) BY <3>1, <3>2, <3>4
      <4> QED BY <3>4, <4>1 DEF Range
    <3> QED BY <3>3, <3>4
  <2> QED BY <2>1, <2>2, <2>3
<1>2. ASSUME NEW k \in Jobs \ {j} PROVE RunStands(k)'
  <2>1. pc'[k] = pc[k] /\ run'[k] = run[k] BY DEF Others
  <2>2. PICK f, outcome, readAt : f = Taken(k) /\ outcome = run[k].outcome /\ readAt = run[k].readAt OBVIOUS
  <2>3. Taken(k)' = f BY <2>1, <2>2 DEF Taken
  <2>4. RunStands(k) BY DEF Judgement
  <2>5. WindowEnd(f)' = WindowEnd(f) /\ (Stands(f, outcome, readAt)' <=> Stands(f, outcome, readAt))
    BY StandsSame
  <2>6. pc'[k] = "series" => WindowEnd(Taken(k))' <= now'
    BY <2>1, <2>2, <2>3, <2>4, <2>5 DEF RunStands, WindowEnd, Prediction
  <2>7. pc'[k] = "resolve" => Stands(Taken(k), run[k].outcome, run[k].readAt)'
    BY <2>1, <2>2, <2>3, <2>4, <2>5 DEF RunStands, Stands, WindowEnd, InWindow, Prediction
  <2> QED BY <2>6, <2>7 DEF RunStands
<1> QED BY <1>1, <1>2 DEF Judgement, LinesStand, Range

\* What is taken while its window is closed, and judged by the series of the window, stands.
LEMMA TakenStands ==
  ASSUME Types, NEW j \in Jobs, pc[j] = "series", WindowEnd(Taken(j)) <= now,
         NEW outcome \in Outcomes(InWindow(Taken(j)))
  PROVE  Stands(Taken(j), outcome, now)
BY DEF Stands, Types

LEMMA JudgementStep ==
  ASSUME Types, Judgement, [Next]_vars
  PROVE  Judgement'
<1> USE DEF world, files
<1>1. CASE Tick
  BY <1>1, OutsideStands DEF Tick, Outside, Types
<1>2. CASE Observe
  <2>1. now \in Nat /\ UNCHANGED <<predictions, now, finals, pc, run>> BY <1>2 DEF Observe, Types
  <2>2. PICK at \in 0 .. now, entity \in Entities, value \in Values :
          /\ observed' = observed \cup {[at |-> at, entity |-> entity, value |-> value]}
          /\ \/ at = now /\ late' = late
             \/ late' = late \cup {[at |-> at, entity |-> entity, value |-> value]}
    BY <1>2 DEF Observe
  <2>3. PICK o : o = [at |-> at, entity |-> entity, value |-> value] OBVIOUS
  <2>4. o \in Observations /\ o.at = at BY <2>1, <2>3 DEF Observations
  <2>5. Outside BY <2>1, <2>2, <2>3, <2>4 DEF Outside
  <2> QED BY <2>1, <2>5, OutsideStands
<1>3. ASSUME NEW j \in Jobs, Issue(j) PROVE Judgement'
  <2>1. UNCHANGED <<predictions, now, observed, late, finals>>
    BY <1>3 DEF Issue, StartIssuing, Begin, IssueRead, IssueEvidence, IssueAppend
  <2>2. /\ \/ \E i \in Nat : i <= Len(predictions) /\ Following(j, i)
           \/ \E at \in {"evidence", "append"} : \E r : Go(j, at, r)
    <3>1. CASE StartIssuing(j)
      <4>1. Following(j, 0) /\ 0 <= Len(predictions) BY <3>1 DEF StartIssuing, Types
      <4> QED BY <4>1
    <3>2. CASE IssueRead(j) \/ IssueEvidence(j) \/ IssueAppend(j)
      <4>1. run[j].i \in Nat /\ run[j].i <= Len(predictions)
        BY <3>2 DEF IssueRead, IssueEvidence, IssueAppend, Types, Issuing
      <4>2. Following(j, run[j].i) \/ \E at \in {"evidence", "append"} : \E r : Go(j, at, r)
        BY <3>2 DEF IssueRead, IssueEvidence, IssueAppend
      <4> QED BY <4>1, <4>2
    <3> QED BY <1>3, <3>1, <3>2 DEF Issue
  <2>3. Others(j) /\ pc'[j] \notin {"series", "resolve"}
    BY <2>2, FollowingType, GoStep DEF Others
  <2> QED BY <2>1, <2>3, JobStands DEF RunStands
<1>4. ASSUME NEW j \in Jobs, NEW at, NEW r, Go(j, at, r), at \notin {"series", "resolve"},
             UNCHANGED <<predictions, now, observed, late>>,
             \/ finals'.lines = finals.lines
             \/ pc[j] = "resolve" /\ finals'.lines = Append(finals.lines, Judged(j))
      PROVE  Judgement'
  <2>1. Others(j) /\ pc'[j] \notin {"series", "resolve"} BY <1>4, GoStep
  <2> QED BY <1>4, <2>1, JobStands DEF RunStands
<1>5. ASSUME NEW j \in Jobs, TakeForecast(j) PROVE Judgement'
  <2>1. pc[j] = "take" /\ UNCHANGED <<predictions, now, observed, late, finals>>
    BY <1>5 DEF TakeForecast
  <2>2. CASE Go(j, "idle", Idle) \/ Go(j, "take", Further(j)) BY <1>4, <2>1, <2>2
  <2>3. CASE Go(j, "series", run[j]) /\ ~StillOpen(Taken(j)) /\ ~(run[j].i > Len(run[j].list))
    <3>1. pc'[j] = "series" /\ run'[j] = run[j] /\ Others(j) BY <2>3, GoStep
    <3>2. Taken(j)' = Taken(j) BY <3>1 DEF Taken
    <3>3. run[j].i \in DOMAIN run[j].list
      <4>1. run[j].i # 0 /\ run[j] \in Run BY <2>1 DEF Types
      <4>2. run[j].i \in Nat /\ run[j].list \in Seq(Prophecy) BY <4>1 DEF Run
      <4> QED BY <2>3, <4>1, <4>2
    <3>4. WindowEnd(Taken(j)) \in Int BY <3>3, TakenType, WindowEndType
    <3>5. WindowEnd(Taken(j)) <= now BY <2>3, <3>4 DEF StillOpen, Types
    <3>6. WindowEnd(Taken(j))' = WindowEnd(Taken(j)) BY <2>1, <3>2 DEF WindowEnd, Prediction
    <3> QED BY <2>1, <3>1, <3>5, <3>6, JobStands DEF RunStands
  <2> QED BY <1>5, <2>2, <2>3 DEF TakeForecast, End
<1>6. ASSUME NEW j \in Jobs, ReadSeries(j) PROVE Judgement'
  <2>1. pc[j] = "series" /\ UNCHANGED <<predictions, now, observed, late, finals>>
    BY <1>6 DEF ReadSeries
  <2>2. CASE Go(j, "take", Further(j)) BY <1>4, <2>1, <2>2
  <2>3. ASSUME NEW outcome \in Outcomes(InWindow(Taken(j))),
               Go(j, "resolve", [run[j] EXCEPT !.outcome = outcome, !.readAt = now])
        PROVE  Judgement'
    <3>1. PICK r : r = [run[j] EXCEPT !.outcome = outcome, !.readAt = now] OBVIOUS
    <3>2. run[j] \in Run BY DEF Types
    <3>3. r.i = run[j].i /\ r.list = run[j].list /\ r.outcome = outcome /\ r.readAt = now
      BY <3>1, <3>2 DEF Run
    <3>4. pc'[j] = "resolve" /\ run'[j] = r /\ Others(j) BY <2>3, <3>1, GoStep
    <3>5. PICK f : f = Taken(j) /\ Taken(j)' = f BY <3>3, <3>4 DEF Taken
    <3>6. WindowEnd(Taken(j)) <= now BY <2>1 DEF Judgement, RunStands
    <3>7. PICK t : t = now OBVIOUS
    <3>8. Stands(f, outcome, t) BY <2>1, <3>5, <3>6, <3>7, TakenStands
    <3>9. Stands(f, outcome, t)' BY <2>1, <3>8, StandsSame
    <3>10. Stands(Taken(j), run[j].outcome, run[j].readAt)'
      BY <3>3, <3>4, <3>5, <3>7, <3>9 DEF Stands, WindowEnd, InWindow, Prediction
    <3> QED BY <2>1, <3>4, <3>10, JobStands DEF RunStands
  <2> QED BY <1>6, <2>2, <2>3 DEF ReadSeries
<1>7. ASSUME NEW j \in Jobs, AppendFinal(j) PROVE Judgement'
  <2>1. /\ pc[j] = "resolve" /\ finals' = With(finals, Judged(j))
        /\ UNCHANGED <<predictions, now, observed, late>>
        /\ \E r : Go(j, "take", r)
    BY <1>7 DEF AppendFinal, Judged
  <2>2. finals \in File(Verdict) BY DEF Types
  <2>3. finals'.lines = finals.lines \/ finals'.lines = Append(finals.lines, Judged(j))
    BY <2>1, <2>2 DEF With, File
  <2> QED BY <1>4, <2>1, <2>3
<1>8. ASSUME NEW j \in Jobs, StartResolving(j) \/ ReadForecasts(j) \/ ReadFinals(j) PROVE Judgement'
  <2>1. UNCHANGED <<predictions, now, observed, late, finals>>
    BY <1>8 DEF StartResolving, Begin, ReadForecasts, ReadFinals
  <2>2. \E at \in {"open", "finals", "take"} : \E r : Go(j, at, r)
    BY <1>8 DEF StartResolving, ReadForecasts, ReadFinals
  <2> QED BY <1>4, <2>1, <2>2
<1>9. ASSUME NEW j \in Jobs, Die(j) PROVE Judgement'
  <2>1. Go(j, "idle", Idle) /\ UNCHANGED <<predictions, now, observed, late>>
        /\ (finals' = finals \/ finals' = TornAppend(finals))
    BY <1>9 DEF Die, End
  <2>2. finals \in File(Verdict) BY DEF Types
  <2>3. finals'.lines = finals.lines BY <2>1, <2>2 DEF TornAppend, File
  <2> QED BY <1>4, <2>1, <2>3
<1>10. CASE UNCHANGED vars
  <2>1. UNCHANGED <<predictions, now, observed, late, finals, pc, run>> BY <1>10 DEF vars
  <2>2. Outside BY <2>1 DEF Outside, Types
  <2> QED BY <2>1, <2>2, OutsideStands
<1> QED BY <1>1, <1>2, <1>3, <1>5, <1>6, <1>7, <1>8, <1>9, <1>10 DEF Next, Resolve

\* An outcome judged after its window closed is one that the observations of the window allow
\* for ever, if none of them came in late (resolve-forecasts.mjs: a window that is open is
\* passed over, and the series is read up to its end).
THEOREM OutcomesStandForEver == Spec => []OutcomesStand
<1>1. Init => Judgement
  <2> SUFFICES ASSUME Init PROVE Judgement OBVIOUS
  <2>1. finals.lines = <<>> /\ \A j \in Jobs : pc[j] = "idle" BY DEF Init, EmptyFile
  <2>2. Range(finals.lines) = {} BY <2>1 DEF Range
  <2> QED BY <2>1, <2>2 DEF Judgement, LinesStand, RunStands
<1>2. Inv => Types BY DEF Inv
<1>3. Types /\ Judgement /\ [Next]_vars => Judgement' BY JudgementStep
<1>4. Judgement => OutcomesStand
  <2> SUFFICES ASSUME Judgement, NEW r \in Range(finals.lines)
               PROVE  LET S == InWindow([p |-> r.key[1], start |-> r.key[2]])
                      IN r.readAt = r.end \/ S \cap late # {} \/ r.outcome \in Outcomes(S)
    BY DEF OutcomesStand
  <2>1. r.end = WindowEnd(Of(r.key)) /\ Stands(Of(r.key), r.outcome, r.readAt)
    BY DEF Judgement, LinesStand
  <2> QED BY <2>1 DEF Stands, Of
<1> QED BY <1>1, <1>2, <1>3, <1>4, Inductive, PTL DEF Spec
-----------------------------------------------------------------------------
(* What a resolver has been through                                        *)

Resolved(key) == \E r \in Range(finals.lines) : r.key = key
Answered(key) ==
  Resolved(key) \/ \E kind \in {"awaiting_data", "transient_error"} : <<key, kind>> \in attempts

\* The keys it knows are in the file, and what had closed when it began has its answer.
Looked(r) ==
  /\ \A key \in r.keys : Resolved(key)
  /\ \A k \in 1..(r.i - 1) : WindowEnd(r.list[k]) <= r.began => Answered(Key(r.list[k]))

Looking == {"take", "series", "resolve"}
Passes(j) ==
  /\ pc[j] \in Resolving => run[j].began <= now
  /\ pc[j] \in Looking /\ finals.torn = "no" => Looked(run[j])
Passage == \A j \in Jobs : Passes(j)

\* Nothing of what is recorded goes, while the file has no torn line.
Grows ==
  /\ predictions' = predictions /\ now' \in Nat /\ now <= now' /\ attempts \subseteq attempts'
  /\ finals'.torn = "no" =>
       finals.torn = "no" /\ Range(finals.lines) \subseteq Range(finals'.lines)

LEMMA GrowsSame ==
  ASSUME Types, UNCHANGED <<predictions, finals>>, now' = now, attempts \subseteq attempts'
  PROVE  Grows
BY DEF Grows, Types

LEMMA AnsweredStays ==
  ASSUME Grows, finals'.torn = "no", NEW key
  PROVE  (Resolved(key) => Resolved(key)') /\ (Answered(key) => Answered(key)')
<1>1. Resolved(key) => Resolved(key)' BY DEF Grows, Resolved
<1>2. ASSUME NEW kind, <<key, kind>> \in attempts PROVE <<key, kind>> \in attempts' BY <1>2 DEF Grows
<1> QED BY <1>1, <1>2 DEF Answered

LEMMA LookedStays ==
  ASSUME Grows, finals'.torn = "no", NEW r, Looked(r)
  PROVE  Looked(r)'
<1>1. \A key \in r.keys : Resolved(key)' BY AnsweredStays DEF Looked
<1>2. ASSUME NEW k \in 1 .. (r.i - 1), WindowEnd(r.list[k])' <= r.began
      PROVE  Answered(Key(r.list[k]))'
  <2>1. PICK f : f = r.list[k] OBVIOUS
  <2>2. WindowEnd(f)' = WindowEnd(f) BY DEF WindowEnd, Prediction, Grows
  <2>3. PICK key : key = Key(f) OBVIOUS
  <2>4. Answered(key) BY <1>2, <2>1, <2>2, <2>3 DEF Looked
  <2>5. Answered(key)' BY <2>4, AnsweredStays
  <2>6. Key(r.list[k])' = key BY <2>1, <2>3 DEF Key
  <2> QED BY <2>5, <2>6 DEF Answered, Resolved
<1> QED BY <1>1, <1>2 DEF Looked

\* A job that is where it was.
LEMMA PassesStays ==
  ASSUME Types, Grows, NEW j \in Jobs, Passes(j), pc'[j] = pc[j], run'[j] = run[j]
  PROVE  Passes(j)'
<1>1. PICK r : r = run[j] /\ r \in Run BY DEF Types
<1>2. r.began \in Int /\ now \in Nat /\ now' \in Nat /\ now <= now' BY <1>1 DEF Run, Types, Grows
<1>3. ASSUME pc[j] \in Resolving PROVE r.began <= now'
  <2>1. r.began <= now BY <1>1, <1>3 DEF Passes
  <2> QED BY <1>2, <2>1
<1>4. ASSUME pc[j] \in Looking, finals'.torn = "no" PROVE Looked(r)'
  <2>1. finals.torn = "no" BY <1>4 DEF Grows
  <2>2. Looked(r) BY <1>1, <1>4, <2>1 DEF Passes
  <2> QED BY <1>4, <2>2, LookedStays
<1> HIDE DEF Run
<1>5. run'[j] = r BY <1>1
<1> QED BY <1>3, <1>4, <1>5 DEF Passes, Looked, WindowEnd, Prediction

\* A job that goes on to a place.
LEMMA PassesGo ==
  ASSUME Types, NEW j \in Jobs, NEW at, NEW r, Go(j, at, r),
         at \in Resolving => r.began <= now',
         at \in Looking /\ finals'.torn = "no" => Looked(r)'
  PROVE  Passes(j)' /\ Others(j)
<1>1. pc'[j] = at /\ run'[j] = r /\ Others(j) BY GoStep
<1> QED BY <1>1 DEF Passes, Looked, WindowEnd, Prediction

LEMMA JobPasses ==
  ASSUME Types, Passage, Grows, NEW j \in Jobs, Others(j), Passes(j)'
  PROVE  Passage'
<1>1. ASSUME NEW k \in Jobs \ {j} PROVE Passes(k)'
  <2>1. pc'[k] = pc[k] /\ run'[k] = run[k] /\ Passes(k) BY DEF Others, Passage
  <2> QED BY <2>1, PassesStays
<1> QED BY <1>1 DEF Passage

\* A resolver goes on to the next forecast: the one it passes has its answer, too.
LEMMA PassesFurther ==
  ASSUME Types, Passage, Grows, NEW j \in Jobs, pc[j] \in Looking, run[j].i # 0,
         NEW s \in Run, s.i = run[j].i + 1, s.list = run[j].list, s.began = run[j].began,
         Go(j, "take", s), NEW key, key = Key(Taken(j)),
         finals'.torn = "no" => \A other \in s.keys : other = key \/ other \in run[j].keys,
         finals'.torn = "no" /\ key \in s.keys \ run[j].keys => Resolved(key)',
         finals'.torn = "no" /\ WindowEnd(Taken(j)) <= run[j].began => Answered(key)'
  PROVE  Passage'
<1>1. PICK r : r = run[j] /\ r \in Run BY DEF Types
<1>2. r.began <= now /\ r.i \in Nat /\ r.i # 0
  BY <1>1 DEF Passage, Passes, Looking, Resolving, Run
<1>3. s.began <= now'
  <2>1. r.began \in Int /\ now \in Nat /\ now' \in Nat /\ now <= now' BY <1>1 DEF Run, Types, Grows
  <2> HIDE DEF Run
  <2> QED BY <1>1, <1>2, <2>1
<1>4. ASSUME finals'.torn = "no" PROVE Looked(s)'
  <2>1. finals.torn = "no" BY <1>4 DEF Grows
  <2>2. Looked(r) BY <1>1, <2>1 DEF Passage, Passes
  <2>3. Looked(r)' BY <1>4, <2>2, LookedStays
  <2>4. ASSUME NEW other \in s.keys PROVE Resolved(other)'
    <3>1. CASE other \in r.keys BY <2>3, <3>1 DEF Looked
    <3>2. CASE other \notin r.keys
      <4>1. other = key BY <1>1, <1>4, <2>4, <3>2
      <4>2. Resolved(key)' BY <1>1, <1>4, <2>4, <3>2, <4>1
      <4> QED BY <4>1, <4>2
    <3> QED BY <3>1, <3>2
  <2>5. ASSUME NEW k \in 1 .. (s.i - 1), WindowEnd(s.list[k])' <= s.began
        PROVE  Answered(Key(s.list[k]))'
    <3>1. k \in 1 .. (r.i - 1) \/ k = r.i BY <1>1, <1>2
    <3>2. CASE k = r.i
      <4>1. PICK f : f = s.list[k] /\ f = Taken(j) BY <1>1, <3>2 DEF Taken
      <4>2. WindowEnd(f)' = WindowEnd(f) BY DEF WindowEnd, Prediction, Grows
      <4>3. Answered(key)' BY <1>1, <1>4, <2>5, <4>1, <4>2
      <4>4. Key(f) = key /\ Key(s.list[k])' = key BY <4>1 DEF Key
      <4> QED BY <4>3, <4>4 DEF Answered, Resolved
    <3>3. CASE k \in 1 .. (r.i - 1)
      <4>1. s.list[k] = r.list[k] /\ s.began = r.began BY <1>1
      <4>2. WindowEnd(r.list[k])' <= r.began BY <2>5, <4>1
      <4>3. Answered(Key(r.list[k]))' BY <2>3, <3>3, <4>2 DEF Looked
      <4> QED BY <4>1, <4>3
    <3> QED BY <3>1, <3>2, <3>3
  <2> QED BY <2>4, <2>5 DEF Looked
<1>5. Passes(j)' /\ Others(j) BY <1>3, <1>4, PassesGo
<1> QED BY <1>5, JobPasses

LEMMA PassageStep ==
  ASSUME Types, Passage, [Next]_vars
  PROVE  Passage'
<1> USE DEF world, files
<1>1. ASSUME Grows, UNCHANGED <<pc, run>> PROVE Passage'
  <2>1. ASSUME NEW j \in Jobs PROVE Passes(j)'
    <3>1. Passes(j) /\ pc'[j] = pc[j] /\ run'[j] = run[j] BY <1>1 DEF Passage
    <3> QED BY <1>1, <3>1, PassesStays
  <2> QED BY <2>1 DEF Passage
<1>2. CASE Tick
  <2>1. Grows /\ UNCHANGED <<pc, run>> BY <1>2 DEF Tick, Grows, Types
  <2> QED BY <1>1, <2>1
<1>3. CASE Observe
  <2>1. UNCHANGED <<predictions, now, finals, attempts, pc, run>> BY <1>3 DEF Observe
  <2> QED BY <1>1, <2>1, GrowsSame
<1>4. ASSUME NEW j \in Jobs, Others(j), Grows, pc'[j] \notin Resolving PROVE Passage'
  BY <1>4, JobPasses DEF Passes, Looking, Resolving
<1>5. ASSUME NEW j \in Jobs, Issue(j) PROVE Passage'
  <2>1. UNCHANGED <<predictions, now, finals, attempts>>
    BY <1>5 DEF Issue, StartIssuing, Begin, IssueRead, IssueEvidence, IssueAppend
  <2>2. /\ \/ \E i \in Nat : i <= Len(predictions) /\ Following(j, i)
           \/ \E at \in {"evidence", "append"} : \E r : Go(j, at, r)
    <3>1. CASE StartIssuing(j)
      <4>1. Following(j, 0) /\ 0 <= Len(predictions) BY <3>1 DEF StartIssuing, Types
      <4> QED BY <4>1
    <3>2. CASE IssueRead(j) \/ IssueEvidence(j) \/ IssueAppend(j)
      <4>1. run[j].i \in Nat /\ run[j].i <= Len(predictions)
        BY <3>2 DEF IssueRead, IssueEvidence, IssueAppend, Types, Issuing
      <4>2. Following(j, run[j].i) \/ \E at \in {"evidence", "append"} : \E r : Go(j, at, r)
        BY <3>2 DEF IssueRead, IssueEvidence, IssueAppend
      <4> QED BY <4>1, <4>2
    <3> QED BY <1>5, <3>1, <3>2 DEF Issue
  <2>3. Others(j) /\ pc'[j] \in {"idle", "read", "evidence", "append"}
    BY <2>2, FollowingType, GoStep DEF Others
  <2> QED BY <1>4, <2>1, <2>3, GrowsSame DEF Resolving
<1>6. ASSUME NEW j \in Jobs, Go(j, "idle", Idle), Grows PROVE Passage'
  <2>1. Others(j) /\ pc'[j] = "idle" BY <1>6, GoStep
  <2> QED BY <1>4, <1>6, <2>1 DEF Resolving
<1>7. ASSUME NEW j \in Jobs, StartResolving(j) \/ ReadForecasts(j) PROVE Passage'
  <2>1. UNCHANGED <<predictions, now, finals, attempts>>
    BY <1>7 DEF StartResolving, Begin, ReadForecasts
  <2>2. Grows BY <2>1, GrowsSame
  <2>3. \E at \in {"open", "finals"} : \E r : Go(j, at, r) /\ r.began <= now'
    <3>1. CASE StartResolving(j)
      <4>1. PICK r : r = [Idle EXCEPT !.began = now] OBVIOUS
      <4>2. r.began = now /\ now \in Nat BY <4>1 DEF Idle, Types
      <4>3. r.began <= now' BY <2>1, <4>2
      <4>4. Go(j, "open", r) BY <3>1, <4>1 DEF StartResolving
      <4> QED BY <4>3, <4>4
    <3>2. CASE ReadForecasts(j)
      <4>1. PICK r : r = [run[j] EXCEPT !.list = Lines(forecasts)] OBVIOUS
      <4>2. run[j] \in Run BY DEF Types
      <4>3. r.began = run[j].began BY <4>1, <4>2 DEF Run
      <4>4. run[j].began <= now BY <3>2 DEF ReadForecasts, Passage, Passes, Resolving
      <4> QED BY <2>1, <3>2, <4>1, <4>3, <4>4 DEF ReadForecasts
    <3> QED BY <1>7, <3>1, <3>2
  <2>4. PICK at \in {"open", "finals"} : \E r : Go(j, at, r) /\ r.began <= now' BY <2>3
  <2>5. PICK r : Go(j, at, r) /\ r.began <= now' BY <2>4
  <2>6. Passes(j)' /\ Others(j) BY <2>4, <2>5, PassesGo DEF Looking
  <2> QED BY <2>2, <2>6, JobPasses
<1>8. ASSUME NEW j \in Jobs, ReadFinals(j) PROVE Passage'
  <2>1. UNCHANGED <<predictions, now, finals, attempts>> /\ pc[j] = "finals"
    BY <1>8 DEF ReadFinals
  <2>2. Grows BY <2>1, GrowsSame
  <2>3. PICK keys : keys = {f.key : f \in Range(Lines(finals))} OBVIOUS
  <2>4. PICK r : r = [run[j] EXCEPT !.i = 1, !.keys = keys] OBVIOUS
  <2>5. run[j] \in Run BY DEF Types
  <2>6. r.began = run[j].began /\ r.i = 1 /\ r.keys = keys BY <2>4, <2>5 DEF Run
  <2>7. r.began <= now' BY <2>1, <2>6 DEF Passage, Passes, Resolving
  <2>8. ASSUME finals'.torn = "no" PROVE Looked(r)'
    <3>1. Lines(finals) = finals.lines BY <2>1, <2>8 DEF Lines
    <3>2. \A key \in r.keys : Resolved(key)' BY <2>1, <2>3, <2>6, <3>1 DEF Resolved
    <3>3. 1 .. (r.i - 1) = {} BY <2>6
    <3> QED BY <3>2, <3>3 DEF Looked
  <2>9. Go(j, "take", r) BY <1>8, <2>3, <2>4 DEF ReadFinals
  <2>10. Passes(j)' /\ Others(j) BY <2>7, <2>8, <2>9, PassesGo
  <2> QED BY <2>2, <2>10, JobPasses
<1>9. ASSUME NEW j \in Jobs, pc[j] \in Looking, Go(j, "take", Further(j)), Grows, run[j].i # 0,
             NEW key, key = Key(Taken(j)),
             finals'.torn = "no" /\ WindowEnd(Taken(j)) <= run[j].began => Answered(key)'
      PROVE  Passage'
  <2>1. run[j] \in Run BY DEF Types
  <2>2. PICK s : s = Further(j) OBVIOUS
  <2>3. s.i = run[j].i + 1 /\ s.list = run[j].list /\ s.keys = run[j].keys /\ s.began = run[j].began
    BY <2>1, <2>2 DEF Further, Run
  <2>4. s \in Run BY <2>1, <2>2, FurtherType
  <2>5. Go(j, "take", s) BY <1>9, <2>2
  <2> QED BY <1>9, <2>3, <2>4, <2>5, PassesFurther
<1>10. ASSUME NEW j \in Jobs, NEW kind \in {"awaiting_data", "transient_error"}, Attempt(j, kind),
              pc[j] \in Looking, Go(j, "take", Further(j)), run[j].i # 0,
              UNCHANGED <<predictions, now, finals>>
       PROVE  Passage'
  <2>1. PICK key : key = Key(Taken(j)) OBVIOUS
  <2>2. attempts' = attempts \cup {<<key, kind>>} BY <1>10, <2>1 DEF Attempt
  <2>3. Grows BY <1>10, <2>2, GrowsSame
  <2>4. Answered(key)' BY <2>2 DEF Answered
  <2> QED BY <1>9, <1>10, <2>1, <2>3, <2>4
<1>11. ASSUME NEW j \in Jobs, pc[j] \in Looking, NEW at \in Looking, NEW s, Go(j, at, s),
              s.i = run[j].i, s.list = run[j].list, s.keys = run[j].keys, s.began = run[j].began,
              UNCHANGED <<predictions, now, finals, attempts>>
       PROVE  Passage'
  <2>1. Grows BY <1>11, GrowsSame
  <2>2. PICK r : r = run[j] OBVIOUS
  <2>3. s.began <= now' BY <1>11 DEF Passage, Passes, Looking, Resolving
  <2>4. ASSUME finals'.torn = "no" PROVE Looked(s)'
    <3>1. Looked(r) BY <1>11, <2>2, <2>4 DEF Passage, Passes
    <3>2. Looked(s) BY <1>11, <2>2, <3>1 DEF Looked
    <3> QED BY <2>1, <2>4, <3>2, LookedStays
  <2>5. Passes(j)' /\ Others(j) BY <1>11, <2>3, <2>4, PassesGo
  <2> QED BY <2>1, <2>5, JobPasses
<1>12. ASSUME NEW j \in Jobs, TakeForecast(j) PROVE Passage'
  <2>1. pc[j] = "take" /\ UNCHANGED <<predictions, now, finals>> /\ pc[j] \in Looking
    BY <1>12 DEF TakeForecast, Looking
  <2>2. run[j].i # 0 /\ run[j] \in Run BY <2>1 DEF Types
  <2>3. CASE Go(j, "idle", Idle) /\ UNCHANGED attempts BY <1>6, <2>1, <2>3, GrowsSame
  <2>4. CASE ~(run[j].i > Len(run[j].list)) /\ Go(j, "take", Further(j)) /\ UNCHANGED attempts
             /\ (Key(Taken(j)) \in run[j].keys \/ StillOpen(Taken(j)))
    <3>1. PICK key : key = Key(Taken(j)) OBVIOUS
    <3>2. Grows BY <2>1, <2>4, GrowsSame
    <3>3. run[j].i \in DOMAIN run[j].list
      <4>1. run[j].i \in Nat /\ run[j].list \in Seq(Prophecy) BY <2>2 DEF Run
      <4> QED BY <2>2, <2>4, <4>1
    <3>4. WindowEnd(Taken(j)) \in Int BY <3>3, TakenType, WindowEndType
    <3>5. run[j].began \in Int /\ run[j].began <= now /\ now \in Nat
      BY <2>1, <2>2 DEF Run, Passage, Passes, Resolving, Types
    <3>6. ASSUME finals'.torn = "no", WindowEnd(Taken(j)) <= run[j].began PROVE Answered(key)'
      <4>1. ~(now < WindowEnd(Taken(j))) BY <3>4, <3>5, <3>6
      <4>2. key \in run[j].keys BY <2>4, <3>1, <4>1 DEF StillOpen
      <4>3. Resolved(key) BY <2>1, <3>6, <4>2 DEF Passage, Passes, Looked
      <4> QED BY <3>2, <3>6, <4>3, AnsweredStays DEF Answered
    <3> QED BY <1>9, <2>1, <2>2, <2>4, <3>1, <3>2, <3>6
  <2>5. CASE Go(j, "take", Further(j)) /\ Attempt(j, "awaiting_data")
    BY <1>10, <2>1, <2>2, <2>5
  <2>6. CASE Go(j, "series", run[j]) /\ UNCHANGED attempts
    BY <1>11, <2>1, <2>6 DEF Looking
  <2> QED BY <1>12, <2>3, <2>4, <2>5, <2>6 DEF TakeForecast, End
<1>13. ASSUME NEW j \in Jobs, ReadSeries(j) PROVE Passage'
  <2>1. UNCHANGED <<predictions, now, finals>> /\ pc[j] = "series" /\ pc[j] \in Looking
    BY <1>13 DEF ReadSeries, Looking
  <2>2. run[j].i # 0 /\ run[j] \in Run
    <3>1. run[j] \in Run /\ run[j].i \in DOMAIN run[j].list BY <2>1 DEF Types
    <3>2. run[j].list \in Seq(Prophecy) BY <3>1 DEF Run
    <3> QED BY <3>1, <3>2
  <2>3. ASSUME NEW kind \in {"awaiting_data", "transient_error"}, Attempt(j, kind),
               Go(j, "take", Further(j))
        PROVE  Passage'
    BY <1>10, <2>1, <2>2, <2>3
  <2>4. ASSUME NEW outcome, UNCHANGED attempts,
               Go(j, "resolve", [run[j] EXCEPT !.outcome = outcome, !.readAt = now])
        PROVE  Passage'
    <3>1. PICK s : s = [run[j] EXCEPT !.outcome = outcome, !.readAt = now] OBVIOUS
    <3>2. s.i = run[j].i /\ s.list = run[j].list /\ s.keys = run[j].keys /\ s.began = run[j].began
      BY <2>2, <3>1 DEF Run
    <3>3. Go(j, "resolve", s) /\ "resolve" \in Looking BY <2>4, <3>1 DEF Looking
    <3> QED BY <1>11, <2>1, <2>4, <3>2, <3>3
  <2> QED BY <1>13, <2>3, <2>4 DEF ReadSeries
<1>14. ASSUME NEW j \in Jobs, AppendFinal(j) PROVE Passage'
  <2>1. /\ pc[j] = "resolve" /\ finals' = With(finals, Judged(j)) /\ pc[j] \in Looking
        /\ UNCHANGED <<predictions, now, attempts>>
        /\ Go(j, "take", [Further(j) EXCEPT !.keys = KeysNow(j)])
    BY <1>14 DEF AppendFinal, Judged, Looking
  <2>2. run[j] \in Run /\ run[j].i \in DOMAIN run[j].list BY <2>1 DEF Types
  <2>3. run[j].i # 0
    <3>1. run[j].list \in Seq(Prophecy) BY <2>2 DEF Run
    <3> QED BY <2>2, <3>1
  <2>4. PICK key : key = Key(Taken(j)) /\ key \in (DOMAIN predictions) \X Int BY <2>2, TakenType
  <2>5. PICK line : line = Judged(j) /\ line \in Verdict BY <2>1, JudgedType
  <2>6. line.key = key BY <2>4, <2>5 DEF Judged
  <2>7. finals \in File(Verdict) BY DEF Types
  <2>8. finals'.torn = "no" =>
          finals.torn = "no" /\ finals'.lines = Append(finals.lines, line)
    BY <2>1, <2>5, <2>7, LineAppended
  <2>9. finals.lines \in Seq(Verdict) BY <2>7 DEF File
  <2>10. finals'.torn = "no" =>
           Range(finals.lines) \subseteq Range(finals'.lines) /\ line \in Range(finals'.lines)
    <3> SUFFICES ASSUME finals'.lines = Append(finals.lines, line)
                 PROVE  Range(finals.lines) \subseteq Range(finals'.lines) /\ line \in Range(finals'.lines)
      BY <2>8
    <3>1. \A n \in DOMAIN finals.lines : n \in DOMAIN finals'.lines /\ finals'.lines[n] = finals.lines[n]
      BY <2>9
    <3>2. Len(finals.lines) + 1 \in DOMAIN finals'.lines
          /\ finals'.lines[Len(finals.lines) + 1] = line BY <2>9
    <3>3. \A n \in DOMAIN finals'.lines : finals'.lines[n] \in Range(finals'.lines) BY DEF Range
    <3> QED BY <3>1, <3>2, <3>3 DEF Range
  <2>11. Grows BY <2>1, <2>8, <2>10 DEF Grows, Types
  <2>12. finals'.torn = "no" => Resolved(key)' BY <2>6, <2>10 DEF Resolved
  <2>13. PICK s : s = [Further(j) EXCEPT !.keys = KeysNow(j)] OBVIOUS
  <2>14. PICK t \in Run : t = Further(j) BY <2>2, FurtherType
  <2>15. t.i = run[j].i + 1 /\ t.list = run[j].list /\ t.began = run[j].began
    BY <2>2, <2>14 DEF Further, Run
  <2>16. PICK keys : keys = run[j].keys \cup {key} /\ keys \subseteq (DOMAIN predictions) \X Int
    <3>1. run[j].keys \subseteq (DOMAIN predictions) \X Int BY <2>2 DEF Run
    <3>2. run[j].keys \cup {key} \subseteq (DOMAIN predictions) \X Int BY <2>4, <3>1
    <3> QED BY <3>2
  <2>17. s = [t EXCEPT !.keys = keys] BY <2>4, <2>13, <2>14, <2>16 DEF KeysNow
  <2>18. s \in Run /\ s.i = run[j].i + 1 /\ s.list = run[j].list /\ s.began = run[j].began
         /\ s.keys = keys
    BY <2>15, <2>16, <2>17 DEF Run
  <2>19. Go(j, "take", s) BY <2>1, <2>13
  <2>20. finals'.torn = "no" => Answered(key)' BY <2>12 DEF Answered
  <2> QED BY <2>1, <2>3, <2>4, <2>11, <2>12, <2>16, <2>18, <2>19, <2>20, PassesFurther
<1>15. ASSUME NEW j \in Jobs, Die(j) PROVE Passage'
  <2>1. /\ Go(j, "idle", Idle) /\ UNCHANGED <<predictions, now, attempts>>
        /\ finals' = finals \/ finals' = TornAppend(finals)
    BY <1>15 DEF Die, End
  <2>2. finals \in File(Verdict) BY DEF Types
  <2>3. finals' = TornAppend(finals) => finals'.torn # "no" BY <2>2, LineTorn
  <2>4. Grows BY <2>1, <2>3 DEF Grows, Types
  <2> QED BY <1>6, <2>1, <2>4
<1>16. CASE UNCHANGED vars
  <2>1. UNCHANGED <<predictions, now, finals, attempts, pc, run>> BY <1>16 DEF vars
  <2> QED BY <1>1, <2>1, GrowsSame
<1> QED BY <1>2, <1>3, <1>5, <1>7, <1>8, <1>12, <1>13, <1>14, <1>15, <1>16 DEF Next, Resolve

\* A resolver passes over no forecast whose window had closed when it began: it leaves a
\* resolution or an attempt, whatever fails (resolve-forecasts.mjs: the loop over the forecasts).
THEOREM ClosedAreHandled == Spec => []ClosedIsHandled
<1>1. Init => Passage
  BY DEF Init, Passage, Passes, Resolving, Looking
<1>2. Inv => Types BY DEF Inv
<1>3. Types /\ Passage /\ [Next]_vars => Passage' BY PassageStep
<1>4. Passage => ClosedIsHandled
  BY DEF Passage, Passes, Looked, Looking, Answered, Resolved, ClosedIsHandled
<1> QED BY <1>1, <1>2, <1>3, <1>4, Inductive, PTL DEF Spec
-----------------------------------------------------------------------------
(* The walks of the lineage queries                                       *)

Paths == Seq(Edges)

WalkTypes ==
  /\ entities \subseteq Nodes /\ edges \in Seq(Edges) /\ maxDepth \in Nat
  /\ queue \in Seq(Paths) /\ current \in Paths /\ items \subseteq DOMAIN edges
  /\ results \subseteq Paths

(* The walk works on paths only: what it has queued, what it expands and   *)
(* what it found.  The path it expands is short of the depth, and the      *)
(* edges it goes through leave from the end of that path.                  *)
WalksOnPaths ==
  /\ \A k \in DOMAIN queue : IsPath(queue[k])
  /\ IsPath(current)
  /\ PathsArePaths
  /\ walk = "visit" => Len(current) < maxDepth /\ \A i \in items : edges[i][1] = EndOf(current)
  /\ walk = "idle" => queue = <<>> /\ current = <<>> /\ results = {}

WalkInv == WalkTypes /\ WalksOnPaths
-----------------------------------------------------------------------------
LEMMA EmptyIsPath == ASSUME maxDepth \in Nat PROVE IsPath(<<>>)
BY DEF IsPath

(* A path stays one when the graph grows and the query is the same.        *)
LEMMA PathStays ==
  ASSUME NEW path \in Paths, IsPath(path), maxDepth' = maxDepth,
         Range(edges) \subseteq Range(edges'), entities \subseteq entities'
  PROVE  IsPath(path)'
BY DEF IsPath

(* A link from its end to an entity it does not pass makes a longer path.  *)
LEMMA PathGrows ==
  ASSUME WalkTypes, NEW path \in Paths, IsPath(path), Len(path) < maxDepth,
         NEW i \in DOMAIN edges, edges[i][1] = EndOf(path),
         edges[i][3] \in entities, edges[i][3] \notin OnPath(path)
  PROVE  Append(path, edges[i]) \in Paths /\ IsPath(Append(path, edges[i]))
<1> DEFINE e == edges[i]
           longer == Append(path, e)
<1>1. e \in Edges /\ e \in Range(edges) BY DEF WalkTypes, Range
<1>2. longer \in Paths /\ Len(longer) = Len(path) + 1 /\ longer[Len(path) + 1] = e
  BY <1>1 DEF Paths
<1>3. /\ DOMAIN longer = DOMAIN path \cup {Len(path) + 1}
      /\ \A k \in DOMAIN path : longer[k] = path[k] /\ k \in 1 .. Len(path)
  BY <1>1 DEF Paths
<1>4. Len(longer) <= maxDepth BY <1>2 DEF WalkTypes, Paths
<1>5. e[3] \in entities \ {Origin} /\ \A k \in DOMAIN path : path[k][3] # e[3]
  BY DEF OnPath
<1>6. e[1] = IF Len(path) + 1 = 1 THEN Origin ELSE path[Len(path)][3]
  BY DEF EndOf, Paths
<1> HIDE DEF e, longer
<1>7. \A k \in DOMAIN longer :
        /\ longer[k] \in Range(edges) /\ longer[k][3] \in entities \ {Origin}
        /\ longer[k][1] = IF k = 1 THEN Origin ELSE longer[k - 1][3]
  <2> SUFFICES ASSUME NEW k \in DOMAIN longer
               PROVE  /\ longer[k] \in Range(edges) /\ longer[k][3] \in entities \ {Origin}
                      /\ longer[k][1] = IF k = 1 THEN Origin ELSE longer[k - 1][3]
    OBVIOUS
  <2>1. CASE k \in DOMAIN path
    <3>1. k = 1 \/ k - 1 \in DOMAIN path BY <2>1 DEF Paths
    <3> QED BY <1>3, <2>1, <3>1 DEF IsPath
  <2>2. CASE k = Len(path) + 1
    <3>1. Len(path) \in Nat /\ DOMAIN path = 1 .. Len(path) BY DEF Paths
    <3>2. k = 1 \/ (k - 1 \in DOMAIN path /\ k - 1 = Len(path)) BY <2>2, <3>1
    <3> QED BY <1>1, <1>2, <1>3, <1>5, <1>6, <2>2, <3>1, <3>2
  <2> QED BY <1>3, <2>1, <2>2
<1>8. \A k, l \in DOMAIN longer : longer[k][3] = longer[l][3] => k = l
  BY <1>2, <1>3, <1>5 DEF IsPath
<1>9. IsPath(longer) BY <1>4, <1>7, <1>8 DEF IsPath
<1> QED BY <1>2, <1>9 DEF longer, e
-----------------------------------------------------------------------------
LEMMA WalkInitial == WInit => WalkInv
<1> SUFFICES ASSUME WInit PROVE WalkInv OBVIOUS
<1>1. WalkTypes BY LineageAssumption DEF WInit, WalkTypes, Paths
<1>2. IsPath(<<>>) BY <1>1, EmptyIsPath DEF WalkTypes
<1>3. WalksOnPaths BY <1>2 DEF WInit, WalksOnPaths, PathsArePaths
<1> QED BY <1>1, <1>3 DEF WalkInv

(* A neighbor is skipped, or the path to it is a path.                     *)
LEMMA VisitStep ==
  ASSUME WalkInv, Visit
  PROVE  WalkInv'
<1> USE DEF WalkInv, WalkTypes
<1>1. walk = "visit" /\ UNCHANGED <<graph, walk, maxDepth, current>> BY DEF Visit
<1>2. PICK i \in items : /\ items' = items \ {i}
                         /\ IF Skips(edges[i][3]) THEN UNCHANGED <<queue, best, results>>
                            ELSE Reached(edges[i][3], Append(current, edges[i]))
  BY DEF Visit
<1>3. \A path \in Paths : IsPath(path) => IsPath(path)' BY <1>1, PathStays DEF graph
<1>4. CASE Skips(edges[i][3])
  BY <1>1, <1>2, <1>3, <1>4 DEF WalksOnPaths, PathsArePaths, graph, EndOf
<1>5. CASE ~Skips(edges[i][3])
  <2>1. PICK path : path = Append(current, edges[i]) OBVIOUS
  <2>2. path \in Paths /\ IsPath(path)
    BY <1>1, <1>5, <2>1, PathGrows DEF WalksOnPaths, Skips, Missing
  <2>3. results' = results \cup {path} /\ (queue' = queue \/ queue' = Append(queue, path))
    BY <1>2, <1>5, <2>1 DEF Reached
  <2>4. WalkTypes'
    <3>1. queue' \in Seq(Paths) /\ results' \subseteq Paths BY <2>2, <2>3
    <3>2. items' \subseteq DOMAIN edges BY <1>2
    <3> QED BY <1>1, <3>1, <3>2 DEF graph
  <2>5. \A k \in DOMAIN queue' : IsPath(queue'[k])
    BY <2>2, <2>3 DEF WalksOnPaths
  <2>7. (\A k \in DOMAIN queue : IsPath(queue[k]))' BY <1>1, <2>5 DEF IsPath, graph
  <2>8. (\A p \in results : IsPath(p))' BY <1>3, <2>2, <2>3 DEF WalksOnPaths, PathsArePaths
  <2> QED BY <1>1, <1>2, <1>3, <2>4, <2>7, <2>8 DEF WalksOnPaths, PathsArePaths, graph, EndOf
<1> QED BY <1>4, <1>5

LEMMA WalkStep ==
  ASSUME WalkInv, [WNext]_wvars
  PROVE  WalkInv'
<1> USE DEF WalkInv, WalkTypes
<1>1. CASE Ask
  <2>1. WalkTypes' BY <1>1, LineageAssumption DEF Ask, graph, Paths
  <2>2. IsPath(<<>>)' BY <2>1 DEF IsPath
  <2>3. current' = <<>> /\ results' = {} /\ walk' = "loop" /\ queue' = << <<>> >>
    BY <1>1 DEF Ask, WalksOnPaths
  <2> QED BY <2>1, <2>2, <2>3 DEF WalksOnPaths, PathsArePaths
<1>2. CASE Expand
  <2>1. queue # <<>> /\ queue' = Tail(queue) /\ UNCHANGED <<graph, maxDepth, results>>
    BY <1>2 DEF Expand
  <2>2. Head(queue) \in Paths /\ IsPath(Head(queue)) BY <2>1 DEF WalksOnPaths
  <2>3. queue' \in Seq(Paths) BY <2>1
  <2>4. \A path \in Paths : IsPath(path) => IsPath(path)' BY <2>1, PathStays DEF graph
  <2>5. \A k \in DOMAIN queue' : queue'[k] \in Paths /\ IsPath(queue'[k])
    BY <2>1 DEF WalksOnPaths
  <2>6. (\A k \in DOMAIN queue : IsPath(queue[k]))' BY <2>1, <2>5 DEF IsPath, graph
  <2>7. PathsArePaths' BY <2>1, <2>4 DEF WalksOnPaths, PathsArePaths
  <2>8. CASE UNCHANGED <<walk, current, items>>
    BY <1>2, <2>1, <2>3, <2>4, <2>6, <2>7, <2>8 DEF Expand, WalksOnPaths, graph
  <2>9. CASE /\ ~TooLong(Head(queue))
             /\ walk' = "visit" /\ current' = Head(queue) /\ items' = Outgoing(EndOf(Head(queue)))
    <3>1. Len(current') < maxDepth' BY <2>1, <2>2, <2>9 DEF TooLong, Paths
    <3>2. IsPath(current)' BY <2>1, <2>2, <2>9 DEF IsPath, graph
    <3>3. \A i \in items' : i \in DOMAIN edges' /\ edges'[i][1] = EndOf(current')
      BY <2>1, <2>9 DEF Outgoing, FindEdges, LeadsOut, graph
    <3> QED BY <2>1, <2>2, <2>3, <2>6, <2>7, <2>9, <3>1, <3>2, <3>3
            DEF WalksOnPaths, graph, EndOf
  <2> QED BY <1>2, <2>8, <2>9 DEF Expand
<1>3. CASE Visit BY <1>3, VisitStep
<1>4. ASSUME UNCHANGED query, WalkTypes',
             Range(edges) \subseteq Range(edges'), entities \subseteq entities',
             walk' = "idle" => walk = "idle", walk' = "visit" => walk = "visit",
             \A i \in DOMAIN edges : edges'[i] = edges[i]
      PROVE  WalkInv'
  <2>1. \A path \in Paths : IsPath(path) => IsPath(path)' BY <1>4, PathStays DEF query
  <2>2. (\A k \in DOMAIN queue : IsPath(queue[k]))' BY <1>4, <2>1 DEF WalksOnPaths, query
  <2> QED BY <1>4, <2>1, <2>2 DEF WalksOnPaths, PathsArePaths, query, EndOf
<1>5. CASE Visited \/ Answer \/ UNCHANGED wvars
  BY <1>4, <1>5 DEF Visited, Answer, wvars, graph, query
<1>6. CASE LearnEntity BY <1>4, <1>6 DEF LearnEntity, query
<1>7. CASE Link
  <2>1. PICK e \in Edges : edges' = Append(edges, e) /\ UNCHANGED <<entities, walk, query>>
    BY <1>7 DEF Link
  <2>2. edges' \in Seq(Edges) /\ DOMAIN edges \subseteq DOMAIN edges' BY <2>1
  <2>3. \A i \in DOMAIN edges : edges'[i] = edges[i] BY <2>1
  <2>4. Range(edges) \subseteq Range(edges') BY <2>2, <2>3 DEF Range
  <2> QED BY <1>4, <2>1, <2>2, <2>3, <2>4 DEF query
<1> QED BY <1>1, <1>2, <1>3, <1>5, <1>6, <1>7 DEF WNext

(* Whatever entities and links are projected during a query and however    *)
(* the links run in circles, every path findPaths returns starts at the    *)
(* origin, follows links that exist, comes to no entity twice and is no    *)
(* longer than maxDepth.                                                   *)
THEOREM PathsCorrect == WSpec => []PathsArePaths
<1>1. WInit => WalkInv BY WalkInitial
<1>2. WalkInv /\ [WNext]_wvars => WalkInv' BY WalkStep
<1>3. WalkInv => PathsArePaths BY DEF WalkInv, WalksOnPaths
<1> QED BY <1>1, <1>2, <1>3, PTL DEF WSpec
-----------------------------------------------------------------------------
(* What is within reach: Reach is a function over the depth, so what holds *)
(* of it is proved by the least depth at which it would not.               *)
\* Every set of numbers that is not empty has a least one: a statement about all
\* numbers follows from its least counterexample.
LEMMA LeastNumber ==
  ASSUME NEW S \in SUBSET Nat, S # {}
  PROVE  \E m \in S : \A n \in S : m <= n
<1>1. \A m, n \in Nat : m < n => <<m, n>> \in OpToRel(<, Nat) BY DEF OpToRel
<1>2. \E m \in S : \A n \in S : <<n, m>> \notin OpToRel(<, Nat) BY NatLessThanWellFounded, WFMin
<1>3. PICK m \in S : \A n \in S : <<n, m>> \notin OpToRel(<, Nat) BY <1>2
<1>4. \A n \in S : ~(n < m) BY <1>1, <1>3
<1> QED BY <1>4

Beyond(E, N, W) == W \cup {e[3] : e \in {x \in E : x[1] \in W /\ x[3] \in N}}
Layers(E, N, d, f) == f = [k \in 0..d |-> IF k = 0 THEN {Origin} ELSE Beyond(E, N, f[k - 1])]

\* Reach is the last of its layers.
LEMMA ReachIsLayer ==
  ASSUME NEW E, NEW N, NEW d \in Nat
  PROVE  Reach(E, N, d) = (CHOOSE f : Layers(E, N, d, f))[d]
BY DEF Reach, Layers, Beyond

\* What the layers are.
LEMMA LayerValues ==
  ASSUME NEW E, NEW N, NEW d \in Nat, NEW f, Layers(E, N, d, f)
  PROVE  /\ f[0] = {Origin}
         /\ \A k \in 0..d : k # 0 => f[k] = Beyond(E, N, f[k - 1])
<1>1. f = [k \in 0..d |-> IF k = 0 THEN {Origin} ELSE Beyond(E, N, f[k - 1])] BY DEF Layers
<1>2. \A k \in 0..d : f[k] = IF k = 0 THEN {Origin} ELSE Beyond(E, N, f[k - 1]) BY <1>1
<1>3. 0 \in 0..d OBVIOUS
<1> QED BY <1>2, <1>3

\* There are layers for every depth.
LEMMA LayersExist ==
  ASSUME NEW E, NEW N
  PROVE  \A d \in Nat : \E f : Layers(E, N, d, f)
<1> DEFINE Bad == {d \in Nat : ~\E f : Layers(E, N, d, f)}
<1> SUFFICES ASSUME Bad # {} PROVE FALSE OBVIOUS
<1>1. PICK m \in Bad : \A n \in Bad : m <= n BY LeastNumber
<1>2. Layers(E, N, 0, [k \in 0..0 |-> {Origin}]) BY DEF Layers
<1>3. m \in Nat /\ m # 0 BY <1>1, <1>2
<1>4. m - 1 \in Nat /\ ~(m <= m - 1) BY <1>3
<1>5. PICK f : Layers(E, N, m - 1, f) BY <1>1, <1>4
<1> DEFINE g == [k \in 0..m |-> IF k = 0 THEN {Origin} ELSE Beyond(E, N, f[k - 1])]
<1>6. \A k \in 0..m - 1 : g[k] = f[k]
  <2> SUFFICES ASSUME NEW k \in 0..m - 1 PROVE g[k] = f[k] OBVIOUS
  <2>1. k \in 0..m BY <1>3
  <2>2. g[k] = IF k = 0 THEN {Origin} ELSE Beyond(E, N, f[k - 1]) BY <2>1
  <2>3. PICK c \in Nat : c = m - 1 BY <1>4
  <2>4. f[0] = {Origin} /\ \A l \in 0..c : l # 0 => f[l] = Beyond(E, N, f[l - 1])
    <3>1. Layers(E, N, c, f) BY <1>5, <2>3
    <3> QED BY <3>1, LayerValues
  <2> QED BY <2>2, <2>3, <2>4
<1>7. \A k \in 0..m : k # 0 => k - 1 \in 0..m - 1 BY <1>3
<1>8. Layers(E, N, m, g) BY <1>6, <1>7 DEF Layers
<1> QED BY <1>1, <1>8

\* Layers for different depths agree as far as both go.
LEMMA LayersAgree ==
  ASSUME NEW E, NEW N, NEW c \in Nat, NEW d \in Nat, NEW f, NEW g,
         Layers(E, N, c, f), Layers(E, N, d, g)
  PROVE  \A k \in Nat : k <= c /\ k <= d => f[k] = g[k]
<1> DEFINE Bad == {k \in Nat : k <= c /\ k <= d /\ f[k] # g[k]}
<1> SUFFICES ASSUME Bad # {} PROVE FALSE OBVIOUS
<1>1. PICK m \in Bad : \A n \in Bad : m <= n BY LeastNumber
<1>2. m # 0 BY <1>1, LayerValues
<1>3. m - 1 \in Nat /\ m - 1 <= c /\ m - 1 <= d /\ ~(m <= m - 1) BY <1>1, <1>2
<1>4. f[m - 1] = g[m - 1] BY <1>1, <1>3
<1>5. m \in 0..c /\ m \in 0..d BY <1>1
<1>8. \A k \in 0..c : k # 0 => f[k] = Beyond(E, N, f[k - 1]) BY LayerValues
<1>9. \A k \in 0..d : k # 0 => g[k] = Beyond(E, N, g[k - 1]) BY LayerValues
<1>6. f[m] = Beyond(E, N, f[m - 1]) BY <1>2, <1>5, <1>8
<1>7. g[m] = Beyond(E, N, g[m - 1]) BY <1>2, <1>5, <1>9
<1> QED BY <1>1, <1>4, <1>6, <1>7

\* Reach unfolded: what is reached in d + 1 steps is one link beyond what is in d.
LEMMA ReachGrows ==
  ASSUME NEW E, NEW N
  PROVE  /\ Reach(E, N, 0) = {Origin}
         /\ \A d \in Nat : Reach(E, N, d + 1) = Beyond(E, N, Reach(E, N, d))
<1>1. PICK L : L = [d \in Nat |-> CHOOSE f : Layers(E, N, d, f)] OBVIOUS
<1>2. \A d \in Nat : Layers(E, N, d, L[d]) BY <1>1, LayersExist
<1>3. \A d \in Nat : Reach(E, N, d) = L[d][d] BY <1>1, ReachIsLayer
<1>4. Reach(E, N, 0) = {Origin} BY <1>2, <1>3, LayerValues
<1>5. ASSUME NEW d \in Nat PROVE Reach(E, N, d + 1) = Beyond(E, N, Reach(E, N, d))
  <2>1. d + 1 \in 0..d + 1 /\ d + 1 # 0 /\ (d + 1) - 1 = d OBVIOUS
  <2>5. PICK f : f = L[d + 1] OBVIOUS
  <2>6. PICK g : g = L[d] OBVIOUS
  <2>7. d + 1 \in Nat OBVIOUS
  <2>8. Layers(E, N, d + 1, f) /\ Layers(E, N, d, g) BY <1>2, <2>5, <2>6, <2>7
  <2>4. PICK c \in Nat : c = d + 1 OBVIOUS
  <2>9. f[0] = {Origin} /\ \A k \in 0..c : k # 0 => f[k] = Beyond(E, N, f[k - 1])
    <3>1. Layers(E, N, c, f) BY <2>4, <2>8
    <3> QED BY <3>1, LayerValues
  <2>2. f[d + 1] = Beyond(E, N, f[d]) BY <2>1, <2>4, <2>9
  <2>3. f[d] = g[d] BY <2>7, <2>8, LayersAgree
  <2> QED BY <1>3, <2>2, <2>3, <2>5, <2>6, <2>7
<1> QED BY <1>4, <1>5

\* More steps reach no less.
LEMMA ReachWidens ==
  ASSUME NEW E, NEW N, NEW k \in Nat
  PROVE  \A d \in Nat : k <= d => Reach(E, N, k) \subseteq Reach(E, N, d)
<1> DEFINE Bad == {d \in Nat : k <= d /\ ~(Reach(E, N, k) \subseteq Reach(E, N, d))}
<1> SUFFICES ASSUME Bad # {} PROVE FALSE OBVIOUS
<1>1. PICK m \in Bad : \A n \in Bad : m <= n BY LeastNumber
<1>2. m \in Nat /\ k <= m /\ m # k BY <1>1
<1>3. PICK l \in Nat : m = l + 1 /\ k <= l /\ ~(m <= l)
  <2>1. m - 1 \in Nat /\ m = (m - 1) + 1 /\ k <= m - 1 /\ ~(m <= m - 1) BY <1>2
  <2> QED BY <2>1
<1>4. Reach(E, N, k) \subseteq Reach(E, N, l) BY <1>1, <1>3
<1>5. Reach(E, N, l + 1) = Beyond(E, N, Reach(E, N, l)) BY ReachGrows
<1>6. Reach(E, N, l) \subseteq Reach(E, N, m) BY <1>3, <1>5 DEF Beyond
<1> QED BY <1>1, <1>4, <1>6

\* The end of a path is as near as the path is long.
LEMMA PathReaches ==
  ASSUME WalkTypes, NEW path \in Paths, IsPath(path)
  PROVE  EndOf(path) \in Reach(Range(edges), entities, maxDepth)
<1> DEFINE E == Range(edges)
           N == entities
           Bad == {k \in Nat : k \in 1..Len(path) /\ path[k][3] \notin Reach(E, N, k)}
<1>1. Len(path) \in Nat /\ Len(path) <= maxDepth /\ maxDepth \in Nat /\ DOMAIN path = 1..Len(path)
  BY DEF IsPath, WalkTypes, Paths
<1>2. /\ Reach(E, N, 0) = {Origin}
      /\ \A d \in Nat : Reach(E, N, d + 1) = Beyond(E, N, Reach(E, N, d))
  BY ReachGrows
<1> HIDE DEF E, N
<1>3. Bad = {}
  <2> SUFFICES ASSUME Bad # {} PROVE FALSE OBVIOUS
  <2>1. PICK m \in Bad : \A n \in Bad : m <= n BY LeastNumber
  <2>2. m \in DOMAIN path /\ m \in Nat /\ m # 0 BY <1>1, <2>1
  <2>3. PICK l \in Nat : m = l + 1 /\ ~(m <= l)
    <3>1. m - 1 \in Nat /\ m = (m - 1) + 1 /\ ~(m <= m - 1) BY <2>2
    <3> QED BY <3>1
  <2>4. /\ path[m] \in E /\ path[m][3] \in N
        /\ path[m][1] = IF m = 1 THEN Origin ELSE path[l][3]
    <3>1. m - 1 = l BY <2>3
    <3> QED BY <2>2, <3>1 DEF IsPath, E, N
  <2>5. path[m][1] \in Reach(E, N, l)
    <3>1. CASE m = 1
      <4>1. l = 0 BY <2>3, <3>1
      <4> QED BY <1>2, <2>4, <3>1, <4>1
    <3>2. CASE m # 1
      <4>1. l \in 1..Len(path) /\ l \notin Bad BY <1>1, <2>1, <2>2, <2>3, <3>2
      <4> QED BY <2>4, <3>2, <4>1
    <3> QED BY <3>1, <3>2
  <2>6. path[m][3] \in Beyond(E, N, Reach(E, N, l)) BY <2>4, <2>5 DEF Beyond
  <2>7. path[m][3] \in Reach(E, N, m) BY <1>2, <2>3, <2>6
  <2> QED BY <2>1, <2>7
<1>4. PICK k \in Nat : k <= maxDepth /\ EndOf(path) \in Reach(E, N, k)
  <2>1. CASE path = <<>> BY <1>1, <1>2, <2>1 DEF EndOf
  <2>2. CASE path # <<>>
    <3>1. Len(path) \in 1..Len(path) BY <1>1, <2>2
    <3>2. path[Len(path)][3] \in Reach(E, N, Len(path)) BY <1>1, <1>3, <3>1
    <3> QED BY <1>1, <2>2, <3>2 DEF EndOf
  <2> QED BY <2>1, <2>2
<1>5. Reach(E, N, k) \subseteq Reach(E, N, maxDepth) BY <1>1, <1>4, ReachWidens
<1> QED BY <1>4, <1>5 DEF E, N

-----------------------------------------------------------------------------
(* The search.  An entity is near when a path that short to it is known.   *)
(* Each entity known waits in the queue on a shortest path known to it, or *)
(* is being visited, or its neighbors are one step farther at most: those  *)
(* over the links E to the entities N there were when the query started,   *)
(* whatever has been projected since and in whatever order the neighbors   *)
(* come.                                                                   *)
Near(n, d) == n \in DOMAIN best /\ best[n] <= d
Leads(E, N, n) == {e \in E : e[1] = n /\ e[3] \in N}
Known(path) == \A i \in DOMAIN path : Near(path[i][3], i)

Waiting(n) == \E k \in DOMAIN queue : EndOf(queue[k]) = n /\ Len(queue[k]) = best[n]
Visiting(E, N, n) ==
  /\ walk = "visit" /\ EndOf(current) = n /\ Len(current) = best[n]
  /\ \A e \in Leads(E, N, n) : Near(e[3], best[n] + 1) \/ \E i \in items : edges[i] = e
Expanded(E, N, n) ==
  best[n] >= maxDepth \/ \A e \in Leads(E, N, n) : Near(e[3], best[n] + 1)

Depthwise ==
  /\ \A n \in DOMAIN best : best[n] \in Nat /\ n \in Found \cup {Origin}
  /\ \A k \in DOMAIN queue : Known(queue[k])
  /\ walk = "visit" => Known(current)
Search(E, N) ==
  /\ E \subseteq Range(edges) /\ N \subseteq entities /\ due = Reach(E, N, maxDepth)
  /\ Near(Origin, 0)
  /\ \A n \in DOMAIN best : Waiting(n) \/ Visiting(E, N, n) \/ Expanded(E, N, n)
Thorough == walk # "idle" => Depthwise /\ \E E, N : Search(E, N)

\* What was known and explored remains so when nothing is found.
LEMMA SearchGoesOn ==
  ASSUME WalkTypes, Depthwise, NEW E, NEW N, Search(E, N),
         Range(edges) \subseteq Range(edges'), entities \subseteq entities',
         UNCHANGED <<maxDepth, best, due, results>>,
         \A k \in DOMAIN queue' : queue'[k] \in {queue[l] : l \in DOMAIN queue},
         walk' = "visit" => Known(current'),
         \A n \in DOMAIN best :
           Waiting(n) \/ Visiting(E, N, n) => (Waiting(n) \/ Visiting(E, N, n) \/ Expanded(E, N, n))'
  PROVE  Depthwise' /\ Search(E, N)'
<1>1. \A n, d : Near(n, d)' <=> Near(n, d) BY DEF Near
<1>2. \A path : Known(path)' <=> Known(path) BY <1>1 DEF Known
<1>3. \A k \in DOMAIN queue' : Known(queue'[k]) BY DEF Depthwise
<1>4. Depthwise'
  <2>1. Found' = Found BY DEF Found
  <2>2. (\A k \in DOMAIN queue : Known(queue[k]))' BY <1>2, <1>3
  <2>3. (walk = "visit" => Known(current))' BY <1>2
  <2> QED BY <2>1, <2>2, <2>3 DEF Depthwise
<1>5. \A n \in DOMAIN best : Expanded(E, N, n) => Expanded(E, N, n)' BY <1>1 DEF Expanded
<1> QED BY <1>1, <1>4, <1>5 DEF Search

\* At first the origin is known and waits.
LEMMA AskSearches ==
  ASSUME WalkTypes, Ask
  PROVE  Depthwise' /\ Search(Range(edges), entities)'
<1>1. /\ UNCHANGED graph /\ walk' = "loop" /\ queue' = << <<>> >>
      /\ best' = [n \in {Origin} |-> 0] /\ due' = Reach(Range(edges), entities, maxDepth')
  BY DEF Ask
<1>2. Range(edges)' = Range(edges) /\ entities' = entities BY <1>1 DEF graph
<1>3. /\ DOMAIN best' = {Origin} /\ best'[Origin] = 0
      /\ DOMAIN queue' = {1} /\ queue'[1] = <<>> /\ Len(<<>>) = 0 /\ DOMAIN <<>> = {}
  BY <1>1
<1>4. Known(<<>>)' BY <1>3 DEF Known
<1>5. Depthwise'
  <2>1. (\A k \in DOMAIN queue : Known(queue[k]))' BY <1>3 DEF Known
  <2> QED BY <1>1, <1>3, <2>1 DEF Depthwise
<1>6. Waiting(Origin)' BY <1>3 DEF Waiting, EndOf
<1>7. \A n \in DOMAIN best' : Waiting(n)' BY <1>3, <1>6
<1>8. Near(Origin, 0)' BY <1>3 DEF Near
<1> QED BY <1>1, <1>2, <1>5, <1>7, <1>8 DEF Search

\* The path taken from the queue is visited, or is as long as allowed.
LEMMA ExpandSearches ==
  ASSUME WalkInv, Depthwise, NEW E, NEW N, Search(E, N), Expand
  PROVE  Depthwise' /\ Search(E, N)'
<1>1. PICK path : path = Head(queue) OBVIOUS
<1>2. /\ queue # <<>> /\ queue' = Tail(queue) /\ walk = "loop"
      /\ UNCHANGED <<graph, maxDepth, best, due, results>>
      /\ \/ TooLong(path) /\ UNCHANGED <<walk, current, items>>
         \/ /\ ~TooLong(path) /\ walk' = "visit"
            /\ current' = path /\ items' = Outgoing(EndOf(path))
  BY <1>1 DEF Expand
<1>3. /\ queue \in Seq(Paths) /\ Len(queue) \in Nat /\ path \in Paths /\ Len(path) \in Nat
      /\ maxDepth \in Nat /\ edges \in Seq(Edges)
  BY <1>1, <1>2 DEF WalkInv, WalkTypes, Paths
<1>4. /\ 1 \in DOMAIN queue /\ path = queue[1]
      /\ \A k \in DOMAIN queue' : k + 1 \in DOMAIN queue /\ queue'[k] = queue[k + 1]
      /\ \A k \in DOMAIN queue : k # 1 => k - 1 \in DOMAIN queue' /\ queue'[k - 1] = queue[k]
  BY <1>1, <1>2, <1>3
<1>5. Range(edges)' = Range(edges) /\ edges' = edges /\ entities' = entities BY <1>2 DEF graph
<1>6. \A k \in DOMAIN queue' : queue'[k] \in {queue[l] : l \in DOMAIN queue} BY <1>4
<1>7. Known(path) BY <1>4 DEF Depthwise
<1>8. walk' = "visit" => Known(current') BY <1>2, <1>7
<1>9. ASSUME NEW n \in DOMAIN best, Waiting(n) \/ Visiting(E, N, n)
      PROVE  (Waiting(n) \/ Visiting(E, N, n) \/ Expanded(E, N, n))'
  <2>1. PICK k \in DOMAIN queue : EndOf(queue[k]) = n /\ Len(queue[k]) = best[n]
    BY <1>2, <1>9 DEF Waiting, Visiting
  <2>2. CASE k # 1
    <3>1. PICK l \in DOMAIN queue' : queue'[l] = queue[k] BY <1>4, <2>2
    <3>2. EndOf(queue'[l]) = n /\ Len(queue'[l]) = best'[n] BY <1>2, <2>1, <3>1
    <3> QED BY <3>2 DEF Waiting, EndOf
  <2>3. CASE k = 1
    <3>1. EndOf(path) = n /\ Len(path) = best[n] BY <1>4, <2>1, <2>3
    <3>2. CASE TooLong(path)
      BY <1>2, <3>1, <3>2 DEF TooLong, Expanded
    <3>3. CASE ~TooLong(path)
      <4>1. \A e \in Leads(E, N, n) : \E i \in items' : edges[i] = e
        BY <1>2, <3>1, <3>3 DEF Search, Leads, Outgoing, FindEdges, LeadsOut, Range
      <4>2. EndOf(current') = n /\ Len(current') = best'[n] /\ walk' = "visit"
        BY <1>2, <3>1, <3>3
      <4> QED BY <1>5, <4>1, <4>2 DEF Visiting, EndOf
    <3> QED BY <3>2, <3>3
  <2> QED BY <2>2, <2>3
<1> QED BY <1>2, <1>5, <1>6, <1>8, <1>9, SearchGoesOn DEF WalkInv

\* A neighbor that is skipped is missing, or was known by a shorter path.
LEMMA SkippedIsNear ==
  ASSUME WalkTypes, Depthwise, NEW E, NEW N, Search(E, N), walk = "visit",
         NEW n \in entities, Skips(n)
  PROVE  Near(n, Len(current))
<1>1. current \in Paths /\ Len(current) \in Nat /\ DOMAIN current = 1..Len(current)
  BY DEF WalkTypes, Paths
<1>2. \A m \in DOMAIN best : best[m] \in Nat BY DEF Depthwise
<1>3. n = Origin \/ \E k \in DOMAIN current : n = current[k][3] BY DEF Skips, Missing, OnPath
<1>4. CASE n = Origin BY <1>1, <1>2, <1>4 DEF Search, Near
<1>5. ASSUME NEW k \in DOMAIN current, n = current[k][3] PROVE Near(n, Len(current))
  BY <1>1, <1>2, <1>5 DEF Depthwise, Known, Near
<1> QED BY <1>3, <1>4, <1>5

\* Finding an entity makes it near, and no other one farther.
LEMMA ReachedIsNear ==
  ASSUME Depthwise, NEW n, NEW path, Len(path) \in Nat, Reached(n, path)
  PROVE  /\ n \in DOMAIN best' /\ best'[n] <= Len(path)
         /\ \A m \in DOMAIN best' : best'[m] \in Nat
         /\ \A m \in DOMAIN best : m \in DOMAIN best' /\ best'[m] <= best[m]
         /\ \A m \in DOMAIN best' :
              \/ m \in DOMAIN best /\ best'[m] = best[m]
              \/ m = n /\ queue' = Append(queue, path) /\ best'[m] = Len(path)
         /\ queue' \in {queue, Append(queue, path)}
         /\ results' = results \cup {path}
<1>1. \A m \in DOMAIN best : best[m] \in Nat BY DEF Depthwise
<1>2. results' = results \cup {path} BY DEF Reached
<1> DEFINE queued == n \notin DOMAIN best \/ Len(path) <= best[n] + 2
           depth == IF n \in DOMAIN best THEN Min({best[n], Len(path)}) ELSE Len(path)
<1>3. /\ queue' = IF queued THEN Append(queue, path) ELSE queue
      /\ best' = IF queued
                 THEN [m \in DOMAIN best \cup {n} |-> IF m = n THEN depth ELSE best[m]]
                 ELSE best
  BY DEF Reached
<1>4. CASE ~queued
  <2>1. best' = best /\ queue' = queue BY <1>3, <1>4
  <2>2. n \in DOMAIN best /\ best[n] <= Len(path) BY <1>1, <1>4
  <2> QED BY <1>1, <1>2, <2>1, <2>2
<1>5. CASE queued
  <2>1. /\ depth \in Nat /\ depth <= Len(path)
        /\ n \in DOMAIN best => depth <= best[n]
        /\ depth = Len(path) \/ (n \in DOMAIN best /\ depth = best[n])
    <3>1. CASE n \notin DOMAIN best BY <3>1
    <3>2. CASE n \in DOMAIN best
      <4>1. \A a, b \in Nat : Min({a, b}) = IF a <= b THEN a ELSE b BY DEF Min
      <4> QED BY <1>1, <3>2, <4>1
    <3> QED BY <3>1, <3>2
  <2> HIDE DEF depth
  <2>2. DOMAIN best' = DOMAIN best \cup {n} /\ best'[n] = depth /\ queue' = Append(queue, path)
    BY <1>3, <1>5
  <2>3. \A m \in DOMAIN best \ {n} : best'[m] = best[m] BY <1>3, <1>5
  <2> QED BY <1>1, <1>2, <2>1, <2>2, <2>3
<1> QED BY <1>4, <1>5

\* Visiting a neighbor makes it near, and it waits when that is news.
LEMMA VisitSearches ==
  ASSUME WalkInv, Depthwise, NEW E, NEW N, Search(E, N), Visit
  PROVE  Depthwise' /\ Search(E, N)'
<1>1. walk = "visit" /\ UNCHANGED <<graph, walk, maxDepth, current, due>> BY DEF Visit
<1>2. PICK i \in items : /\ items' = items \ {i}
                         /\ IF Skips(edges[i][3]) THEN UNCHANGED <<queue, best, results>>
                            ELSE Reached(edges[i][3], Append(current, edges[i]))
  BY DEF Visit
<1>3. PICK n : n = edges[i][3] OBVIOUS
<1>4. PICK path : path = Append(current, edges[i]) OBVIOUS
<1>5. /\ current \in Paths /\ Len(current) \in Nat /\ DOMAIN current = 1..Len(current)
      /\ queue \in Seq(Paths) /\ edges \in Seq(Edges) /\ i \in DOMAIN edges /\ maxDepth \in Nat
  BY DEF WalkInv, WalkTypes, Paths
<1>6. /\ path \in Paths /\ Len(path) = Len(current) + 1 /\ EndOf(path) = n /\ path # <<>>
      /\ DOMAIN path = 1..Len(path) /\ path[Len(path)] = edges[i]
      /\ \A k \in DOMAIN current : path[k] = current[k]
  <2>1. edges[i] \in Edges BY <1>5
  <2>2. path \in Paths /\ Len(path) = Len(current) + 1 BY <1>4, <1>5, <2>1 DEF Paths
  <2>3. /\ DOMAIN path = 1..Len(path) /\ path[Len(path)] = edges[i]
        /\ \A k \in DOMAIN current : path[k] = current[k]
    BY <1>4, <1>5, <2>1, <2>2 DEF Paths
  <2>4. path # <<>> BY <1>5, <2>2
  <2> QED BY <1>3, <2>2, <2>3, <2>4 DEF EndOf
<1>7. /\ Range(edges)' = Range(edges) /\ edges' = edges /\ entities' = entities
  BY <1>1 DEF graph
<1>8. CASE Skips(n)
  <2>1. UNCHANGED <<queue, best, results>> BY <1>2, <1>3, <1>8
  <2>2. ASSUME NEW m \in DOMAIN best, Visiting(E, N, m) PROVE Visiting(E, N, m)'
    <3>1. n \in entities => Near(n, best[m] + 1)
      <4>1. n \in entities => Near(n, Len(current)) BY <1>1, <1>8, SkippedIsNear DEF WalkInv
      <4>2. best[m] = Len(current) BY <2>2 DEF Visiting
      <4> QED BY <1>5, <4>1, <4>2 DEF Near, Depthwise
    <3>2. \A e \in Leads(E, N, m) : Near(e[3], best[m] + 1) \/ \E k \in items' : edges[k] = e
      <4> SUFFICES ASSUME NEW e \in Leads(E, N, m)
                   PROVE  Near(e[3], best[m] + 1) \/ \E k \in items' : edges[k] = e
        OBVIOUS
      <4>1. e[3] \in entities BY DEF Leads, Search
      <4>2. CASE e = edges[i] BY <1>3, <3>1, <4>1, <4>2
      <4>3. CASE e # edges[i] BY <1>2, <2>2, <4>3 DEF Visiting
      <4> QED BY <4>2, <4>3
    <3> QED BY <1>1, <1>7, <2>1, <2>2, <3>2 DEF Visiting, Near, EndOf, Leads
  <2>3. \A m \in DOMAIN best : Waiting(m) => Waiting(m)' BY <2>1 DEF Waiting, EndOf
  <2>4. walk' = "visit" => Known(current') BY <1>1 DEF Depthwise
  <2> QED BY <1>1, <1>7, <2>1, <2>2, <2>3, <2>4, SearchGoesOn DEF WalkInv
<1>9. CASE ~Skips(n)
  <2>1. Reached(n, path) BY <1>2, <1>3, <1>4, <1>9
  <2>2. /\ n \in DOMAIN best' /\ best'[n] <= Len(path)
        /\ \A m \in DOMAIN best' : best'[m] \in Nat
        /\ \A m \in DOMAIN best : m \in DOMAIN best' /\ best'[m] <= best[m]
        /\ \A m \in DOMAIN best' :
             \/ m \in DOMAIN best /\ best'[m] = best[m]
             \/ m = n /\ queue' = Append(queue, path) /\ best'[m] = Len(path)
        /\ queue' \in {queue, Append(queue, path)}
        /\ results' = results \cup {path}
    BY <1>5, <1>6, <2>1, ReachedIsNear
  <2>3. \A m \in DOMAIN best : best[m] \in Nat BY DEF Depthwise
  <2>4. ASSUME NEW m, NEW d \in Nat, Near(m, d) PROVE Near(m, d)'
    BY <2>2, <2>3, <2>4 DEF Near
  <2>5. Near(n, Len(path))' BY <2>2 DEF Near
  <2>6. ASSUME NEW p \in Paths, Known(p) PROVE Known(p)'
    <3>1. \A k \in DOMAIN p : k \in Nat BY DEF Paths
    <3> QED BY <2>4, <2>6, <3>1 DEF Known
  <2>7. Known(path)'
    <3>1. Known(current)' BY <1>1, <1>5, <2>6 DEF Depthwise
    <3>2. \A k \in DOMAIN path : k = Len(path) \/ k \in DOMAIN current BY <1>5, <1>6
    <3> QED BY <1>1, <1>3, <1>6, <2>5, <3>1, <3>2 DEF Known
  <2>8. /\ \A k \in DOMAIN queue' : queue'[k] = path \/ \E l \in DOMAIN queue : queue'[k] = queue[l]
        /\ \A k \in DOMAIN queue : k \in DOMAIN queue' /\ queue'[k] = queue[k]
        /\ queue' = Append(queue, path) => \E k \in DOMAIN queue' : queue'[k] = path
    <3>1. CASE queue' = queue
      <4>1. queue # Append(queue, path)
        <5>1. Len(Append(queue, path)) = Len(queue) + 1 /\ Len(queue) \in Nat BY <1>5, <1>6
        <5> QED BY <5>1
      <4> QED BY <3>1, <4>1
    <3>2. CASE queue' = Append(queue, path)
      <4>1. /\ DOMAIN queue = 1..Len(queue) /\ Len(queue) \in Nat
            /\ DOMAIN queue' = 1..Len(queue) + 1 /\ queue'[Len(queue) + 1] = path
            /\ \A k \in DOMAIN queue : queue'[k] = queue[k]
        BY <1>5, <1>6, <3>2
      <4>2. \A k \in DOMAIN queue' : k = Len(queue) + 1 \/ k \in DOMAIN queue BY <4>1
      <4>3. Len(queue) + 1 \in DOMAIN queue' /\ DOMAIN queue \subseteq DOMAIN queue' BY <4>1
      <4> QED BY <4>1, <4>2, <4>3
    <3> QED BY <2>2, <3>1, <3>2
  <2>9. Depthwise'
    <3>1. Found \cup {n} \subseteq Found'
      <4>1. results \subseteq results' /\ path \in results' BY <2>2
      <4> QED BY <1>6, <4>1 DEF Found, EndOf
    <3>2. \A m \in DOMAIN best' : m \in Found' \cup {Origin} BY <2>2, <3>1 DEF Depthwise
    <3>3. \A k \in DOMAIN queue : queue[k] \in Paths BY <1>5
    <3>4. (\A k \in DOMAIN queue : Known(queue[k]))' BY <2>6, <2>7, <2>8, <3>3 DEF Depthwise
    <3>5. Known(current)' BY <1>1, <1>5, <2>6 DEF Depthwise
    <3> QED BY <2>2, <3>2, <3>4, <3>5 DEF Depthwise
  <2>10. ASSUME NEW m \in DOMAIN best, best'[m] = best[m], Waiting(m) PROVE Waiting(m)'
    <3>1. PICK k \in DOMAIN queue : EndOf(queue[k]) = m /\ Len(queue[k]) = best[m]
      BY <2>10 DEF Waiting
    <3>2. k \in DOMAIN queue' /\ EndOf(queue'[k]) = m /\ Len(queue'[k]) = best'[m]
      BY <2>8, <2>10, <3>1
    <3> QED BY <3>2 DEF Waiting, EndOf
  <2>11. ASSUME NEW m \in DOMAIN best, best'[m] = best[m], Expanded(E, N, m)
         PROVE  Expanded(E, N, m)'
    <3>1. best[m] + 1 \in Nat BY <2>3
    <3>2. CASE best[m] >= maxDepth BY <1>1, <2>11, <3>2 DEF Expanded
    <3>3. CASE \A e \in Leads(E, N, m) : Near(e[3], best[m] + 1)
      <4>1. PICK d \in Nat : d = best[m] + 1 BY <3>1
      <4>2. \A e \in Leads(E, N, m) : e[3] \in DOMAIN best' /\ best'[e[3]] <= d
        BY <2>4, <3>3, <4>1 DEF Near
      <4> QED BY <2>11, <4>1, <4>2 DEF Expanded, Near, Leads
    <3> QED BY <2>11, <3>2, <3>3 DEF Expanded
  <2>12. ASSUME NEW m \in DOMAIN best, best'[m] = best[m], Visiting(E, N, m)
         PROVE  Visiting(E, N, m)'
    <3>1. best[m] + 1 \in Nat /\ Len(path) = best[m] + 1 BY <1>6, <2>3, <2>12 DEF Visiting
    <3>2. ASSUME NEW e \in Leads(E, N, m)
          PROVE  \/ e[3] \in DOMAIN best' /\ best'[e[3]] <= best'[m] + 1
                 \/ \E k \in items' : edges[k] = e
      <4>1. CASE e = edges[i] BY <1>3, <2>2, <2>12, <3>1, <4>1
      <4>2. CASE Near(e[3], best[m] + 1)
        <5>2. PICK d \in Nat : d = best[m] + 1 BY <3>1
        <5>3. e[3] \in DOMAIN best' /\ best'[e[3]] <= d BY <2>4, <4>2, <5>2 DEF Near
        <5> QED BY <2>12, <5>2, <5>3
      <4>3. CASE e # edges[i] /\ ~Near(e[3], best[m] + 1) BY <1>2, <2>12, <3>2, <4>3 DEF Visiting
      <4> QED BY <4>1, <4>2, <4>3
    <3> QED BY <1>1, <1>7, <2>12, <3>2 DEF Visiting, Near, EndOf, Leads
  <2>13. ASSUME NEW m \in DOMAIN best'
         PROVE  (Waiting(m) \/ Visiting(E, N, m) \/ Expanded(E, N, m))'
    <3>1. CASE m \in DOMAIN best /\ best'[m] = best[m]
      BY <2>10, <2>11, <2>12, <3>1 DEF Search
    <3>2. CASE m = n /\ queue' = Append(queue, path) /\ best'[m] = Len(path)
      <4>1. PICK k \in DOMAIN queue' : queue'[k] = path BY <2>8, <3>2
      <4>2. EndOf(queue'[k]) = m /\ Len(queue'[k]) = best'[m] BY <1>6, <3>2, <4>1
      <4> QED BY <4>2 DEF Waiting, EndOf
    <3> QED BY <2>2, <2>13, <3>1, <3>2
  <2>14. Near(Origin, 0)' BY <2>4 DEF Search
  <2> QED BY <1>1, <1>7, <2>9, <2>13, <2>14 DEF Search
<1> QED BY <1>8, <1>9

Drained == walk = "done" => queue = <<>>

\* Every step of the search, and what is projected meanwhile, keeps it thorough.
LEMMA ThoroughStep ==
  ASSUME WalkInv, Thorough, [WNext]_wvars
  PROVE  Thorough'
<1>1. CASE Ask BY <1>1, AskSearches DEF Thorough, WalkInv
<1>2. CASE walk = "idle" /\ ~Ask
  <2>1. walk' = "idle"
    BY <1>2 DEF WNext, Expand, Visit, Visited, Answer, LearnEntity, Link, wvars, query
  <2> QED BY <2>1 DEF Thorough
<1>3. CASE walk # "idle"
  <2>1. PICK E, N : Search(E, N) BY <1>3 DEF Thorough
  <2>2. Depthwise BY <1>3 DEF Thorough
  <2>3. CASE Expand BY <2>1, <2>2, <2>3, ExpandSearches DEF Thorough
  <2>4. CASE Visit BY <2>1, <2>2, <2>4, VisitSearches DEF Thorough
  <2>5. ASSUME Range(edges) \subseteq Range(edges'), entities \subseteq entities',
               \A i \in DOMAIN edges : edges'[i] = edges[i],
               UNCHANGED <<query, due>>,
               walk' = walk \/ (walk' # "visit" /\ (walk = "visit" => items = {}))
        PROVE  Thorough'
    <3>1. UNCHANGED <<maxDepth, queue, best, current, items, results, due>> BY <2>5 DEF query
    <3>2. ASSUME NEW n \in DOMAIN best, Waiting(n)
          PROVE  (Waiting(n) \/ Visiting(E, N, n) \/ Expanded(E, N, n))'
      BY <3>1, <3>2 DEF Waiting, EndOf
    <3>3. ASSUME NEW n \in DOMAIN best, Visiting(E, N, n)
          PROVE  (Waiting(n) \/ Visiting(E, N, n) \/ Expanded(E, N, n))'
      <4>1. CASE walk' = walk
        <5>1. \A i \in items : i \in DOMAIN edges /\ edges'[i] = edges[i]
          BY <2>5 DEF WalkInv, WalkTypes
        <5> QED BY <3>1, <3>3, <4>1, <5>1 DEF Visiting, EndOf, Near, Leads
      <4>2. CASE items = {} BY <3>1, <3>3, <4>2 DEF Visiting, Expanded, Near, Leads
      <4> QED BY <2>5, <3>3, <4>1, <4>2 DEF Visiting
    <3>4. walk' = "visit" => Known(current') BY <2>2, <2>5, <3>1 DEF Depthwise
    <3>5. Depthwise' /\ Search(E, N)'
      BY <2>1, <2>2, <2>5, <3>1, <3>2, <3>3, <3>4, SearchGoesOn DEF WalkInv
    <3> QED BY <3>5 DEF Thorough
  <2>6. CASE Visited \/ Answer \/ UNCHANGED wvars
    BY <2>5, <2>6 DEF Visited, Answer, wvars, graph, query
  <2>7. CASE LearnEntity BY <2>5, <2>7 DEF LearnEntity, query
  <2>8. CASE Link
    <3>1. PICK e \in Edges : edges' = Append(edges, e) BY <2>8 DEF Link
    <3>2. edges \in Seq(Edges) BY DEF WalkInv, WalkTypes
    <3>3. \A i \in DOMAIN edges : i \in DOMAIN edges' /\ edges'[i] = edges[i] BY <3>1, <3>2
    <3>4. Range(edges) \subseteq Range(edges') BY <3>3 DEF Range
    <3> QED BY <2>5, <2>8, <3>3, <3>4 DEF Link, query
  <2>9. ~Ask BY <1>3 DEF Ask
  <2> QED BY <2>3, <2>4, <2>6, <2>7, <2>8, <2>9 DEF WNext
<1> QED BY <1>1, <1>2, <1>3

\* When all is explored, what is within reach is as near as it is within reach.
LEMMA ReachedAll ==
  ASSUME WalkTypes, Depthwise, NEW E, NEW N, Search(E, N), walk = "done", queue = <<>>
  PROVE  due \subseteq DOMAIN best
<1> DEFINE Bad == {k \in Nat : k <= maxDepth /\ \E n \in Reach(E, N, k) : ~Near(n, k)}
<1>1. maxDepth \in Nat /\ \A n \in DOMAIN best : best[n] \in Nat BY DEF WalkTypes, Depthwise
<1>2. /\ Reach(E, N, 0) = {Origin}
      /\ \A d \in Nat : Reach(E, N, d + 1) = Beyond(E, N, Reach(E, N, d))
  BY ReachGrows
<1>3. \A n \in DOMAIN best : Expanded(E, N, n) BY DEF Search, Waiting, Visiting
<1>4. Bad = {}
  <2> SUFFICES ASSUME Bad # {} PROVE FALSE OBVIOUS
  <2>1. PICK m \in Bad : \A k \in Bad : m <= k BY LeastNumber
  <2>2. m # 0 BY <1>2, <2>1 DEF Search
  <2>3. PICK l \in Nat : m = l + 1 /\ l < maxDepth /\ ~(m <= l)
    <3>1. m - 1 \in Nat /\ m = (m - 1) + 1 /\ m - 1 < maxDepth /\ ~(m <= m - 1)
      BY <1>1, <2>1, <2>2
    <3> QED BY <3>1
  <2>4. PICK n \in Reach(E, N, m) : ~Near(n, m) BY <2>1
  <2>5. \A p \in Reach(E, N, l) : Near(p, l) BY <1>1, <2>1, <2>3
  <2>6. n \in Beyond(E, N, Reach(E, N, l)) BY <1>2, <2>3, <2>4
  <2>7. CASE n \in Reach(E, N, l) BY <1>1, <2>3, <2>4, <2>5, <2>7 DEF Near
  <2>8. CASE n \notin Reach(E, N, l)
    <3>1. PICK e \in E : e[1] \in Reach(E, N, l) /\ e[3] = n /\ n \in N
      BY <2>6, <2>8 DEF Beyond
    <3>2. e[1] \in DOMAIN best /\ best[e[1]] <= l BY <2>5, <3>1 DEF Near
    <3>3. ~(best[e[1]] >= maxDepth) BY <1>1, <2>3, <3>2
    <3>4. Near(n, best[e[1]] + 1) BY <1>3, <3>1, <3>2, <3>3 DEF Expanded, Leads
    <3> QED BY <1>1, <2>3, <2>4, <3>2, <3>4 DEF Near
  <2> QED BY <2>7, <2>8
<1>5. \A n \in Reach(E, N, maxDepth) : Near(n, maxDepth) BY <1>1, <1>4
<1> QED BY <1>5 DEF Search, Near

(* Whatever is projected during a query, findPaths finds every entity that *)
(* was within maxDepth of the origin when it began, although an entity it  *)
(* meets again is queued again only at most two steps deeper, and nothing  *)
(* that is not within maxDepth in the end.                                 *)
THEOREM WalkIsComplete == WSpec => []FindsWhatIsReachable
<1>1. WInit => Thorough BY DEF WInit, Thorough
<1>2. WalkInv /\ Thorough /\ Drained => FindsWhatIsReachable
  <2> SUFFICES ASSUME WalkInv, Thorough, Drained, walk = "done"
               PROVE  /\ due \subseteq Found \cup {Origin}
                      /\ Found \subseteq Reach(Range(edges), entities, maxDepth)
    BY DEF FindsWhatIsReachable
  <2>1. PICK E, N : Search(E, N) BY DEF Thorough
  <2>2. Depthwise BY DEF Thorough
  <2>3. due \subseteq DOMAIN best BY <2>1, <2>2, ReachedAll DEF WalkInv, Drained
  <2>4. due \subseteq Found \cup {Origin} BY <2>2, <2>3 DEF Depthwise
  <2>5. \A path \in results : EndOf(path) \in Reach(Range(edges), entities, maxDepth)
    BY PathReaches DEF WalkInv, WalkTypes, WalksOnPaths, PathsArePaths
  <2> QED BY <2>4, <2>5 DEF Found
<1>3. WInit => WalkInv BY WalkInitial
<1>4. WalkInv /\ [WNext]_wvars => WalkInv' BY WalkStep
<1>5. WInit => Drained BY DEF WInit, Drained
<1>6. Drained /\ [WNext]_wvars => Drained'
  BY DEF Drained, WNext, Ask, Expand, Visit, Visited, Answer, LearnEntity, Link, wvars, query, graph
<1>7. WalkInv /\ Thorough /\ [WNext]_wvars => Thorough' BY ThoroughStep
<1> QED BY <1>1, <1>2, <1>3, <1>4, <1>5, <1>6, <1>7, PTL DEF WSpec

-----------------------------------------------------------------------------
(* The sums of the reports: a sum over a set is that over the set without  *)
(* an element it picks, and the value of that element.                     *)
PickOf(S) == CHOOSE x \in S : TRUE
Sums(U, S, f) ==
  f = [T \in SUBSET S |-> IF T = {} THEN 0 ELSE U[PickOf(T)] + f[T \ {PickOf(T)}]]
SumOf(U, S) == (CHOOSE f : Sums(U, S, f))[S]

\* The sums of the reports are such sums.
LEMMA SumIsSum ==
  ASSUME NEW S
  PROVE  Sum(S) = SumOf(Value, S)
BY DEF Sum, MapThenSumSet, MapThenFoldSet, Sums, SumOf, PickOf

Measured == {path \in results : EndOf(path) \in DOMAIN Value}
Measures == [path \in Measured |-> Value[EndOf(path)]]
LEMMA TotalIsSum == Total = SumOf(Measures, Measured)
<1> DEFINE Walked(f) ==
             f = [T \in SUBSET Measured |->
                   IF T = {} THEN 0 ELSE Value[EndOf(PickOf(T))] + f[T \ {PickOf(T)}]]
<1>1. Total = (CHOOSE f : Walked(f))[Measured]
  BY DEF Total, MapThenSumSet, MapThenFoldSet, Measured, PickOf
<1>2. ASSUME NEW f PROVE Walked(f) <=> Sums(Measures, Measured, f)
  <2>1. \A T \in SUBSET Measured : T # {} => PickOf(T) \in Measured BY DEF PickOf
  <2>2. \A T \in SUBSET Measured : T # {} => Measures[PickOf(T)] = Value[EndOf(PickOf(T))]
    BY <2>1 DEF Measures
  <2>3. [T \in SUBSET Measured |->
          IF T = {} THEN 0 ELSE Value[EndOf(PickOf(T))] + f[T \ {PickOf(T)}]]
        = [T \in SUBSET Measured |->
          IF T = {} THEN 0 ELSE Measures[PickOf(T)] + f[T \ {PickOf(T)}]]
    BY <2>2
  <2> QED BY <2>3 DEF Sums
<1> HIDE DEF Walked
<1>3. (CHOOSE f : Walked(f)) = (CHOOSE f : Sums(Measures, Measured, f)) BY <1>2
<1> QED BY <1>1, <1>3 DEF SumOf

\* What is chosen from a finite set leaves one element less.
LEMMA OneTakenOut ==
  ASSUME NEW S, IsFiniteSet(S), NEW x \in S
  PROVE  /\ IsFiniteSet(S \ {x}) /\ Cardinality(S) \in Nat /\ Cardinality(S \ {x}) \in Nat
         /\ Cardinality(S) = Cardinality(S \ {x}) + 1
BY FS_RemoveElement, FS_CardinalityType

\* What is picked from a set is in it.
LEMMA PickedIsIn == \A S : S # {} => PickOf(S) \in S
BY DEF PickOf

\* What the sums are.
LEMMA SumsValues ==
  ASSUME NEW U, NEW S, NEW f, Sums(U, S, f), NEW T \in SUBSET S
  PROVE  f[T] = IF T = {} THEN 0 ELSE U[PickOf(T)] + f[T \ {PickOf(T)}]
BY DEF Sums

\* The sums over the subsets of two sets agree where both are.
LEMMA SumsAgree ==
  ASSUME NEW U, NEW S, NEW T \in SUBSET S, NEW f, NEW g, Sums(U, S, f), Sums(U, T, g),
         IsFiniteSet(S)
  PROVE  \A R \in SUBSET T : f[R] = g[R]
<1> DEFINE Bad == {n \in Nat : \E R \in SUBSET T : Cardinality(R) = n /\ f[R] # g[R]}
<1>1. \A R \in SUBSET T : IsFiniteSet(R) BY FS_Subset
<1>2. \A R \in SUBSET T : Cardinality(R) \in Nat BY <1>1, FS_CardinalityType
<1> SUFFICES ASSUME Bad # {} PROVE FALSE BY <1>2
<1>3. PICK m \in Bad : \A n \in Bad : m <= n BY LeastNumber
<1>4. PICK R \in SUBSET T : Cardinality(R) = m /\ f[R] # g[R] BY <1>3
<1>5. /\ f[R] = IF R = {} THEN 0 ELSE U[PickOf(R)] + f[R \ {PickOf(R)}]
      /\ g[R] = IF R = {} THEN 0 ELSE U[PickOf(R)] + g[R \ {PickOf(R)}]
  BY SumsValues
<1>6. R # {} BY <1>4, <1>5
<1>7. PICK Q \in SUBSET T : Q = R \ {PickOf(R)} OBVIOUS
<1>8. Cardinality(Q) \in Nat /\ Cardinality(R) = Cardinality(Q) + 1
  BY <1>1, <1>6, <1>7, PickedIsIn, OneTakenOut
<1>9. ~(m <= Cardinality(Q)) BY <1>4, <1>8
<1>10. f[Q] = g[Q] BY <1>3, <1>8, <1>9
<1> QED BY <1>4, <1>5, <1>6, <1>7, <1>10

\* There are sums for every finite set.
LEMMA SumsExist ==
  ASSUME NEW U
  PROVE  \A S : IsFiniteSet(S) => \E f : Sums(U, S, f)
<1> DEFINE Bad == {n \in Nat : \E S : IsFiniteSet(S) /\ Cardinality(S) = n /\ ~\E f : Sums(U, S, f)}
<1> SUFFICES ASSUME Bad # {} PROVE FALSE BY FS_CardinalityType
<1>1. PICK m \in Bad : \A n \in Bad : m <= n BY LeastNumber
<1>2. PICK S : IsFiniteSet(S) /\ Cardinality(S) = m /\ ~\E f : Sums(U, S, f) BY <1>1
<1> DEFINE Smaller == {T \in SUBSET S : T # S}
           Fitting(T) == CHOOSE f : Sums(U, T, f)
           g == [T \in SUBSET S |->
                  IF T = {} THEN 0
                  ELSE U[PickOf(T)] + Fitting(T \ {PickOf(T)})[T \ {PickOf(T)}]]
<1>3. \A T \in Smaller : Sums(U, T, Fitting(T))
  <2> SUFFICES ASSUME NEW T \in Smaller PROVE \E f : Sums(U, T, f) OBVIOUS
  <2>1. IsFiniteSet(T) /\ Cardinality(T) \in Nat BY <1>2, FS_Subset, FS_CardinalityType
  <2>2. Cardinality(T) < m
    <3>1. Cardinality(T) <= m /\ (Cardinality(T) = m => T = S) BY <1>2, FS_Subset
    <3> QED BY <2>1, <3>1
  <2>3. ~(m <= Cardinality(T)) BY <1>1, <2>1, <2>2
  <2>4. Cardinality(T) \notin Bad BY <1>1, <2>3
  <2> QED BY <2>1, <2>4
<1> HIDE DEF Fitting
<1>4. \A T \in Smaller : g[T] = Fitting(T)[T]
  <2> SUFFICES ASSUME NEW T \in Smaller PROVE g[T] = Fitting(T)[T] OBVIOUS
  <2>1. g[T] = IF T = {} THEN 0
               ELSE U[PickOf(T)] + Fitting(T \ {PickOf(T)})[T \ {PickOf(T)}] OBVIOUS
  <2>2. PICK f : f = Fitting(T) OBVIOUS
  <2>3. Sums(U, T, f) BY <1>3, <2>2
  <2>4. T \in SUBSET T OBVIOUS
  <2>5. f[T] = IF T = {} THEN 0 ELSE U[PickOf(T)] + f[T \ {PickOf(T)}] BY <2>3, <2>4, SumsValues
  <2>6. CASE T = {} BY <2>1, <2>2, <2>5, <2>6
  <2>7. CASE T # {}
    <3>1. PICK Q \in Smaller : Q = T \ {PickOf(T)} /\ Q \in SUBSET T BY <2>7, PickedIsIn
    <3>2. PICK h : h = Fitting(Q) OBVIOUS
    <3>3. Sums(U, Q, h) BY <1>3, <3>2
    <3>4. IsFiniteSet(T) BY <1>2, FS_Subset
    <3>5. Q \in SUBSET Q OBVIOUS
    <3>6. f[Q] = h[Q] BY <2>3, <3>1, <3>3, <3>4, <3>5, SumsAgree
    <3> QED BY <2>1, <2>2, <2>5, <2>7, <3>1, <3>2, <3>6
  <2> QED BY <2>6, <2>7
<1>5. \A T \in SUBSET S : T # {} => T \ {PickOf(T)} \in Smaller BY PickedIsIn
<1>6. Sums(U, S, g) BY <1>4, <1>5 DEF Sums
<1> QED BY <1>2, <1>6

\* SumOf unfolded.
LEMMA SumSteps ==
  ASSUME NEW U, NEW S, IsFiniteSet(S)
  PROVE  SumOf(U, S) = IF S = {} THEN 0 ELSE U[PickOf(S)] + SumOf(U, S \ {PickOf(S)})
<1>1. PICK f : f = CHOOSE h : Sums(U, S, h) OBVIOUS
<1>2. Sums(U, S, f) BY <1>1, SumsExist
<1>3. SumOf(U, S) = f[S] BY <1>1 DEF SumOf
<1>4. S \in SUBSET S OBVIOUS
<1>5. f[S] = IF S = {} THEN 0 ELSE U[PickOf(S)] + f[S \ {PickOf(S)}] BY <1>2, <1>4, SumsValues
<1>6. CASE S = {} BY <1>3, <1>5, <1>6
<1>7. CASE S # {}
  <2>1. PICK Q \in SUBSET S : Q = S \ {PickOf(S)} OBVIOUS
  <2>2. PICK g : g = CHOOSE h : Sums(U, Q, h) OBVIOUS
  <2>3. IsFiniteSet(Q) BY FS_Subset
  <2>4. Sums(U, Q, g) BY <2>2, <2>3, SumsExist
  <2>5. Q \in SUBSET Q OBVIOUS
  <2>6. f[Q] = g[Q] BY <1>2, <2>4, <2>5, SumsAgree
  <2>7. SumOf(U, Q) = g[Q] BY <2>2 DEF SumOf
  <2> QED BY <1>3, <1>5, <1>7, <2>1, <2>6, <2>7
<1> QED BY <1>6, <1>7

\* A sum of numbers is a number.
LEMMA SumIsNat ==
  ASSUME NEW U
  PROVE  \A S : IsFiniteSet(S) /\ (\A x \in S : U[x] \in Nat) => SumOf(U, S) \in Nat
<1> DEFINE Good(S) == IsFiniteSet(S) /\ \A x \in S : U[x] \in Nat
           Bad == {n \in Nat : \E S : Good(S) /\ Cardinality(S) = n /\ SumOf(U, S) \notin Nat}
<1> SUFFICES ASSUME Bad # {} PROVE FALSE BY FS_CardinalityType
<1>1. PICK m \in Bad : \A n \in Bad : m <= n BY LeastNumber
<1>2. PICK S : Good(S) /\ Cardinality(S) = m /\ SumOf(U, S) \notin Nat BY <1>1
<1>3. SumOf(U, S) = IF S = {} THEN 0 ELSE U[PickOf(S)] + SumOf(U, S \ {PickOf(S)})
  BY <1>2, SumSteps
<1>4. S # {} BY <1>2, <1>3
<1>5. PICK x \in S : x = PickOf(S) BY <1>4, PickedIsIn
<1>6. PICK Q : Q = S \ {x} OBVIOUS
<1>7. IsFiniteSet(Q) /\ Cardinality(Q) \in Nat /\ Cardinality(S) = Cardinality(Q) + 1
  BY <1>2, <1>6, OneTakenOut
<1>8. Good(Q) BY <1>2, <1>6, <1>7
<1>9. ~(m <= Cardinality(Q)) BY <1>2, <1>7
<1>10. SumOf(U, Q) \in Nat BY <1>1, <1>7, <1>8, <1>9
<1>11. U[x] \in Nat BY <1>2
<1> QED BY <1>2, <1>3, <1>4, <1>5, <1>6, <1>10, <1>11

\* The order of the summands does not matter.
LEMMA AnyFirst ==
  ASSUME NEW U
  PROVE  \A S : IsFiniteSet(S) /\ (\A x \in S : U[x] \in Nat) =>
           \A x \in S : SumOf(U, S) = U[x] + SumOf(U, S \ {x})
<1> DEFINE Good(S) == IsFiniteSet(S) /\ \A x \in S : U[x] \in Nat
           Apart(S) == \A x \in S : SumOf(U, S) = U[x] + SumOf(U, S \ {x})
           Bad == {n \in Nat : \E S : Good(S) /\ Cardinality(S) = n /\ ~Apart(S)}
<1> SUFFICES ASSUME Bad # {} PROVE FALSE BY FS_CardinalityType
<1>1. PICK m \in Bad : \A n \in Bad : m <= n BY LeastNumber
<1>2. PICK S : Good(S) /\ Cardinality(S) = m /\ ~Apart(S) BY <1>1
<1>3. PICK x \in S : SumOf(U, S) # U[x] + SumOf(U, S \ {x}) BY <1>2
<1>4. PICK y \in S : y = PickOf(S) BY PickedIsIn
<1>5. SumOf(U, S) = U[y] + SumOf(U, S \ {y}) BY <1>2, <1>4, SumSteps
<1>6. x # y BY <1>3, <1>5
<1>7. PICK X : X = S \ {x} OBVIOUS
<1>8. PICK Y : Y = S \ {y} OBVIOUS
<1>9. PICK Q : Q = X \ {y} OBVIOUS
<1>10. Q = Y \ {x} /\ y \in X /\ x \in Y BY <1>6, <1>7, <1>8, <1>9
<1>11. /\ IsFiniteSet(X) /\ Cardinality(X) \in Nat /\ Cardinality(S) = Cardinality(X) + 1
       /\ IsFiniteSet(Y) /\ Cardinality(Y) \in Nat /\ Cardinality(S) = Cardinality(Y) + 1
  BY <1>2, <1>7, <1>8, OneTakenOut
<1>12. Good(X) /\ Good(Y) BY <1>2, <1>7, <1>8, <1>11
<1>13. ~(m <= Cardinality(X)) /\ ~(m <= Cardinality(Y)) BY <1>2, <1>11
<1>14. Apart(X) /\ Apart(Y) BY <1>1, <1>11, <1>12, <1>13
<1>15. SumOf(U, X) = U[y] + SumOf(U, Q) BY <1>9, <1>10, <1>14
<1>16. SumOf(U, Y) = U[x] + SumOf(U, Q) BY <1>10, <1>14
<1>17. IsFiniteSet(Q) /\ \A z \in Q : U[z] \in Nat BY <1>9, <1>10, <1>11, <1>12, OneTakenOut
<1>18. SumOf(U, Q) \in Nat BY <1>17, SumIsNat
<1>19. U[x] \in Nat /\ U[y] \in Nat BY <1>2
<1> HIDE DEF Good, Apart, Bad
<1>20. U[y] + (U[x] + SumOf(U, Q)) = U[x] + (U[y] + SumOf(U, Q)) BY <1>18, <1>19
<1> QED BY <1>3, <1>5, <1>7, <1>8, <1>15, <1>16, <1>20

\* Summands that reappear among others have at most their sum.
LEMMA SumsEmbed ==
  ASSUME NEW U, NEW W
  PROVE  \A S, T : \A h \in [T -> S] :
           /\ IsFiniteSet(S) /\ IsFiniteSet(T)
           /\ \A x \in S : U[x] \in Nat
           /\ \A t \in T : W[t] = U[h[t]]
           /\ \A s, t \in T : h[s] = h[t] => s = t
           => SumOf(W, T) <= SumOf(U, S)
<1> DEFINE Embeds(S, T, h) ==
             /\ IsFiniteSet(S) /\ IsFiniteSet(T) /\ h \in [T -> S]
             /\ \A x \in S : U[x] \in Nat
             /\ \A t \in T : W[t] = U[h[t]]
             /\ \A s, t \in T : h[s] = h[t] => s = t
           Bad == {n \in Nat : \E S, T, h : Embeds(S, T, h) /\ Cardinality(T) = n
                                            /\ ~(SumOf(W, T) <= SumOf(U, S))}
<1> SUFFICES ASSUME Bad # {} PROVE FALSE BY FS_CardinalityType
<1>1. PICK m \in Bad : \A n \in Bad : m <= n BY LeastNumber
<1>2. PICK S, T, h : Embeds(S, T, h) /\ Cardinality(T) = m /\ ~(SumOf(W, T) <= SumOf(U, S))
  BY <1>1
<1>3. SumOf(U, S) \in Nat BY <1>2, SumIsNat
<1>4. SumOf(W, T) = IF T = {} THEN 0 ELSE W[PickOf(T)] + SumOf(W, T \ {PickOf(T)})
  BY <1>2, SumSteps
<1>5. T # {} BY <1>2, <1>3, <1>4
<1>6. PICK t \in T : t = PickOf(T) BY <1>5, PickedIsIn
<1>7. PICK x \in S : x = h[t] BY <1>2
<1>8. SumOf(U, S) = U[x] + SumOf(U, S \ {x}) BY <1>2, AnyFirst
<1>9. PICK P : P = T \ {t} OBVIOUS
<1>10. PICK Q : Q = S \ {x} OBVIOUS
<1>11. PICK g : g = [s \in P |-> h[s]] OBVIOUS
<1>12. Embeds(Q, P, g)
  <2>1. IsFiniteSet(P) /\ IsFiniteSet(Q) BY <1>2, <1>9, <1>10, OneTakenOut
  <2>2. \A s \in P : h[s] \in Q BY <1>2, <1>7, <1>9, <1>10
  <2> QED BY <1>2, <1>9, <1>10, <1>11, <2>1, <2>2
<1>13. Cardinality(P) \in Nat /\ Cardinality(T) = Cardinality(P) + 1 BY <1>2, <1>9, OneTakenOut
<1>14. ~(m <= Cardinality(P)) BY <1>2, <1>13
<1>15. SumOf(W, P) <= SumOf(U, Q) BY <1>1, <1>12, <1>13, <1>14
<1>16. SumOf(U, Q) \in Nat BY <1>12, SumIsNat
<1>17. SumOf(W, P) \in Nat
  <2>1. \A s \in P : W[s] \in Nat BY <1>2, <1>9
  <2> QED BY <1>12, <2>1, SumIsNat
<1>18. U[x] \in Nat /\ W[t] = U[x] BY <1>2, <1>7
<1>19. SumOf(W, T) = U[x] + SumOf(W, P) BY <1>4, <1>5, <1>6, <1>9, <1>18
<1>20. SumOf(U, S) = U[x] + SumOf(U, Q) BY <1>8, <1>10
<1> HIDE DEF Embeds, Bad
<1> QED BY <1>2, <1>15, <1>16, <1>17, <1>18, <1>19, <1>20

-----------------------------------------------------------------------------
(* One way to each entity: then the paths that end with it are one path.   *)
\* What paths that end with the same entity have in common, when there is one way to each.
LEMMA SameEnds ==
  ASSUME OneWay, NEW p \in Paths, NEW q \in Paths, IsPath(p), IsPath(q), EndOf(p) = EndOf(q)
  PROVE  \A j \in Nat : j < Len(p) /\ j < Len(q) => p[Len(p) - j] = q[Len(q) - j]
<1> DEFINE Bad == {j \in Nat : j < Len(p) /\ j < Len(q) /\ p[Len(p) - j] # q[Len(q) - j]}
<1> SUFFICES ASSUME Bad # {} PROVE FALSE OBVIOUS
<1>1. PICK m \in Bad : \A n \in Bad : m <= n BY LeastNumber
<1>2. /\ Len(p) \in Nat /\ Len(q) \in Nat /\ DOMAIN p = 1..Len(p) /\ DOMAIN q = 1..Len(q)
      /\ m \in Nat /\ m < Len(p) /\ m < Len(q)
  BY <1>1 DEF Paths
<1>3. PICK k \in DOMAIN p : k = Len(p) - m BY <1>2
<1>4. PICK l \in DOMAIN q : l = Len(q) - m BY <1>2
<1>5. p[k] # q[l] BY <1>1, <1>3, <1>4
<1>6. p[k][3] = q[l][3]
  <2>1. CASE m = 0
    <3>1. k = Len(p) /\ l = Len(q) /\ p # <<>> /\ q # <<>> BY <1>2, <1>3, <1>4, <2>1
    <3> QED BY <3>1 DEF EndOf
  <2>2. CASE m # 0
    <3>1. m - 1 \in Nat /\ m - 1 < Len(p) /\ m - 1 < Len(q) /\ ~(m <= m - 1) BY <1>2, <2>2
    <3>2. p[Len(p) - (m - 1)] = q[Len(q) - (m - 1)] BY <1>1, <3>1
    <3>3. /\ Len(p) - (m - 1) = k + 1 /\ Len(q) - (m - 1) = l + 1
          /\ k + 1 \in DOMAIN p /\ l + 1 \in DOMAIN q /\ k + 1 # 1 /\ l + 1 # 1
          /\ (k + 1) - 1 = k /\ (l + 1) - 1 = l
      BY <1>2, <1>3, <1>4, <2>2
    <3>4. p[k + 1] = q[l + 1] BY <3>2, <3>3
    <3>5. p[k + 1][1] = p[k][3]
      <4>1. p[k + 1][1] = IF k + 1 = 1 THEN Origin ELSE p[(k + 1) - 1][3] BY <3>3 DEF IsPath
      <4> QED BY <3>3, <4>1
    <3>6. q[l + 1][1] = q[l][3]
      <4>1. q[l + 1][1] = IF l + 1 = 1 THEN Origin ELSE q[(l + 1) - 1][3] BY <3>3 DEF IsPath
      <4> QED BY <3>3, <4>1
    <3> QED BY <3>4, <3>5, <3>6
  <2> QED BY <2>1, <2>2
<1>7. p[k] \in Range(edges) /\ q[l] \in Range(edges) BY DEF IsPath
<1> QED BY <1>5, <1>6, <1>7 DEF OneWay

\* Where there is one way to each entity no path to it is shorter than another.
LEMMA NotShorter ==
  ASSUME OneWay, NEW p \in Paths, NEW q \in Paths, IsPath(p), IsPath(q), EndOf(p) = EndOf(q)
  PROVE  ~(Len(p) < Len(q))
<1> SUFFICES ASSUME Len(p) < Len(q) PROVE FALSE OBVIOUS
<1>1. Len(p) \in Nat /\ Len(q) \in Nat /\ DOMAIN p = 1..Len(p) /\ DOMAIN q = 1..Len(q)
  BY DEF Paths
<1>2. \A k \in DOMAIN q : q[k][3] # Origin BY DEF IsPath
<1>3. CASE p = <<>>
  <2>1. Len(q) \in DOMAIN q /\ q # <<>> BY <1>1, <1>3
  <2> QED BY <1>2, <1>3, <2>1 DEF EndOf
<1>4. CASE p # <<>>
  <2>1. PICK j \in Nat : j = Len(p) - 1
    <3>1. Len(p) # 0 BY <1>4 DEF Paths
    <3>2. Len(p) - 1 \in Nat BY <1>1, <3>1
    <3> QED BY <3>2
  <2>2. PICK l \in DOMAIN q : l = Len(q) - j /\ l # 1 /\ l - 1 \in DOMAIN q BY <1>1, <2>1
  <2>3. 1 \in DOMAIN p /\ Len(p) - j = 1 /\ j < Len(p) /\ j < Len(q) BY <1>1, <2>1
  <2>4. p[1] = q[l] BY <2>2, <2>3, SameEnds
  <2>5. p[1][1] = Origin BY <2>3 DEF IsPath
  <2>6. q[l][1] = q[l - 1][3] BY <2>2 DEF IsPath
  <2> QED BY <1>2, <2>2, <2>4, <2>5, <2>6
<1> QED BY <1>3, <1>4

\* Where there is one way to each entity there is one path to it.
LEMMA OneWayOnePath ==
  ASSUME OneWay, NEW p \in Paths, NEW q \in Paths, IsPath(p), IsPath(q), EndOf(p) = EndOf(q)
  PROVE  p = q
<1>1. Len(p) \in Nat /\ Len(q) \in Nat /\ DOMAIN p = 1..Len(p) /\ DOMAIN q = 1..Len(q)
  BY DEF Paths
<1>2. ~(Len(p) < Len(q)) BY NotShorter
<1>3. ~(Len(q) < Len(p)) BY NotShorter
<1>4. Len(p) = Len(q)
  <2>1. \A a, b \in Nat : ~(a < b) /\ ~(b < a) => a = b OBVIOUS
  <2> QED BY <1>1, <1>2, <1>3, <2>1, Zenon
<1>5. ASSUME NEW k \in DOMAIN p PROVE p[k] = q[k]
  <2>1. PICK j \in Nat : j = Len(p) - k BY <1>1
  <2>2. j < Len(p) /\ j < Len(q) /\ Len(p) - j = k /\ Len(q) - j = k BY <1>1, <1>4, <2>1
  <2> QED BY <2>2, SameEnds
<1> QED BY <1>1, <1>4, <1>5 DEF Paths

\* A query has found finitely many paths.
FiniteWalk == IsFiniteSet(results) /\ IsFiniteSet(Found)

\* A query finds finitely many paths.
LEMMA FiniteStep ==
  ASSUME FiniteWalk, [WNext]_wvars
  PROVE  FiniteWalk'
<1>1. CASE results' = results BY <1>1 DEF FiniteWalk, Found
<1>2. ASSUME NEW path, results' = results \cup {path} PROVE FiniteWalk'
  <2>1. Found' = Found \cup {EndOf(path)} BY <1>2 DEF Found, EndOf
  <2> QED BY <1>2, <2>1, FS_AddElement DEF FiniteWalk
<1>3. CASE Visit BY <1>1, <1>2, <1>3 DEF Visit, Reached
<1>4. CASE ~Visit
  <2>1. results' = results
    BY <1>4 DEF WNext, Ask, Expand, Visited, Answer, LearnEntity, Link, wvars, query
  <2> QED BY <1>1, <2>1
<1> QED BY <1>3, <1>4

\* The totals of a finished query, from the entities it found.
LEMMA TotalsHold ==
  ASSUME WalkInv, FiniteWalk, FindsWhatIsReachable
  PROVE  TotalsCountOnce
<1> SUFFICES ASSUME walk = "done"
             PROVE  /\ Total >= Sum(due \cap DOMAIN Value)
                    /\ OneWay => Total = Sum(Found \cap DOMAIN Value)
  BY DEF TotalsCountOnce
<1>1. IsFiniteSet(Measured)
  <2>1. Measured \in SUBSET results BY DEF Measured
  <2> QED BY <2>1, FS_Subset DEF FiniteWalk
<1>2. \A path \in Measured : Measures[path] \in Nat /\ Measures[path] = Value[EndOf(path)]
  BY LineageAssumption DEF Measured, Measures
<1>3. Origin \notin DOMAIN Value /\ \A o \in DOMAIN Value : Value[o] \in Nat BY LineageAssumption
<1>4. ASSUME NEW S \in SUBSET (Found \cap DOMAIN Value)
      PROVE  SumOf(Value, S) \in Nat /\ SumOf(Value, S) <= SumOf(Measures, Measured)
  <2> DEFINE Way(o) == CHOOSE path \in Measured : EndOf(path) = o
  <2>1. \A o \in S : Way(o) \in Measured /\ EndOf(Way(o)) = o
    <3> SUFFICES ASSUME NEW o \in S PROVE \E path \in Measured : EndOf(path) = o OBVIOUS
    <3> QED BY DEF Found, Measured
  <2> HIDE DEF Way
  <2>2. PICK h : h = [o \in S |-> Way(o)] OBVIOUS
  <2>3. h \in [S -> Measured] BY <2>1, <2>2
  <2>4. \A o \in S : Value[o] = Measures[h[o]] BY <1>2, <2>1, <2>2
  <2>5. \A s, t \in S : h[s] = h[t] => s = t BY <2>1, <2>2
  <2>6. S \in SUBSET Found OBVIOUS
  <2>7. IsFiniteSet(S) BY <2>6, FS_Subset DEF FiniteWalk
  <2>8. \A path \in Measured : Measures[path] \in Nat BY <1>2
  <2>9. SumOf(Value, S) <= SumOf(Measures, Measured)
    BY <1>1, <2>3, <2>4, <2>5, <2>7, <2>8, SumsEmbed
  <2>10. \A o \in S : Value[o] \in Nat BY <1>3
  <2>11. SumOf(Value, S) \in Nat BY <2>7, <2>10, SumIsNat
  <2> QED BY <2>9, <2>11
<1>5. SumOf(Measures, Measured) \in Nat BY <1>1, <1>2, SumIsNat
<1>6. Total >= Sum(due \cap DOMAIN Value)
  <2>1. PICK S \in SUBSET (Found \cap DOMAIN Value) : S = due \cap DOMAIN Value
    BY <1>3 DEF FindsWhatIsReachable
  <2>2. Sum(S) = SumOf(Value, S) BY SumIsSum
  <2> QED BY <1>4, <1>5, <2>1, <2>2, TotalIsSum
<1>7. ASSUME OneWay PROVE Total = Sum(Found \cap DOMAIN Value)
  <2>1. PICK S \in SUBSET (Found \cap DOMAIN Value) : S = Found \cap DOMAIN Value OBVIOUS
  <2>2. Sum(S) = SumOf(Value, S) BY SumIsSum
  <2>3. PICK h : h = [path \in Measured |-> EndOf(path)] OBVIOUS
  <2>4. h \in [Measured -> S] BY <2>1, <2>3 DEF Found, Measured
  <2>5. \A path \in Measured : Measures[path] = Value[h[path]] BY <1>2, <2>3
  <2>6. ASSUME NEW p \in Measured, NEW q \in Measured, h[p] = h[q] PROVE p = q
    <3>1. EndOf(p) = EndOf(q) BY <2>3, <2>6
    <3>2. p \in Paths /\ q \in Paths /\ IsPath(p) /\ IsPath(q)
      BY DEF WalkInv, WalkTypes, WalksOnPaths, PathsArePaths, Measured
    <3> QED BY <1>7, <3>1, <3>2, OneWayOnePath
  <2>7. S \in SUBSET Found OBVIOUS
  <2>8. IsFiniteSet(S) BY <2>7, FS_Subset DEF FiniteWalk
  <2>9. \A o \in S : Value[o] \in Nat BY <1>3
  <2>10. SumOf(Measures, Measured) <= SumOf(Value, S)
    BY <1>1, <2>4, <2>5, <2>6, <2>8, <2>9, SumsEmbed
  <2>11. SumOf(Value, S) \in Nat /\ SumOf(Value, S) <= SumOf(Measures, Measured) BY <1>4
  <2> QED BY <1>5, <2>1, <2>2, <2>10, <2>11, TotalIsSum
<1> QED BY <1>6, <1>7

(* The totals of usageAttribution, bestProducts and rank count the value   *)
(* of every observation that was within reach when the query began, and    *)
(* count it once wherever an entity has no more than one link to it.       *)
THEOREM ReportsCount == WSpec => []TotalsCountOnce
<1>1. WInit => FiniteWalk
  <2>1. WInit => results = {} /\ Found = {} BY DEF WInit, Found
  <2> QED BY <2>1, FS_EmptySet DEF FiniteWalk
<1>2. FiniteWalk /\ [WNext]_wvars => FiniteWalk' BY FiniteStep
<1>3. WInit => WalkInv BY WalkInitial
<1>4. WalkInv /\ [WNext]_wvars => WalkInv' BY WalkStep
<1>5. WalkInv /\ FiniteWalk /\ FindsWhatIsReachable => TotalsCountOnce BY TotalsHold
<1> QED BY <1>1, <1>2, <1>3, <1>4, <1>5, WalkIsComplete, PTL DEF WSpec
=============================================================================
