------------------------------- MODULE Forecasts -------------------------------
(***************************************************************************)
(* Forecasts and their resolution.  issue-forecasts.mjs goes through the   *)
(* predictions of the hypotheses and appends a forecast for each that has  *)
(* none yet for its window; resolve-forecasts.mjs reads the forecasts and  *)
(* the resolutions, and for each forecast whose window has closed appends  *)
(* a resolution, or an attempt that will be made again.  Both are scripts  *)
(* somebody starts, at any time and side by side, and share nothing but    *)
(* the files; every read, query and append is an await.                    *)
(***************************************************************************)
EXTENDS Naturals, Sequences, FiniteSets, SequencesExt

CONSTANTS
  Jobs,         \* the runs of the scripts that may be in progress together
  Hypotheses,   \* what their predictions may be: sequences of [start, days, ruled], start
                \* a day or NoDay, ruled that RULES has the rule of the prediction
  DayLength,    \* instants of a day
  NoDay,        \* a prediction without window_start
  Entities,     \* the incumbents whose price is observed
  Values,       \* prices
  MaxNow, MaxRuns, \* bounds
  MaxLoad,      \* bound: observations, and twice the predictions, together
  MaxFaults     \* bound: crashes, failed queries and late observations

ASSUME ForecastsAssumption ==
  /\ Hypotheses \subseteq Seq([start : Nat \cup {NoDay}, days : Nat, ruled : BOOLEAN])
  /\ NoDay \notin Nat /\ DayLength \in Nat \ {0} /\ Values \subseteq Nat
  /\ {MaxNow, MaxLoad, MaxRuns, MaxFaults} \subseteq Nat

VARIABLES
  predictions, \* of hypotheses.json
  now,       \* the clock
  observed,  \* the observations in HydraDB: [at, entity, value]
  late,      \* history: those stored after the instant they were observed at
  forecasts, finals, \* forecasts.jsonl and resolutions.jsonl: [lines, torn]
  attempts,  \* resolution-attempts.jsonl: pairs of a key and the kind of attempt
  pc,        \* jobs: "idle"; an issuer at "read", "evidence" or "append";
             \* a resolver at "open", "finals", "take", "series" or "resolve"
  run,       \* jobs: what the run has in its variables
  overlapped, \* history: the scripts of which two runs were in progress together
  runs, faults \* budgets

files == <<forecasts, finals, attempts>>
world == <<predictions, now, observed, late>>
vars == <<world, files, pc, run, overlapped, runs, faults>>
-----------------------------------------------------------------------------
(* A line cut off by a crash has no newline: the next one is glued to it   *)
(* and lost with it, and a file with such a line reads as empty.           *)
Lines(file) == IF file.torn = "no" THEN file.lines ELSE <<>>
With(file, line) ==
  IF file.torn = "open" THEN [file EXCEPT !.torn = "closed"]
  ELSE [file EXCEPT !.lines = Append(@, line)]
TornAppend(file) == [file EXCEPT !.torn = "open"]

Prediction(f) == predictions[f.p]
(* forecast_id, and with it resolution_key: a prediction and its window.   *)
Key(f) == <<f.p, f.start>>
WindowEnd(f) == f.start + Prediction(f).days * DayLength
WindowStart(p) ==
  IF predictions[p].start = NoDay THEN now - (now % DayLength)
  ELSE predictions[p].start * DayLength

(* What is known of a series: HydraDB orders it by time only, so that of   *)
(* two observations of one instant either may come first.                  *)
InWindow(f) == {o \in observed : f.start <= o.at /\ o.at <= WindowEnd(f)}
Firsts(S) == {o \in S : \A x \in S : o.at <= x.at}
Lasts(S) == {o \in S : \A x \in S : x.at <= o.at}
(* slopePct and the rule: the outcomes the series allows, none when there  *)
(* are too few observations or the first price is zero.  (A slope is       *)
(* rounded to a hundredth of a percent: prices differ by more than that.)  *)
Slopes(S) == {ends \in Firsts(S) \X Lasts(S) : ends[1] # ends[2]}
Outcomes(S) == {ends[2].value > ends[1].value : ends \in {e \in Slopes(S) : e[1].value # 0}}
Undecided(S) == Slopes(S) = {} \/ \E ends \in Slopes(S) : ends[1].value = 0
-----------------------------------------------------------------------------
Idle == [i |-> 0, start |-> 0, issued |-> 0, list |-> <<>>,
         keys |-> {}, began |-> 0, outcome |-> FALSE, readAt |-> 0]
EmptyFile == [lines |-> <<>>, torn |-> "no"]

Init ==
  /\ predictions \in Hypotheses
  /\ now = 0 /\ observed = {} /\ late = {}
  /\ forecasts = EmptyFile /\ finals = EmptyFile /\ attempts = {}
  /\ pc = [j \in Jobs |-> "idle"] /\ run = [j \in Jobs |-> Idle]
  /\ overlapped = {} /\ runs = 0 /\ faults = 0

Issuing == {"read", "evidence", "append"}
Resolving == {"open", "finals", "take", "series", "resolve"}

Begin(j, others, script) ==
  /\ pc[j] = "idle" /\ runs < MaxRuns /\ runs' = runs + 1
  /\ overlapped' = IF \E k \in Jobs : pc[k] \in others THEN overlapped \cup {script} ELSE overlapped
  /\ UNCHANGED <<world, files, faults>>

Go(j, at, r) == pc' = [pc EXCEPT ![j] = at] /\ run' = [run EXCEPT ![j] = r]
End(j) == Go(j, "idle", Idle)
-----------------------------------------------------------------------------
(* issue-forecasts.mjs                                                     *)

(* The prediction after i, and the window it has as of now. *)
Following(j, i) ==
  IF i = Len(predictions) THEN End(j)
  ELSE Go(j, "read", [Idle EXCEPT !.i = i + 1, !.start = WindowStart(i + 1)])

StartIssuing(j) == Begin(j, Issuing, "issue") /\ Following(j, 0)

Issued(j) == \E f \in Range(Lines(forecasts)) : Key(f) = <<run[j].i, run[j].start>>

IssueRead(j) ==
  /\ pc[j] = "read"
  /\ \/ Issued(j) /\ Following(j, run[j].i)
     \/ ~Issued(j) /\ Go(j, "evidence", [run[j] EXCEPT !.issued = now])
  /\ UNCHANGED <<world, files, overlapped, runs, faults>>

(* validate: of what the script builds only the order of the two instants  *)
(* can be wrong.                                                           *)
Invalid(j) == run[j].start < run[j].issued

(* Only when the snapshot has been queried is the forecast checked.  (What *)
(* the snapshot holds, and that it is empty when HydraDB answers with an   *)
(* error, decides nothing here or in the resolver and is left out.)        *)
IssueEvidence(j) ==
  /\ pc[j] = "evidence"
  /\ IF Invalid(j) THEN Following(j, run[j].i) ELSE Go(j, "append", run[j])
  /\ UNCHANGED <<world, files, overlapped, runs, faults>>

IssueAppend(j) ==
  /\ pc[j] = "append"
  /\ forecasts' = With(forecasts, [p |-> run[j].i, start |-> run[j].start])
  /\ Following(j, run[j].i)
  /\ UNCHANGED <<world, finals, attempts, overlapped, runs, faults>>
-----------------------------------------------------------------------------
(* resolve-forecasts.mjs                                                   *)

StartResolving(j) ==
  /\ Begin(j, Resolving, "resolve")
  /\ Go(j, "open", [Idle EXCEPT !.began = now])

ReadForecasts(j) ==
  /\ pc[j] = "open"
  /\ Go(j, "finals", [run[j] EXCEPT !.list = Lines(forecasts)])
  /\ UNCHANGED <<world, files, overlapped, runs, faults>>

ReadFinals(j) ==
  /\ pc[j] = "finals"
  /\ Go(j, "take", [run[j] EXCEPT !.i = 1, !.keys = {r.key : r \in Range(Lines(finals))}])
  /\ UNCHANGED <<world, files, overlapped, runs, faults>>

(* Mutants: a window that ends now is still open; none is.                 *)
StillOpenAtEnd(f) == now <= WindowEnd(f)
StillOpenNever(f) == FALSE
StillOpen(f) == now < WindowEnd(f)

Taken(j) == run[j].list[run[j].i]
Further(j) == [run[j] EXCEPT !.i = @ + 1]
Attempt(j, kind) == attempts' = attempts \cup {<<Key(Taken(j)), kind>>}

(* A forecast is passed over when it is resolved or open; the rule of most *)
(* is not written yet.  (That it is valid was checked when it was issued.) *)
TakeForecast(j) ==
  /\ pc[j] = "take"
  /\ IF run[j].i > Len(run[j].list) THEN End(j) /\ UNCHANGED attempts
     ELSE \/ /\ Key(Taken(j)) \in run[j].keys \/ StillOpen(Taken(j))
             /\ Go(j, "take", Further(j)) /\ UNCHANGED attempts
          \/ /\ Key(Taken(j)) \notin run[j].keys /\ ~StillOpen(Taken(j))
             /\ IF Prediction(Taken(j)).ruled
                THEN Go(j, "series", run[j]) /\ UNCHANGED attempts
                ELSE Go(j, "take", Further(j)) /\ Attempt(j, "awaiting_data")
  /\ UNCHANGED <<world, forecasts, finals, overlapped, runs, faults>>

(* The series is read and judged; an error or too short a series is an     *)
(* attempt.                                                                *)
ReadSeries(j) ==
  /\ pc[j] = "series"
  /\ LET S == InWindow(Taken(j))
     IN \/ \E outcome \in Outcomes(S) :
             /\ Go(j, "resolve", [run[j] EXCEPT !.outcome = outcome, !.readAt = now])
             /\ UNCHANGED <<attempts, faults>>
        \/ /\ Undecided(S) /\ Attempt(j, "awaiting_data") /\ Go(j, "take", Further(j))
           /\ UNCHANGED faults
        \/ /\ faults < MaxFaults /\ faults' = faults + 1
           /\ Attempt(j, "transient_error") /\ Go(j, "take", Further(j))
  /\ UNCHANGED <<world, forecasts, finals, overlapped, runs>>

(* Mutant: the keys are those read at the start.                           *)
KeysThen(j) == run[j].keys
KeysNow(j) == run[j].keys \cup {Key(Taken(j))}

AppendFinal(j) ==
  /\ pc[j] = "resolve"
  /\ finals' = With(finals, [key |-> Key(Taken(j)), end |-> WindowEnd(Taken(j)),
                             outcome |-> run[j].outcome, readAt |-> run[j].readAt])
  /\ Go(j, "take", [Further(j) EXCEPT !.keys = KeysNow(j)])
  /\ UNCHANGED <<world, forecasts, attempts, overlapped, runs, faults>>
-----------------------------------------------------------------------------
(* A script is killed, or a query of an issuer throws; in an append it     *)
(* leaves a part of the line.                                              *)
Die(j) ==
  /\ pc[j] # "idle" /\ faults < MaxFaults /\ faults' = faults + 1
  /\ End(j)
  /\ \/ UNCHANGED <<forecasts, finals>>
     \/ pc[j] = "append" /\ forecasts' = TornAppend(forecasts) /\ UNCHANGED finals
     \/ pc[j] = "resolve" /\ finals' = TornAppend(finals) /\ UNCHANGED forecasts
  /\ UNCHANGED <<world, attempts, overlapped, runs>>

Tick ==
  /\ now < MaxNow /\ now' = now + 1
  /\ UNCHANGED <<predictions, observed, late, files, pc, run, overlapped, runs, faults>>

(* An observation comes in, perhaps of an earlier instant. *)
Observe ==
  /\ 2 * Len(predictions) + Cardinality(observed) < MaxLoad
  /\ \E at \in 0..now, entity \in Entities, value \in Values :
       /\ \A o \in observed : <<o.at, o.entity>> # <<at, entity>>
       /\ LET o == [at |-> at, entity |-> entity, value |-> value]
          IN /\ observed' = observed \cup {o}
             /\ \/ at = now /\ UNCHANGED <<late, faults>>
                \/ at < now /\ faults < MaxFaults /\ faults' = faults + 1 /\ late' = late \cup {o}
  /\ UNCHANGED <<predictions, now, files, pc, run, overlapped, runs>>

Issue(j) == StartIssuing(j) \/ IssueRead(j) \/ IssueEvidence(j) \/ IssueAppend(j)
Resolve(j) ==
  \/ StartResolving(j) \/ ReadForecasts(j) \/ ReadFinals(j)
  \/ TakeForecast(j) \/ ReadSeries(j) \/ AppendFinal(j)

Next == Tick \/ Observe \/ \E j \in Jobs : Issue(j) \/ Resolve(j) \/ Die(j)
Spec == Init /\ [][Next]_vars
-----------------------------------------------------------------------------
Observations == [at : Nat, entity : Entities, value : Values]
Forecast == [p : DOMAIN predictions, start : Nat]
Final == [key : (DOMAIN predictions) \X Nat, end : Nat, outcome : BOOLEAN, readAt : Nat]
Torn == {"no", "open", "closed"}

TypeOK ==
  /\ predictions \in Hypotheses
  /\ now \in 0..MaxNow /\ observed \subseteq Observations /\ late \subseteq observed
  /\ forecasts.torn \in Torn /\ Range(forecasts.lines) \subseteq Forecast
  /\ finals.torn \in Torn /\ Range(finals.lines) \subseteq Final
  /\ attempts \subseteq ((DOMAIN predictions) \X Nat) \X {"awaiting_data", "transient_error"}
  /\ \A j \in Jobs : pc[j] \in {"idle"} \cup Issuing \cup Resolving
  /\ overlapped \subseteq {"issue", "resolve"} /\ runs \in 0..MaxRuns /\ faults \in 0..MaxFaults

Once(file, name(_)) ==
  \A a, b \in DOMAIN file.lines : name(file.lines[a]) = name(file.lines[b]) => a = b

(* If runs of one script do not overlap and its file has no torn line, a   *)
(* prediction gets one forecast for a window, and a forecast one resolution *)
(* (also when it was issued twice), however often the scripts are started  *)
(* and killed.                                                             *)
RecordedOnce ==
  LET KeyOf(r) == r.key
  IN /\ "issue" \in overlapped \/ forecasts.torn # "no" \/ Once(forecasts, Key)
     /\ "resolve" \in overlapped \/ finals.torn # "no" \/ Once(finals, KeyOf)

(* An outcome judged after its window closed is one that the observations  *)
(* of the window allow for ever, if none of them came in late.             *)
OutcomesStand ==
  \A r \in Range(finals.lines) :
    LET S == InWindow([p |-> r.key[1], start |-> r.key[2]])
    IN r.readAt = r.end \/ S \cap late # {} \/ r.outcome \in Outcomes(S)

(* A resolver passes over no forecast whose window had closed when it      *)
(* began: it leaves a resolution or an attempt, whatever fails.            *)
ClosedIsHandled ==
  \A j \in Jobs : pc[j] \in {"take", "series", "resolve"} /\ finals.torn = "no" =>
    \A k \in 1..(run[j].i - 1) :
      LET f == run[j].list[k]
      IN WindowEnd(f) <= run[j].began =>
           \/ \E r \in Range(finals.lines) : r.key = Key(f)
           \/ \E kind \in {"awaiting_data", "transient_error"} : <<Key(f), kind>> \in attempts
=============================================================================
