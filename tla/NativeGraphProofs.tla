--------------------------- MODULE NativeGraphProofs ---------------------------
(***************************************************************************)
(* Theorems about EventIngest for any envelopes, requests and batches,     *)
(* overlapping ones included: its types, that answers are true, that an    *)
(* event_id is stored twice only if two requests with it were in progress  *)
(* together, and that statements run no oftener than their event is stored.*)
(* Then the same of NativeGraph, which does to the event store what        *)
(* EventIngest alone does, whose graph is made of stored events only, also *)
(* when requests race, and is what the log says when not.                  *)
(***************************************************************************)
EXTENDS NativeGraph, FiniteSetTheorems, SequenceTheorems, TLAPS

USE DEF Goto

\* A request in progress has an envelope to ingest.
LEMMA CurrentType ==
  ASSUME TypeOK, NEW q \in Requests, pc[q] \in InProgress
  PROVE  /\ Len(answers[q]) + 1 \in DOMAIN batch[q]
         /\ Current(q) \in Envelopes
         /\ Id[Current(q)] \in Ids
<1>1. batch[q] \in Seq(Envelopes) /\ answers[q] \in Seq(Answers)
  BY BatchAssumption DEF TypeOK
<1>2. Len(answers[q]) + 1 \in DOMAIN batch[q] BY <1>1 DEF TypeOK
<1> QED BY <1>1, <1>2 DEF Current, Ids

LEMMA AnswerType ==
  ASSUME TypeOK, NEW q \in Requests, pc[q] \in InProgress,
         NEW result \in Answers, Answer(q, result), batch' = batch
  PROVE  /\ pc' \in [Requests -> PCs]
         /\ answers' \in [Requests -> Seq(Answers)]
         /\ \A p \in Requests : pc'[p] = "idle" => answers'[p] = <<>>
         /\ \A p \in Requests : pc'[p] \in InProgress => Len(answers'[p]) < Len(batch'[p])
<1>1. batch[q] \in Seq(Envelopes) BY BatchAssumption DEF TypeOK
<1>2. answers'[q] = Append(answers[q], result) BY DEF Answer, TypeOK
<1>3. Len(answers'[q]) = Len(answers[q]) + 1 BY <1>2 DEF TypeOK
<1>4. pc'[q] \in InProgress => Len(answers'[q]) < Len(batch'[q])
  BY <1>1, <1>3 DEF TypeOK, Answer, InProgress
<1> QED BY <1>4 DEF TypeOK, Answer, PCs, InProgress

LEMMA TypeStep ==
  ASSUME TypeOK, [Next]_vars
  PROVE  TypeOK'
<1>1. ASSUME NEW q \in Requests, Lookup(q) PROVE TypeOK'
  <2>1. pc[q] \in InProgress BY <1>1 DEF Lookup, InProgress
  <2>2. CASE Goto(q, "append") /\ UNCHANGED answers
    BY <1>1, <2>1, <2>2 DEF Lookup, TypeOK, InProgress, PCs
  <2>3. ASSUME NEW result \in Answers, Answer(q, result) PROVE TypeOK'
    BY <1>1, <2>1, <2>3, AnswerType DEF Lookup, TypeOK
  <2> QED BY <1>1, <2>2, <2>3 DEF Lookup, Answers
<1>2. ASSUME NEW q \in Requests, AppendEnvelope(q) PROVE TypeOK'
  <2>1. Current(q) \in Envelopes BY <1>2, CurrentType DEF AppendEnvelope, InProgress
  <2> QED BY <1>2, <2>1 DEF AppendEnvelope, TypeOK, InProgress, PCs
<1>3. ASSUME NEW q \in Requests, Project(q) PROVE TypeOK'
  <2>1. Current(q) \in Envelopes BY <1>3, CurrentType DEF Project, InProgress
  <2>2. projected \in [Envelopes -> Nat] BY DEF TypeOK
  <2>3. \/ projected' = [projected EXCEPT ![Current(q)] = @ + 1]
        \/ projected' = projected
    BY <1>3 DEF Project
  <2>4. projected' \in [Envelopes -> Nat] BY <2>1, <2>2, <2>3
  <2> QED BY <1>3, <2>4 DEF Project, TypeOK, InProgress, PCs
<1>4. ASSUME NEW q \in Requests, UpdateCheckpoint(q) PROVE TypeOK'
  <2>1. pc[q] \in InProgress BY <1>4 DEF UpdateCheckpoint, InProgress
  <2>2. "new" \in Answers BY DEF Answers
  <2> QED BY <1>4, <2>1, <2>2, AnswerType, CurrentType DEF UpdateCheckpoint, SaveCheckpoint, TypeOK
<1>5. ASSUME NEW q \in Requests, NEW b \in Batches, Receive(q, b) PROVE TypeOK'
  <2>1. Len(<<>>) = 0 /\ b \in Seq(Envelopes) /\ b # <<>> BY BatchAssumption
  <2>2. Len(b) > 0 BY <2>1
  <2>3. shared' \subseteq Ids BY <1>5 DEF Receive, SharedWith, TypeOK
  <2> QED BY <1>5, <2>1, <2>2, <2>3 DEF Receive, TypeOK, InProgress, PCs
<1>6. CASE Crash BY <1>6, CrashAssumption DEF Crash, TypeOK, InProgress, PCs
<1>7. CASE UNCHANGED vars BY <1>7 DEF vars, TypeOK
<1> QED BY <1>1, <1>2, <1>3, <1>4, <1>5, <1>6, <1>7 DEF Next, Ingest

\* The log, the graph, the requests and their answers stay within their types, and a request
\* in progress has not been answered for all its envelopes.
THEOREM TypeCorrect == Spec => []TypeOK
<1>1. Init => TypeOK BY CrashAssumption DEF Init, TypeOK, PCs, InProgress
<1>2. TypeOK /\ [Next]_vars => TypeOK' BY TypeStep
<1> QED BY <1>1, <1>2, PTL DEF Spec
-----------------------------------------------------------------------------
(* Answers are true                                                        *)

\* What two requests in progress both carry is shared.
Exclusive ==
  \A p, q \in Requests : p # q /\ pc[p] \in InProgress /\ pc[q] \in InProgress =>
    \A id \in Ids : Carries(batch[p], id) /\ Carries(batch[q], id) => id \in shared

\* Every event_id that was never shared is stored once.
StoredOnce ==
  \A i, j \in DOMAIN log : Id[log[i]] = Id[log[j]] => i = j \/ Id[log[i]] \in shared

\* What was looked up is still so: no other request stored the id meanwhile, unless it shares it.
LookedUp ==
  \A q \in Requests :
    /\ pc[q] = "append" => ~Stored(Id[Current(q)]) \/ Id[Current(q)] \in shared
    /\ pc[q] \in {"project", "checkpoint"} => InLog(Current(q))

\* An id that is stored has a first line.
First(i, id) == Id[log[i]] = id /\ \A j \in 1 .. i - 1 : Id[log[j]] # id
FirstLines == \A n \in DOMAIN log : \E i \in DOMAIN log : First(i, Id[log[n]])

Exact == Exclusive /\ FirstLines /\ StoredOnce /\ LookedUp /\ AnswersAreTrue

\* An append leaves the lines before it where they are.
LEMMA FirstLinesStep ==
  ASSUME TypeOK, FirstLines, [Next]_vars
  PROVE  FirstLines'
<1>1. CASE log' = log BY <1>1 DEF FirstLines, First
<1>2. ASSUME NEW q \in Requests, AppendEnvelope(q) PROVE FirstLines'
  <2> DEFINE m == Len(log) + 1
  <2>1. Current(q) \in Envelopes BY <1>2, CurrentType DEF AppendEnvelope, InProgress
  <2>2. log' = Append(log, Current(q)) BY <1>2 DEF AppendEnvelope
  <2>3. /\ DOMAIN log = 1 .. Len(log) /\ Len(log) \in Nat
        /\ DOMAIN log' = 1 .. m /\ \A n \in DOMAIN log : log'[n] = log[n]
    BY <2>1, <2>2 DEF TypeOK
  <2>4. ASSUME NEW i \in DOMAIN log, NEW id, First(i, id) PROVE i \in DOMAIN log' /\ First(i, id)'
    <3>1. \A j \in 1 .. i - 1 : j \in DOMAIN log BY <2>3
    <3> QED BY <2>3, <2>4, <3>1 DEF First
  <2>5. SUFFICES ASSUME NEW n \in DOMAIN log' PROVE \E i \in DOMAIN log' : First(i, Id[log[n]])'
    BY DEF FirstLines
  <2>6. CASE n \in DOMAIN log
    <3>1. PICK i \in DOMAIN log : First(i, Id[log[n]]) BY <2>6 DEF FirstLines
    <3> QED BY <2>3, <2>4, <2>6, <3>1
  <2>7. CASE n \notin DOMAIN log /\ \E k \in DOMAIN log : Id[log[k]] = Id[log'[n]]
    <3>1. PICK k \in DOMAIN log : Id[log[k]] = Id[log'[n]] BY <2>7
    <3>2. PICK i \in DOMAIN log : First(i, Id[log[k]]) BY DEF FirstLines
    <3> QED BY <2>4, <3>1, <3>2
  <2>8. CASE n \notin DOMAIN log /\ ~\E k \in DOMAIN log : Id[log[k]] = Id[log'[n]]
    <3>1. n = m BY <2>3, <2>8
    <3>2. \A j \in 1 .. n - 1 : j \in DOMAIN log /\ log'[j] = log[j] BY <2>3, <3>1
    <3>3. First(n, Id[log[n]])' BY <2>8, <3>2 DEF First
    <3> QED BY <3>3
  <2> QED BY <2>6, <2>7, <2>8
<1> QED BY <1>1, <1>2
        DEF Next, Ingest, Lookup, Project, UpdateCheckpoint, Receive, Crash, vars

\* Requests start with ids of their own and keep their batches.
LEMMA ExclusiveStep ==
  ASSUME TypeOK, Exclusive, [Next]_vars
  PROVE  Exclusive'
<1>1. ASSUME NEW q \in Requests, NEW b \in Batches, Receive(q, b) PROVE Exclusive'
  <2>1. /\ batch' = [batch EXCEPT ![q] = b] /\ pc' = [pc EXCEPT ![q] = "lookup"]
        /\ shared' = shared \cup SharedWith(b)
    BY <1>1 DEF Receive
  <2>2. \A p \in Requests \ {q} : pc'[p] = pc[p] /\ batch'[p] = batch[p]
    BY <2>1 DEF TypeOK
  <2>3. batch'[q] = b BY <2>1 DEF TypeOK
  <2>4. \A p \in Requests \ {q} : \A id \in Ids :
          pc[p] \in InProgress /\ Carries(batch[p], id) /\ Carries(b, id) => id \in shared'
    BY <2>1 DEF SharedWith
  <2>5. shared \subseteq shared' BY <2>1
  <2>6. SUFFICES ASSUME NEW o \in Requests, NEW p \in Requests, o # p, pc'[o] \in InProgress,
                        pc'[p] \in InProgress, NEW id \in Ids,
                        Carries(batch'[o], id), Carries(batch'[p], id)
                 PROVE  id \in shared'
    BY DEF Exclusive, Carries
  <2>7. CASE o = q BY <2>2, <2>3, <2>4, <2>6, <2>7
  <2>8. CASE p = q BY <2>2, <2>3, <2>4, <2>6, <2>8
  <2>9. CASE o # q /\ p # q BY <2>2, <2>5, <2>6, <2>9 DEF Exclusive
  <2> QED BY <2>7, <2>8, <2>9
<1>2. ASSUME batch' = batch, shared' = shared, \A p \in Requests : pc'[p] \in InProgress => pc[p] \in InProgress
      PROVE  Exclusive'
  BY <1>2 DEF Exclusive, Carries
<1>3. ASSUME NEW q \in Requests, Ingest(q)
      PROVE  /\ batch' = batch /\ shared' = shared
             /\ \A p \in Requests : pc'[p] \in InProgress => pc[p] \in InProgress
  BY <1>3 DEF Ingest, Lookup, AppendEnvelope, Project, UpdateCheckpoint, Answer, TypeOK, InProgress
<1>4. CASE Crash BY <1>2, <1>4 DEF Crash, InProgress
<1>5. CASE UNCHANGED vars BY <1>2, <1>5 DEF vars
<1> QED BY <1>1, <1>2, <1>3, <1>4, <1>5 DEF Next

\* Existing finds a line of the id: the only one, if the id was never shared.
LEMMA ExistingIsTheLine ==
  ASSUME TypeOK, FirstLines, StoredOnce, NEW e \in Envelopes, Stored(Id[e])
  PROVE  /\ Existing(Id[e]) = e => InLog(e)
         /\ InLog(e) => Existing(Id[e]) = e \/ Id[e] \in shared
<1>1. \E i \in DOMAIN log : First(i, Id[e]) BY DEF Stored, Carries, FirstLines
<1>2. Existing(Id[e]) = log[CHOOSE i \in DOMAIN log : First(i, Id[e])] BY DEF Existing, First
<1>3. PICK i \in DOMAIN log : First(i, Id[e]) /\ Existing(Id[e]) = log[i] BY <1>1, <1>2
<1> QED BY <1>3 DEF First, InLog, StoredOnce

\* The next answer of a request is true if it is true of the envelope being ingested.
LEMMA AnswerIsTrue ==
  ASSUME TypeOK, AnswersAreTrue, NEW q \in Requests, pc[q] \in InProgress,
         NEW result \in Answers, Answer(q, result), batch' = batch, log' = log, shared' = shared,
         result \in {"new", "duplicate"} => InLog(Current(q)),
         result = "conflict" =>
           Stored(Id[Current(q)]) /\ (Id[Current(q)] \in shared \/ ~InLog(Current(q)))
  PROVE  AnswersAreTrue'
<1>1. answers[q] \in Seq(Answers) BY DEF TypeOK
<1>2. answers'[q] = Append(answers[q], result) BY DEF Answer, TypeOK
<1>3. \A e : InLog(e)' <=> InLog(e) BY DEF InLog
<1>4. \A id : Stored(id)' <=> Stored(id) BY DEF Stored, Carries
<1> SUFFICES ASSUME NEW p \in Requests, NEW i \in DOMAIN batch'[p]
             PROVE  /\ Answered(p, i, {"new", "duplicate"})' => InLog(batch[p][i])
                    /\ Answered(p, i, {"conflict"})' =>
                         Stored(Id[batch[p][i]])
                         /\ (Id[batch[p][i]] \in shared \/ ~InLog(batch[p][i]))
  BY <1>3, <1>4 DEF AnswersAreTrue
<1>5. CASE p # q \/ i # Len(answers[q]) + 1
  <2>1. \A results : Answered(p, i, results)' <=> Answered(p, i, results)
    BY <1>1, <1>2, <1>5 DEF Answered, Answer, TypeOK
  <2> QED BY <2>1 DEF AnswersAreTrue
<1>6. CASE p = q /\ i = Len(answers[q]) + 1
  <2>1. answers'[p][i] = result BY <1>1, <1>2, <1>6
  <2>2. batch[p][i] = Current(q) BY <1>6 DEF Current
  <2> QED BY <2>1, <2>2 DEF Answered
<1> QED BY <1>5, <1>6

\* A step that leaves the log alone and gives no answer.
LEMMA SilentStep ==
  ASSUME TypeOK, Exact, log' = log, answers' = answers, batch' = batch, shared' = shared,
         \A q \in Requests :
           /\ pc'[q] = "append" => pc[q] = "append" \/ ~Stored(Id[Current(q)])
           /\ pc'[q] \in {"project", "checkpoint"} => pc[q] \in {"project", "checkpoint"}
  PROVE  StoredOnce' /\ LookedUp' /\ AnswersAreTrue'
<1>1. \A e : InLog(e)' <=> InLog(e) BY DEF InLog
<1>2. \A id : Stored(id)' <=> Stored(id) BY DEF Stored, Carries
<1>3. \A q : Current(q)' = Current(q) BY DEF Current
<1>4. StoredOnce' BY DEF Exact, StoredOnce
<1>5. LookedUp' BY <1>1, <1>2, <1>3 DEF Exact, LookedUp
<1>6. AnswersAreTrue' BY <1>1, <1>2 DEF Exact, AnswersAreTrue, Answered
<1> QED BY <1>4, <1>5, <1>6

\* A step that answers for the current envelope.
LEMMA AnswerStep ==
  ASSUME TypeOK, Exact, NEW q \in Requests, pc[q] \in InProgress,
         NEW result \in Answers, Answer(q, result), batch' = batch, log' = log, shared' = shared,
         result \in {"new", "duplicate"} => InLog(Current(q)),
         result = "conflict" =>
           Stored(Id[Current(q)]) /\ (Id[Current(q)] \in shared \/ ~InLog(Current(q)))
  PROVE  StoredOnce' /\ LookedUp' /\ AnswersAreTrue'
<1>1. StoredOnce' BY DEF Exact, StoredOnce
<1>2. AnswersAreTrue' BY AnswerIsTrue DEF Exact
<1>3. ASSUME NEW p \in Requests
      PROVE  /\ (pc[p] = "append")' => (~Stored(Id[Current(p)]) \/ Id[Current(p)] \in shared)'
             /\ (pc[p] \in {"project", "checkpoint"})' => InLog(Current(p))'
  <2>1. CASE p = q BY <2>1 DEF Answer, TypeOK
  <2>2. CASE p # q
    <3>1. Current(p)' = Current(p) /\ pc'[p] = pc[p] BY <2>2 DEF Current, Answer, TypeOK
    <3> QED BY <3>1 DEF Exact, LookedUp, Stored, Carries, InLog
  <2> QED BY <2>1, <2>2
<1> QED BY <1>1, <1>2, <1>3 DEF LookedUp

LEMMA AppendStep ==
  ASSUME TypeOK, Exact, NEW q \in Requests, AppendEnvelope(q)
  PROVE  StoredOnce' /\ LookedUp' /\ AnswersAreTrue'
<1> DEFINE e == Current(q)
<1>1. pc[q] \in InProgress BY DEF AppendEnvelope, InProgress
<1>2. e \in Envelopes /\ Len(answers[q]) + 1 \in DOMAIN batch[q] BY <1>1, CurrentType
<1>3. (~Stored(Id[e]) \/ Id[e] \in shared) /\ shared' = shared
  BY DEF Exact, LookedUp, AppendEnvelope
<1>4. log' = Append(log, e) BY DEF AppendEnvelope
<1> HIDE DEF e
<1>5. /\ DOMAIN log' = DOMAIN log \cup {Len(log) + 1} /\ log'[Len(log) + 1] = e
      /\ \A i \in DOMAIN log : log'[i] = log[i]
  BY <1>2, <1>4 DEF TypeOK
<1>6. \A f : InLog(f)' <=> InLog(f) \/ f = e BY <1>5 DEF InLog
<1>7. \A id : Stored(id)' <=> Stored(id) \/ id = Id[e] BY <1>5 DEF Stored, Carries
<1>8. StoredOnce'
  <2> SUFFICES ASSUME NEW i \in DOMAIN log', NEW j \in DOMAIN log', Id[log'[i]] = Id[log'[j]]
               PROVE  i = j \/ Id[log'[i]] \in shared
    BY <1>3 DEF StoredOnce
  <2>1. CASE i \in DOMAIN log /\ j \in DOMAIN log BY <1>5, <2>1 DEF Exact, StoredOnce
  <2>2. CASE i \notin DOMAIN log BY <1>3, <1>5, <2>2 DEF Stored, Carries
  <2>3. CASE j \notin DOMAIN log BY <1>3, <1>5, <2>3 DEF Stored, Carries
  <2> QED BY <2>1, <2>2, <2>3
<1>9. ASSUME NEW p \in Requests
      PROVE  /\ (pc[p] = "append")' => (~Stored(Id[Current(p)]) \/ Id[Current(p)] \in shared)'
             /\ (pc[p] \in {"project", "checkpoint"})' => InLog(Current(p))'
  <2>1. Current(p)' = Current(p) BY DEF Current, AppendEnvelope
  <2>2. CASE p = q BY <1>6, <2>1, <2>2 DEF e, AppendEnvelope, TypeOK
  <2>3. CASE p # q
    <3>1. pc'[p] = pc[p] BY <2>3 DEF AppendEnvelope, TypeOK
    <3>2. ASSUME pc[p] = "append" PROVE Id[Current(p)] # Id[e] \/ Id[e] \in shared
      <4>1. pc[p] \in InProgress BY <3>2 DEF InProgress
      <4>2. Carries(batch[p], Id[Current(p)]) /\ Id[Current(p)] \in Ids
        BY <4>1, CurrentType DEF Carries, Current
      <4>3. Carries(batch[q], Id[e]) BY <1>2 DEF Carries, Current, e
      <4> QED BY <1>1, <2>3, <4>1, <4>2, <4>3 DEF Exact, Exclusive
    <3> QED BY <1>3, <1>6, <1>7, <2>1, <3>1, <3>2 DEF Exact, LookedUp
  <2> QED BY <2>2, <2>3
<1>10. ASSUME NEW p \in Requests, NEW i \in DOMAIN batch[p], Stored(Id[batch[p][i]])
      PROVE  batch[p][i] # e \/ Id[e] \in shared
  BY <1>3, <1>10
<1>11. AnswersAreTrue'
  <2>1. UNCHANGED <<batch, answers>> BY DEF AppendEnvelope
  <2> QED BY <1>3, <1>6, <1>7, <1>10, <2>1 DEF Exact, AnswersAreTrue, Answered
<1> QED BY <1>8, <1>9, <1>11 DEF LookedUp

LEMMA ReceiveStep ==
  ASSUME TypeOK, Exact, NEW q \in Requests, NEW b \in Batches, Receive(q, b)
  PROVE  StoredOnce' /\ LookedUp' /\ AnswersAreTrue'
<1>0. shared \subseteq shared' BY DEF Receive
<1>1. StoredOnce' BY <1>0 DEF Receive, Exact, StoredOnce
<1>2. ASSUME NEW p \in Requests
      PROVE  /\ (pc[p] = "append")' => (~Stored(Id[Current(p)]) \/ Id[Current(p)] \in shared)'
             /\ (pc[p] \in {"project", "checkpoint"})' => InLog(Current(p))'
             /\ \A i \in DOMAIN batch'[p] :
                  /\ Answered(p, i, {"new", "duplicate"})' => InLog(batch[p][i])'
                  /\ Answered(p, i, {"conflict"})' =>
                       /\ Stored(Id[batch[p][i]])'
                       /\ (Id[batch[p][i]] \in shared \/ ~InLog(batch[p][i]))'
  <2>1. CASE p = q BY <2>1 DEF Receive, TypeOK, Answered
  <2>2. CASE p # q
    <3>1. pc'[p] = pc[p] /\ batch'[p] = batch[p] /\ Current(p)' = Current(p)
      BY <2>2 DEF Receive, TypeOK, Current
    <3>2. UNCHANGED <<log, answers>> BY DEF Receive
    <3> QED BY <1>0, <3>1, <3>2
            DEF Exact, LookedUp, AnswersAreTrue, Answered, Stored, Carries, InLog
  <2> QED BY <2>1, <2>2
<1> QED BY <1>1, <1>2 DEF LookedUp, AnswersAreTrue

LEMMA ExactStep ==
  ASSUME TypeOK, Exact, [Next]_vars
  PROVE  Exact'
<1>1. ASSUME NEW q \in Requests, Lookup(q) PROVE StoredOnce' /\ LookedUp' /\ AnswersAreTrue'
  <2>1. pc[q] \in InProgress BY <1>1 DEF Lookup, InProgress
  <2>2. Current(q) \in Envelopes BY <2>1, CurrentType
  <2>3. UNCHANGED <<log, batch, shared>> BY <1>1 DEF Lookup
  <2>4. CASE Answer(q, "invalid") BY <2>1, <2>3, <2>4, AnswerStep DEF Answers
  <2>5. CASE ~Stored(Id[Current(q)]) /\ Goto(q, "append") /\ UNCHANGED answers
    BY <2>3, <2>5, SilentStep DEF TypeOK
  <2>6. CASE /\ Stored(Id[Current(q)])
             /\ Answer(q, IF Existing(Id[Current(q)]) = Current(q) THEN "duplicate" ELSE "conflict")
    <3>1. /\ Existing(Id[Current(q)]) = Current(q) => InLog(Current(q))
          /\ InLog(Current(q)) => Existing(Id[Current(q)]) = Current(q) \/ Id[Current(q)] \in shared
      BY <2>2, <2>6, ExistingIsTheLine DEF Exact
    <3> QED BY <2>1, <2>3, <2>6, <3>1, AnswerStep DEF Answers
  <2> QED BY <1>1, <2>4, <2>5, <2>6 DEF Lookup
<1>2. ASSUME NEW q \in Requests, Project(q) PROVE StoredOnce' /\ LookedUp' /\ AnswersAreTrue'
  BY <1>2, SilentStep DEF Project, TypeOK
<1>3. ASSUME NEW q \in Requests, UpdateCheckpoint(q)
      PROVE  StoredOnce' /\ LookedUp' /\ AnswersAreTrue'
  <2>1. InLog(Current(q)) BY <1>3 DEF UpdateCheckpoint, Exact, LookedUp
  <2>2. pc[q] \in InProgress BY <1>3 DEF UpdateCheckpoint, InProgress
  <2> QED BY <1>3, <2>1, <2>2, AnswerStep DEF UpdateCheckpoint, Answers
<1>4. ASSUME Crash \/ UNCHANGED vars PROVE StoredOnce' /\ LookedUp' /\ AnswersAreTrue'
  <2>1. UNCHANGED <<log, batch, answers, shared>> BY <1>4 DEF Crash, vars
  <2>2. \A q \in Requests : pc'[q] \in {"append", "project", "checkpoint"} => pc'[q] = pc[q]
    BY <1>4 DEF Crash, vars, TypeOK
  <2> QED BY <2>1, <2>2, SilentStep
<1>5. StoredOnce' /\ LookedUp' /\ AnswersAreTrue'
  BY <1>1, <1>2, <1>3, <1>4, AppendStep, ReceiveStep DEF Next, Ingest
<1> QED BY <1>5, ExclusiveStep, FirstLinesStep DEF Exact

LEMMA ExactInit == Init => Exact
BY BatchAssumption DEF Init, Exact, Exclusive, FirstLines, StoredOnce, LookedUp, AnswersAreTrue, InProgress

\* What a response says of an envelope is true of the store for ever, through crashes and
\* redeliveries: of an accepted one always, also when requests with its id overlap, and of one
\* refused for a conflict unless they did (canonical-ingestor.js: "conflict detection").
THEOREM TrueAnswers == Spec => []AnswersAreTrue
<1>1. TypeOK /\ Exact /\ [Next]_vars => Exact' BY ExactStep
<1>2. Exact => AnswersAreTrue BY DEF Exact
<1> QED BY <1>1, <1>2, ExactInit, TypeCorrect, PTL DEF Spec
-----------------------------------------------------------------------------
(* The ingestor implements an append-only log of event ids                 *)

Lines == [i \in DOMAIN log |-> Id[log[i]]]
Acked ==
  {id \in Ids : \E q \in Requests : \E i \in DOMAIN batch[q] :
     /\ pc[q] = "done" /\ Answered(q, i, {"new", "duplicate"})
     /\ Id[batch[q][i]] = id}

\* A response is final.
LEMMA AckedGrows ==
  ASSUME TypeOK, [Next]_vars
  PROVE  Acked \subseteq Acked'
<1>1. ASSUME NEW q \in Requests, pc[q] = "done"
      PROVE  pc'[q] = "done" /\ batch'[q] = batch[q] /\ answers'[q] = answers[q]
  <2> USE <1>1 DEF TypeOK
  <2>1. ASSUME NEW p \in Requests, Ingest(p)
        PROVE  pc'[q] = "done" /\ batch'[q] = batch[q] /\ answers'[q] = answers[q]
    BY <2>1 DEF Ingest, Lookup, AppendEnvelope, Project, UpdateCheckpoint, Answer
  <2>2. ASSUME NEW p \in Requests, NEW b \in Batches, Receive(p, b)
        PROVE  pc'[q] = "done" /\ batch'[q] = batch[q] /\ answers'[q] = answers[q]
    BY <2>2 DEF Receive
  <2>3. CASE Crash \/ UNCHANGED vars BY <2>3 DEF Crash, vars, InProgress
  <2> QED BY <2>1, <2>2, <2>3 DEF Next
<1> QED BY <1>1 DEF Acked, Answered

LEMMA AckedIsStored == AnswersAreTrue => \A id \in Acked : Stored(id)
<1> SUFFICES ASSUME AnswersAreTrue, NEW id \in Acked PROVE Stored(id) OBVIOUS
<1>1. PICK q \in Requests : \E i \in DOMAIN batch[q] :
        Answered(q, i, {"new", "duplicate"}) /\ Id[batch[q][i]] = id
  BY DEF Acked
<1>2. PICK i \in DOMAIN batch[q] : Answered(q, i, {"new", "duplicate"}) /\ Id[batch[q][i]] = id
  BY <1>1
<1>3. InLog(batch[q][i]) BY <1>2 DEF AnswersAreTrue
<1> QED BY <1>2, <1>3 DEF InLog, Stored, Carries

\* A request that arrives acknowledges nothing.
LEMMA ReceiveAcks ==
  ASSUME TypeOK, NEW q \in Requests, NEW b \in Batches, Receive(q, b)
  PROVE  Acked' = Acked
<1>1. \A p \in Requests \ {q} :
        pc'[p] = pc[p] /\ batch'[p] = batch[p] /\ answers'[p] = answers[p]
  BY DEF Receive, TypeOK
<1>2. pc[q] # "done" /\ pc'[q] # "done" BY DEF Receive, TypeOK
<1> QED BY <1>1, <1>2 DEF Acked, Answered

LEMMA IngestLogStep ==
  ASSUME TypeOK, Exact, [Next]_vars
  PROVE  Log!Next \/ UNCHANGED <<Lines, Acked, shared>>
<1>1. ASSUME NEW q \in Requests, AppendEnvelope(q) PROVE Log!Next
  <2>1. Current(q) \in Envelopes /\ Id[Current(q)] \in Ids
    BY <1>1, CurrentType DEF AppendEnvelope, InProgress
  <2>2. PICK id \in Ids : id = Id[Current(q)] BY <2>1
  <2>3. ~Stored(id) \/ id \in shared BY <1>1, <2>2 DEF AppendEnvelope, Exact, LookedUp
  <2>4. Lines' = Append(Lines, id) BY <1>1, <2>1, <2>2 DEF AppendEnvelope, Lines, TypeOK
  <2>5. Acked' = Acked BY <1>1 DEF AppendEnvelope, Acked, Answered, TypeOK
  <2>6. ~Log!Logged(id) \/ id \in shared BY <2>3 DEF Log!Logged, Stored, Carries
  <2>7. shared' = shared BY <1>1 DEF AppendEnvelope
  <2>8. Log!Add(id) BY <2>4, <2>5, <2>6, <2>7 DEF Log!Add, Lines, Acked
  <2> QED BY <2>8 DEF Log!Next
<1>2. CASE log' = log /\ shared' = shared
  <2>1. PICK ids \in SUBSET Ids : ids = Acked' BY DEF Acked
  <2>2. (\A id \in Acked : Stored(id))'
    <3>1. AnswersAreTrue' BY ExactStep DEF Exact
    <3> QED BY <3>1, AckedIsStored, PTL
  <2>3. \A id \in ids : Log!Logged(id)
    BY <1>2, <2>1, <2>2 DEF Log!Logged, Stored, Carries
  <2>4. Acked' = Acked \cup ids BY <2>1, AckedGrows
  <2>5. Log!Ack(ids) BY <1>2, <2>3, <2>4 DEF Log!Ack, Acked
  <2> QED BY <2>5 DEF Log!Next
<1>3. ASSUME NEW q \in Requests, NEW b \in Batches, Receive(q, b) PROVE Log!Next
  <2>1. PICK ids \in SUBSET Ids : shared' = shared \cup ids BY <1>3 DEF Receive, SharedWith
  <2>2. Acked' = Acked BY <1>3, ReceiveAcks
  <2>3. Lines' = Lines BY <1>3 DEF Receive, Lines
  <2>4. Log!Contest(ids) BY <2>1, <2>2, <2>3 DEF Log!Contest, Lines, Acked
  <2> QED BY <2>4 DEF Log!Next
<1>4. \/ log' = log /\ shared' = shared
      \/ \E q \in Requests : AppendEnvelope(q)
      \/ \E q \in Requests, b \in Batches : Receive(q, b)
  BY DEF Next, Ingest, Lookup, Project, UpdateCheckpoint, Crash, vars
<1> QED BY <1>1, <1>2, <1>3, <1>4

\* Every event_id is acknowledged only after it is stored, and stored a second time only if two
\* requests with it were in progress together, through crashes and redeliveries.
THEOREM IngestImplementsLog == Spec => ImplementsLog
<1>1. TypeOK /\ Exact /\ [Next]_vars => Exact' BY ExactStep
<1>2. Init => Log!Init BY DEF Init, Log!Init, Answered
<1>3. TypeOK /\ Exact /\ [Next]_vars => Log!Next \/ UNCHANGED <<Lines, Acked, shared>>
  BY IngestLogStep
<1> QED BY <1>1, <1>2, <1>3, ExactInit, TypeCorrect, PTL
        DEF Spec, ImplementsLog, Log!Spec, Lines, Acked
-----------------------------------------------------------------------------
(* Every event is projected at most as often as it is stored               *)

\* Who is about to run an event has appended it, and nobody else runs that line for him.
Due(e) == {q \in Requests : pc[q] = "project" /\ Current(q) = e}
LinesOf(e) == {i \in DOMAIN log : log[i] = e}
Paid(e) ==
  IsFiniteSet(Due(e)) /\ projected[e] + Cardinality(Due(e)) <= Cardinality(LinesOf(e))
AllPaid == \A e \in Envelopes : Paid(e)

LEMMA LinesAreFinite ==
  ASSUME TypeOK, NEW e
  PROVE  IsFiniteSet(LinesOf(e)) /\ Cardinality(LinesOf(e)) \in Nat
<1>1. IsFiniteSet(1 .. Len(log)) /\ DOMAIN log = 1 .. Len(log) BY FS_Interval DEF TypeOK
<1> QED BY <1>1, FS_Subset, FS_CardinalityType DEF LinesOf

\* A step that appends nothing, runs nothing and lets nobody start to project.
LEMMA PaidKept ==
  ASSUME TypeOK, AllPaid, projected' = projected, log' = log,
         \A q \in Requests : pc'[q] = "project" => pc[q] = "project" /\ Current(q)' = Current(q)
  PROVE  AllPaid'
<1> SUFFICES ASSUME NEW e \in Envelopes PROVE Paid(e)' BY DEF AllPaid
<1>1. Due(e)' \subseteq Due(e) BY DEF Due
<1>2. IsFiniteSet(Due(e)) BY DEF AllPaid, Paid
<1>3. /\ IsFiniteSet(Due(e)') /\ Cardinality(Due(e)') <= Cardinality(Due(e))
      /\ Cardinality(Due(e)) \in Nat /\ Cardinality(Due(e)') \in Nat
  BY <1>1, <1>2, FS_Subset, FS_CardinalityType
<1>4. LinesOf(e)' = LinesOf(e) BY DEF LinesOf
<1>5. projected[e] \in Nat BY DEF TypeOK
<1>6. projected[e] + Cardinality(Due(e)) <= Cardinality(LinesOf(e)) BY DEF AllPaid, Paid
<1>7. Cardinality(LinesOf(e)) \in Nat BY LinesAreFinite
<1>8. projected[e] + Cardinality(Due(e)') <= Cardinality(LinesOf(e))
  BY <1>3, <1>5, <1>6, <1>7
<1> QED BY <1>3, <1>4, <1>8 DEF Paid

LEMMA PaidAppend ==
  ASSUME TypeOK, AllPaid, NEW q \in Requests, AppendEnvelope(q)
  PROVE  AllPaid'
<1>1. PICK c \in Envelopes : c = Current(q)
  BY CurrentType DEF AppendEnvelope, InProgress
<1>2. log' = Append(log, c) /\ projected' = projected /\ pc[q] = "append"
  BY <1>1 DEF AppendEnvelope
<1>3. \A p \in Requests : Current(p)' = Current(p) BY DEF AppendEnvelope, Current
<1>4. pc'[q] = "project" /\ \A p \in Requests \ {q} : pc'[p] = pc[p]
  BY DEF AppendEnvelope, TypeOK
<1>5. /\ DOMAIN log' = DOMAIN log \cup {Len(log) + 1} /\ log'[Len(log) + 1] = c
      /\ Len(log) + 1 \notin DOMAIN log /\ \A i \in DOMAIN log : log'[i] = log[i]
  BY <1>2 DEF TypeOK
<1> SUFFICES ASSUME NEW e \in Envelopes PROVE Paid(e)' BY DEF AllPaid
<1>6. IsFiniteSet(Due(e)) /\ projected[e] + Cardinality(Due(e)) <= Cardinality(LinesOf(e))
  BY DEF AllPaid, Paid
<1>7. IsFiniteSet(LinesOf(e)) /\ Cardinality(LinesOf(e)) \in Nat BY LinesAreFinite
<1>8. Cardinality(Due(e)) \in Nat /\ projected[e] \in Nat
  BY <1>6, FS_CardinalityType DEF TypeOK
<1>9. CASE e = c
  <2>1. Due(e)' = Due(e) \cup {q} BY <1>1, <1>3, <1>4, <1>9 DEF Due
  <2>2. q \notin Due(e) BY <1>2 DEF Due
  <2>3. IsFiniteSet(Due(e)') /\ Cardinality(Due(e)') = Cardinality(Due(e)) + 1
    BY <1>6, <2>1, <2>2, FS_AddElement
  <2>4. LinesOf(e)' = LinesOf(e) \cup {Len(log) + 1} BY <1>5, <1>9 DEF LinesOf
  <2>5. Len(log) + 1 \notin LinesOf(e) BY <1>5 DEF LinesOf
  <2>6. Cardinality(LinesOf(e)') = Cardinality(LinesOf(e)) + 1
    BY <1>7, <2>4, <2>5, FS_AddElement
  <2>7. projected[e] + Cardinality(Due(e)') <= Cardinality(LinesOf(e)')
    BY <1>6, <1>7, <1>8, <2>3, <2>6
  <2> QED BY <1>2, <2>3, <2>7 DEF Paid
<1>10. CASE e # c
  <2>1. Due(e)' = Due(e) BY <1>1, <1>2, <1>3, <1>4, <1>10 DEF Due
  <2>2. LinesOf(e)' = LinesOf(e) BY <1>5, <1>10 DEF LinesOf
  <2> QED BY <1>2, <1>6, <2>1, <2>2 DEF Paid
<1> QED BY <1>9, <1>10

LEMMA PaidProject ==
  ASSUME TypeOK, AllPaid, NEW q \in Requests, Project(q)
  PROVE  AllPaid'
<1>1. PICK c \in Envelopes : c = Current(q)
  BY CurrentType DEF Project, InProgress
<1>2. log' = log /\ pc[q] = "project" BY DEF Project
<1>3. \A p \in Requests : Current(p)' = Current(p) BY DEF Project, Current
<1>4. pc'[q] = "checkpoint" /\ \A p \in Requests \ {q} : pc'[p] = pc[p]
  BY DEF Project, TypeOK
<1>5. /\ projected'[c] = projected[c] \/ projected'[c] = projected[c] + 1
      /\ \A e \in Envelopes \ {c} : projected'[e] = projected[e]
  BY <1>1 DEF Project, TypeOK
<1> SUFFICES ASSUME NEW e \in Envelopes PROVE Paid(e)' BY DEF AllPaid
<1>6. IsFiniteSet(Due(e)) /\ projected[e] + Cardinality(Due(e)) <= Cardinality(LinesOf(e))
  BY DEF AllPaid, Paid
<1>7. Cardinality(LinesOf(e)) \in Nat /\ LinesOf(e)' = LinesOf(e)
  BY <1>2, LinesAreFinite DEF LinesOf
<1>8. Cardinality(Due(e)) \in Nat /\ projected[e] \in Nat
  BY <1>6, FS_CardinalityType DEF TypeOK
<1>9. CASE e = c
  <2>1. Due(e)' = Due(e) \ {q} BY <1>1, <1>3, <1>4, <1>9 DEF Due
  <2>2. q \in Due(e) BY <1>1, <1>2, <1>9 DEF Due
  <2>3. IsFiniteSet(Due(e)') /\ Cardinality(Due(e)') = Cardinality(Due(e)) - 1
    BY <1>6, <2>1, <2>2, FS_RemoveElement
  <2>4. projected'[e] = projected[e] \/ projected'[e] = projected[e] + 1 BY <1>5, <1>9
  <2>5. projected'[e] + Cardinality(Due(e)') <= Cardinality(LinesOf(e))
    BY <1>6, <1>7, <1>8, <2>3, <2>4
  <2> QED BY <1>7, <2>3, <2>5 DEF Paid
<1>10. CASE e # c
  <2>1. Due(e)' = Due(e) BY <1>1, <1>2, <1>3, <1>4, <1>10 DEF Due
  <2> QED BY <1>5, <1>6, <1>7, <1>10, <2>1 DEF Paid
<1> QED BY <1>9, <1>10

LEMMA PaidStep ==
  ASSUME TypeOK, AllPaid, [Next]_vars
  PROVE  AllPaid'
<1>1. ASSUME NEW q \in Requests, Lookup(q) \/ UpdateCheckpoint(q) PROVE AllPaid'
  BY <1>1, PaidKept DEF Lookup, UpdateCheckpoint, Answer, Current, TypeOK
<1>2. ASSUME NEW q \in Requests, NEW b \in Batches, Receive(q, b) PROVE AllPaid'
  BY <1>2, PaidKept DEF Receive, Current, TypeOK
<1>3. CASE Crash BY <1>3, PaidKept DEF Crash, Current, TypeOK, InProgress
<1>4. CASE UNCHANGED vars BY <1>4, PaidKept DEF vars, Current
<1> QED BY <1>1, <1>2, <1>3, <1>4, PaidAppend, PaidProject DEF Next, Ingest

\* No statement runs in the graph more often than its event is stored, also when requests with
\* one id overlap (hydradb/projector.js: CREATE is not idempotent).
THEOREM ProjectionIsStored == Spec => []ProjectedAsStored
<1>1. Init => AllPaid
  <2> SUFFICES ASSUME Init, NEW e \in Envelopes PROVE Paid(e) BY DEF AllPaid
  <2>1. Due(e) = {} BY DEF Init, Due
  <2>2. LinesOf(e) = {} BY DEF Init, LinesOf
  <2>3. projected[e] = 0 BY DEF Init
  <2> QED BY <2>1, <2>2, <2>3, FS_EmptySet DEF Paid
<1>2. TypeOK /\ AllPaid /\ [Next]_vars => AllPaid' BY PaidStep
<1>3. TypeOK /\ AllPaid => ProjectedAsStored
  <2> SUFFICES ASSUME TypeOK, AllPaid, NEW e \in Envelopes
               PROVE  projected[e] <= Cardinality(LinesOf(e))
    BY DEF ProjectedAsStored, LinesOf
  <2>1. IsFiniteSet(Due(e)) /\ projected[e] + Cardinality(Due(e)) <= Cardinality(LinesOf(e))
    BY DEF AllPaid, Paid
  <2>2. Cardinality(Due(e)) \in Nat BY <2>1, FS_CardinalityType
  <2>3. Cardinality(LinesOf(e)) \in Nat /\ projected[e] \in Nat BY LinesAreFinite DEF TypeOK
  <2> QED BY <2>1, <2>2, <2>3
<1> QED BY <1>1, <1>2, <1>3, TypeCorrect, PTL DEF Spec
-----------------------------------------------------------------------------
(* The composition with the native graph                                   *)

LEMMA IngestStep ==
  ASSUME [NNext]_nvars
  PROVE  [Next]_vars
<1>1. CASE NNext
  BY <1>1 DEF NNext, NReceive, NProject, Next, Ingest
<1> QED BY <1>1 DEF nvars

\* NativeGraph is EventIngest with a graph: what is proved of the one holds of the other.
THEOREM NativeImplementsIngest == NSpec => Spec
<1>1. NInit => Init BY DEF NInit
<1>2. [NNext]_nvars => [Next]_vars BY IngestStep
<1> QED BY <1>1, <1>2, PTL DEF NSpec, Spec

\* With the graph and all its failing statements the server still answers truly and runs no
\* statement more often than its event is stored (canonical-ingestor.js: "idempotent").
THEOREM NativeAnswersTrue == NSpec => [](AnswersAreTrue /\ ProjectedAsStored)
<1>1. Spec => []AnswersAreTrue BY TrueAnswers
<1>2. Spec => []ProjectedAsStored BY ProjectionIsStored
<1> QED BY <1>1, <1>2, NativeImplementsIngest, PTL
-----------------------------------------------------------------------------
Copies == [made : Envelopes, set : Envelopes \cup {None}]

NTypeOK == native \in [Nodes -> Seq(Copies)]

\* What a request projects is in the store already.
StoredFirst == \A q \in Requests : pc[q] = "project" => InLog(Current(q))

NInv == TypeOK /\ NTypeOK /\ StoredFirst /\ NativeFollowsLog

LEMMA RunType ==
  ASSUME NTypeOK, NEW e \in Envelopes
  PROVE  Run(native, e) \in [Nodes -> Seq(Copies)]
<1>1. CASE Creates(e)
  <2>1. Node(e) \in Nodes BY <1>1 DEF Nodes
  <2>2. [made |-> e, set |-> None] \in Copies BY DEF Copies
  <2>3. Append(native[Node(e)], [made |-> e, set |-> None]) \in Seq(Copies)
    BY <2>1, <2>2 DEF NTypeOK
  <2> QED BY <1>1, <2>3 DEF Run, NTypeOK
<1>2. CASE ~Creates(e) /\ Sets(e)
  <2>1. Node(e) \in Nodes BY <1>2 DEF Nodes
  <2>2. native[Node(e)] \in Seq(Copies) BY <2>1 DEF NTypeOK
  <2> DEFINE updated == [c \in DOMAIN native[Node(e)] |-> [native[Node(e)][c] EXCEPT !.set = e]]
  <2>3. ASSUME NEW c \in DOMAIN native[Node(e)] PROVE updated[c] \in Copies
    <3>1. native[Node(e)][c] \in Copies BY <2>2
    <3>2. updated[c] = [native[Node(e)][c] EXCEPT !.set = e] OBVIOUS
    <3> HIDE DEF updated
    <3> QED BY <3>1, <3>2 DEF Copies
  <2>4. DOMAIN native[Node(e)] = 1 .. Len(native[Node(e)]) /\ Len(native[Node(e)]) \in Nat
    BY <2>2
  <2>5. updated \in [1 .. Len(native[Node(e)]) -> Copies]
    <3>1. DOMAIN updated = 1 .. Len(native[Node(e)]) BY <2>4
    <3>2. updated = [k \in DOMAIN updated |-> updated[k]] OBVIOUS
    <3> HIDE DEF updated
    <3> QED BY <2>3, <2>4, <3>1, <3>2
  <2>6. updated \in Seq(Copies)
    <3> HIDE DEF updated
    <3> QED BY <2>4, <2>5, SeqDef
  <2> QED BY <1>2, <2>6 DEF Run, NTypeOK
<1>3. CASE ~Creates(e) /\ ~Sets(e) BY <1>3 DEF Run, NTypeOK
<1> QED BY <1>1, <1>2, <1>3

\* A statement keeps the graph made of stored events.
LEMMA RunFollowsLog ==
  ASSUME NTypeOK, NativeFollowsLog, NEW e \in Envelopes, InLog(e),
         native' = Run(native, e), log' = log
  PROVE  NativeFollowsLog'
<1> SUFFICES ASSUME NEW n \in Nodes, NEW c \in DOMAIN native'[n]
             PROVE  /\ InLog(native'[n][c].made) /\ Creates(native'[n][c].made)
                    /\ Node(native'[n][c].made) = n
                    /\ native'[n][c].set # None =>
                         /\ InLog(native'[n][c].set) /\ Sets(native'[n][c].set)
                         /\ Node(native'[n][c].set) = n
  BY DEF NativeFollowsLog, InLog
<1>1. native[n] \in Seq(Copies) BY DEF NTypeOK
<1>2. CASE c \in DOMAIN native[n] /\ native'[n][c] = native[n][c]
  BY <1>2 DEF NativeFollowsLog
<1>3. CASE Creates(e) /\ Node(e) = n
  <2>1. native'[n] = Append(native[n], [made |-> e, set |-> None])
    BY <1>3 DEF Run, NTypeOK
  <2>2. CASE c \in DOMAIN native[n]
    <3>1. native'[n][c] = native[n][c] BY <1>1, <2>1, <2>2
    <3> QED BY <1>2, <2>2, <3>1
  <2>3. CASE c \notin DOMAIN native[n]
    <3>1. c = Len(native[n]) + 1 BY <1>1, <2>1, <2>3
    <3>2. native'[n][c] = [made |-> e, set |-> None] BY <1>1, <2>1, <3>1
    <3> QED BY <1>3, <3>2
  <2> QED BY <2>2, <2>3
<1>4. CASE ~Creates(e) /\ Sets(e) /\ Node(e) = n
  <2>1. native'[n] = [k \in DOMAIN native[n] |-> [native[n][k] EXCEPT !.set = e]]
    BY <1>4 DEF Run, NTypeOK
  <2>2. c \in DOMAIN native[n] BY <2>1
  <2>3. native[n][c] \in Copies BY <1>1, <2>2
  <2>4. native'[n][c] = [native[n][c] EXCEPT !.set = e] BY <2>1, <2>2
  <2>5. native'[n][c].made = native[n][c].made /\ native'[n][c].set = e
    BY <2>3, <2>4 DEF Copies
  <2> QED BY <1>4, <2>2, <2>5 DEF NativeFollowsLog
<1>5. CASE Node(e) # n \/ (~Creates(e) /\ ~Sets(e))
  <2>1. native'[n] = native[n] BY <1>5 DEF Run, NTypeOK
  <2> QED BY <1>2, <2>1
<1> QED BY <1>3, <1>4, <1>5

\* A longer log still holds what it held.
LEMMA LogGrows ==
  ASSUME NativeFollowsLog, native' = native,
         \A e : InLog(e) => InLog(e)'
  PROVE  NativeFollowsLog'
BY DEF NativeFollowsLog

LEMMA AppendKeeps ==
  ASSUME TypeOK, NEW e \in Envelopes, log' = Append(log, e)
  PROVE  InLog(e)' /\ \A f : InLog(f) => InLog(f)'
<1>1. log \in Seq(Envelopes) BY DEF TypeOK
<1>2. DOMAIN log' = DOMAIN log \cup {Len(log) + 1} /\ log'[Len(log) + 1] = e BY <1>1
<1>3. \A i \in DOMAIN log : log'[i] = log[i] BY <1>1
<1> QED BY <1>2, <1>3 DEF InLog

\* A request projects only what it has appended, and the log keeps it.
LEMMA StoredFirstStep ==
  ASSUME TypeOK, StoredFirst, [Next]_vars
  PROVE  StoredFirst'
<1> SUFFICES ASSUME NEW p \in Requests, pc'[p] = "project" PROVE InLog(Current(p))'
  BY DEF StoredFirst
<1> USE DEF TypeOK, StoredFirst, Goto
<1>1. CASE UNCHANGED vars BY <1>1 DEF vars, InLog, Current
<1>2. ASSUME pc[p] = "project", batch'[p] = batch[p], answers'[p] = answers[p], log' = log
      PROVE  InLog(Current(p))'
  BY <1>2 DEF InLog, Current
<1>3. ASSUME NEW q \in Requests, Lookup(q) PROVE InLog(Current(p))'
  <2>1. pc'[q] # "project" /\ \A r \in Requests \ {q} : pc'[r] = pc[r] /\ answers'[r] = answers[r]
    BY <1>3 DEF Lookup, Answer
  <2> QED BY <1>2, <1>3, <2>1 DEF Lookup
<1>4. ASSUME NEW q \in Requests, AppendEnvelope(q) PROVE InLog(Current(p))'
  <2>1. PICK e \in Envelopes : e = Current(q)
    BY <1>4, CurrentType DEF AppendEnvelope, InProgress
  <2>2. log' = Append(log, e) BY <1>4, <2>1 DEF AppendEnvelope
  <2>3. InLog(e)' /\ \A f : InLog(f) => InLog(f)' BY <2>2, AppendKeeps
  <2>4. Current(p)' = Current(p) BY <1>4 DEF AppendEnvelope, Current
  <2>5. CASE p = q
    <3>1. e = Current(p)' BY <2>1, <2>4, <2>5
    <3> QED BY <2>3, <3>1 DEF InLog
  <2>6. CASE p # q
    <3>1. InLog(Current(p)) BY <1>4, <2>6 DEF AppendEnvelope
    <3>2. PICK f : f = Current(p) /\ InLog(f) BY <3>1
    <3> QED BY <2>3, <2>4, <3>2 DEF InLog
  <2> QED BY <2>5, <2>6
<1>5. ASSUME NEW q \in Requests, Project(q) PROVE InLog(Current(p))'
  <2>1. p # q BY <1>5 DEF Project
  <2> QED BY <1>2, <1>5, <2>1 DEF Project
<1>6. ASSUME NEW q \in Requests, UpdateCheckpoint(q) PROVE InLog(Current(p))'
  <2>1. p # q BY <1>6 DEF UpdateCheckpoint, Answer
  <2> QED BY <1>2, <1>6, <2>1 DEF UpdateCheckpoint, Answer
<1>7. ASSUME NEW q \in Requests, NEW b \in Batches, Receive(q, b) PROVE InLog(Current(p))'
  <2>1. p # q BY <1>7 DEF Receive
  <2> QED BY <1>2, <1>7, <2>1 DEF Receive
<1>8. CASE Crash BY <1>2, <1>8 DEF Crash
<1> QED BY <1>1, <1>3, <1>4, <1>5, <1>6, <1>7, <1>8 DEF Next, Ingest

LEMMA NStep ==
  ASSUME NInv, [NNext]_nvars
  PROVE  NInv'
<1>1. [Next]_vars BY IngestStep
<1>2. TypeOK' /\ StoredFirst' BY <1>1, TypeStep, StoredFirstStep DEF NInv
<1>3. ASSUME native' = native, \A e : InLog(e) => InLog(e)' PROVE NInv'
  BY <1>2, <1>3, LogGrows DEF NInv, NTypeOK
<1>4. ASSUME native' = native, log' = log PROVE NInv'
  <2>1. \A e : InLog(e) => InLog(e)' BY <1>4 DEF InLog
  <2> QED BY <1>3, <1>4, <2>1
<1>5. ASSUME NEW q \in Requests, NProject(q) PROVE NInv'
  <2>1. pc[q] = "project" /\ log' = log BY <1>5 DEF NProject, Project
  <2>2. Current(q) \in Envelopes BY <2>1, CurrentType DEF NInv, InProgress
  <2>3. InLog(Current(q)) BY <2>1 DEF NInv, StoredFirst
  <2>4. CASE native' = native BY <1>4, <2>1, <2>4
  <2>5. CASE native' = Run(native, Current(q))
    BY <1>2, <2>1, <2>2, <2>3, <2>5, RunType, RunFollowsLog DEF NInv, NTypeOK
  <2> QED BY <1>5, <2>4, <2>5 DEF NProject
<1>6. ASSUME NEW q \in Requests, AppendEnvelope(q), native' = native PROVE NInv'
  <2>1. Current(q) \in Envelopes BY <1>6, CurrentType DEF NInv, AppendEnvelope, InProgress
  <2>2. \A f : InLog(f) => InLog(f)'
    BY <1>6, <2>1, AppendKeeps DEF NInv, AppendEnvelope
  <2> QED BY <1>3, <1>6, <2>2
<1>7. CASE \E q \in Requests : \E b \in Batches : NReceive(q, b)
  BY <1>4, <1>7 DEF NReceive, Receive
<1>8. CASE \E q \in Requests : (Lookup(q) \/ UpdateCheckpoint(q)) /\ native' = native
  BY <1>4, <1>8 DEF Lookup, UpdateCheckpoint
<1>9. CASE Crash /\ native' = native BY <1>4, <1>9 DEF Crash
<1>10. CASE UNCHANGED nvars BY <1>4, <1>10 DEF nvars, vars
<1> QED BY <1>5, <1>6, <1>7, <1>8, <1>9, <1>10 DEF NNext

LEMMA NInitial == NInit => NInv
<1> SUFFICES ASSUME NInit PROVE NInv OBVIOUS
<1>1. TypeOK 
  <2>1. Init BY DEF NInit
  <2>2. Init => TypeOK BY CrashAssumption DEF Init, TypeOK, PCs, InProgress
  <2> QED BY <2>1, <2>2
<1>2. NTypeOK BY DEF NInit, NTypeOK
<1>3. StoredFirst BY DEF NInit, Init, StoredFirst
<1>4. NativeFollowsLog
  <2>1. \A n \in Nodes : DOMAIN native[n] = {} BY DEF NInit
  <2> QED BY <2>1 DEF NativeFollowsLog
<1> QED BY <1>1, <1>2, <1>3, <1>4 DEF NInv

\* Whatever races, crashes, fails or is redelivered, the native graph is made of stored events:
\* every copy of a node was made, and last set, by an event of the log about that node
\* (canonical-ingestor.js: persist, then project).
THEOREM NativeGraphFollowsLog == NSpec => []NativeFollowsLog
<1>1. NInit => NInv BY NInitial
<1>2. NInv /\ [NNext]_nvars => NInv' BY NStep
<1>3. NInv => NativeFollowsLog BY DEF NInv
<1> QED BY <1>1, <1>2, <1>3, PTL DEF NSpec
-----------------------------------------------------------------------------
(* The native graph is what the log says                                   *)

\* Requests in progress together are about nodes of their own.
Separate ==
  \A p, q \in Requests : p # q /\ pc[p] \in InProgress /\ pc[q] \in InProgress =>
    \A i \in DOMAIN batch[p] : \A j \in DOMAIN batch[q] :
      Node(batch[p][i]) \in Nodes => Node(batch[p][i]) # Node(batch[q][j])

\* An event about a node is stored once; the request that appends it finds it not stored, and
\* the one that projects it finds it not yet projected, and last in the log of its node.
Once == \A i, j \in DOMAIN log : log[i] = log[j] /\ Node(log[i]) \in Nodes => i = j
Fresh == \A q \in Requests : pc[q] = "append" /\ Node(Current(q)) \in Nodes => ~InLog(Current(q))
LastOf(e, l) ==
  l \in DOMAIN log /\ log[l] = e /\ \A i \in DOMAIN log : Node(log[i]) = Node(e) => i <= l
Latest ==
  \A q \in Requests : pc[q] = "project" /\ Node(Current(q)) \in Nodes =>
    projected[Current(q)] = 0 /\ \E l \in DOMAIN log : LastOf(Current(q), l)

RanIsStored == \A e \in Envelopes : projected[e] > 0 => InLog(e)
LastSetter ==
  \A n \in Nodes : Setters(n) # {} => \E j \in Setters(n) : \A k \in Setters(n) : k <= j
Graph(n) ==
  /\ Len(native[n]) = Cardinality(Makers(n))
  /\ \A i \in Makers(n) : \E c \in DOMAIN native[n] : native[n][c] = Copy(n, i)

Turns == Separate /\ Fresh /\ Latest
Reads == Once /\ RanIsStored /\ LastSetter /\ \A n \in Nodes : Graph(n)
InOrder == ~raced => Turns /\ Reads

LEMMA NodeKinds ==
  ASSUME NEW e \in Envelopes
  PROVE  /\ Node(e) \in Nodes <=> Creates(e) \/ Sets(e)
         /\ ~(Creates(e) /\ Sets(e))
<1>1. ~(Creates(e) /\ Sets(e)) BY DEF Creates, Sets, CreateLabels, SetLabels
<1>2. Creates(e) \/ Sets(e) => Node(e) \in Nodes BY DEF Nodes
<1>3. ASSUME ~Creates(e), ~Sets(e) PROVE Node(e) \notin Nodes
  <2>1. Node(e) = <<>> BY <1>3 DEF Node
  <2>2. \A x, y : <<x, y>> # <<>> OBVIOUS
  <2>3. \A f \in Envelopes : Creates(f) \/ Sets(f) => \E x, y : Node(f) = <<x, y>> BY DEF Node
  <2>4. \A f \in Envelopes : Creates(f) \/ Sets(f) => Node(f) # <<>> BY <2>2, <2>3
  <2> QED BY <2>1, <2>4 DEF Nodes
<1> QED BY <1>1, <1>2, <1>3

\* The last setter after a copy is chosen, and it is one of them.
LEMMA LastLater ==
  ASSUME TypeOK, LastSetter, NEW n \in Nodes, NEW i \in DOMAIN log,
         NEW later, later = {j \in Setters(n) : j > i}, later # {}
  PROVE  \E m \in later : m = (CHOOSE j \in later : \A k \in later : k <= j)
<1>1. PICK j \in Setters(n) : \A k \in Setters(n) : k <= j BY DEF LastSetter
<1>2. log \in Seq(Envelopes) BY DEF TypeOK
<1>3. \A k \in DOMAIN log : k \in Nat BY <1>2
<1>4. Setters(n) \subseteq DOMAIN log BY DEF Setters
<1>5. j \in later
  <2>1. PICK k \in later : k \in Setters(n) /\ k > i BY <1>1
  <2>2. k <= j /\ j \in Nat /\ k \in Nat /\ i \in Nat BY <1>1, <1>3, <1>4, <2>1
  <2> QED BY <1>1, <2>1, <2>2
<1>6. \A k \in later : k <= j BY <1>1
<1> QED BY <1>5, <1>6

\* The readings of the log stay where the events that matter to the node do.
LEMMA ReadingKept ==
  ASSUME TypeOK, LastSetter, NEW n \in Nodes, Graph(n), native'[n] = native[n],
         Makers(n)' = Makers(n), Setters(n)' = Setters(n), \A i \in DOMAIN log : log'[i] = log[i]
  PROVE  Graph(n)'
<1>1. Makers(n) \subseteq DOMAIN log /\ Setters(n) \subseteq DOMAIN log BY DEF Makers, Setters
<1>2. ASSUME NEW i \in Makers(n) PROVE Copy(n, i)' = Copy(n, i)
  <2>1. PICK later : later = {j \in Setters(n) : j > i} OBVIOUS
  <2>2. later = {j \in Setters(n)' : j > i} BY <2>1
  <2>3. CASE later = {}
    <3>1. Copy(n, i) = [made |-> log[i], set |-> None] BY <2>1, <2>3 DEF Copy
    <3>2. Copy(n, i)' = [made |-> log'[i], set |-> None] BY <2>2, <2>3 DEF Copy
    <3> QED BY <1>1, <3>1, <3>2
  <2>4. CASE later # {}
    <3>1. PICK m \in later : m = (CHOOSE j \in later : \A k \in later : k <= j)
      BY <1>1, <2>1, <2>4, LastLater
    <3>2. Copy(n, i) = [made |-> log[i], set |-> log[m]] BY <2>1, <2>4, <3>1 DEF Copy
    <3>3. Copy(n, i)' = [made |-> log'[i], set |-> log'[m]] BY <2>2, <2>4, <3>1 DEF Copy
    <3>4. log'[m] = log[m] /\ log'[i] = log[i] BY <1>1, <2>1
    <3> QED BY <3>2, <3>3, <3>4
  <2> QED BY <2>3, <2>4
<1>3. Len(native'[n]) = Cardinality(Makers(n)') BY DEF Graph
<1>4. \A i \in Makers(n)' : \E c \in DOMAIN native'[n] : native'[n][c] = Copy(n, i)'
  BY <1>2 DEF Graph
<1> QED BY <1>3, <1>4 DEF Graph

\* Appending an event that has not been projected changes no reading of the log.
LEMMA AppendReads ==
  ASSUME TypeOK, Reads, NEW e \in Envelopes, Node(e) \in Nodes => ~InLog(e),
         log' = Append(log, e), UNCHANGED <<projected, native>>
  PROVE  Reads'
<1>1. log \in Seq(Envelopes) /\ projected \in [Envelopes -> Nat] BY DEF TypeOK
<1>2. PICK m \in Nat : m = Len(log) BY <1>1
<1>3. DOMAIN log = 1 .. m /\ DOMAIN log' = 1 .. m + 1 /\ log'[m + 1] = e BY <1>1, <1>2
<1>4. \A i \in DOMAIN log : log'[i] = log[i] /\ log[i] \in Envelopes /\ i \in DOMAIN log' /\ i # m + 1
  BY <1>1, <1>2
<1>5. \A i \in DOMAIN log' : i \notin DOMAIN log => i = m + 1 BY <1>3
<1>6. Node(e) \in Nodes => projected[e] = 0 BY <1>1 DEF Reads, RanIsStored
<1>7. Once'
  <2> SUFFICES ASSUME NEW i \in DOMAIN log', NEW j \in DOMAIN log', log'[i] = log'[j],
                      Node(log'[i]) \in Nodes, i # j
               PROVE  FALSE
    BY DEF Once
  <2>1. CASE i \in DOMAIN log /\ j \in DOMAIN log BY <1>4, <2>1 DEF Reads, Once
  <2>2. CASE i \notin DOMAIN log \/ j \notin DOMAIN log
    <3>1. \E k \in DOMAIN log : log[k] = e /\ Node(e) \in Nodes BY <1>3, <1>4, <1>5, <2>2
    <3> QED BY <3>1 DEF InLog
  <2> QED BY <2>1, <2>2
<1>8. RanIsStored'
  <2>1. \A f : InLog(f) => InLog(f)' BY <1>4 DEF InLog
  <2> QED BY <2>1 DEF Reads, RanIsStored
<1>9. \A n \in Nodes : Makers(n)' = Makers(n) /\ Setters(n)' = Setters(n)
  <2> SUFFICES ASSUME NEW n \in Nodes
               PROVE  Makers(n)' = Makers(n) /\ Setters(n)' = Setters(n)
    OBVIOUS
  <2>1. ~(projected[e] > 0 /\ (Creates(e) \/ Sets(e))) BY <1>1, <1>6, NodeKinds
  <2>2. \A i \in DOMAIN log' :
          projected[log'[i]] > 0 /\ (Creates(log'[i]) \/ Sets(log'[i])) => i \in DOMAIN log
    BY <1>3, <1>5, <2>1
  <2>3. Makers(n)' = {i \in DOMAIN log' : Creates(log'[i]) /\ Node(log'[i]) = n /\ projected[log'[i]] > 0}
    BY DEF Makers, Ran
  <2>4. Setters(n)' = {i \in DOMAIN log' : Sets(log'[i]) /\ Node(log'[i]) = n /\ projected[log'[i]] > 0}
    BY DEF Setters, Ran
  <2>5. Makers(n)' = Makers(n) BY <1>4, <2>2, <2>3 DEF Makers, Ran
  <2>6. Setters(n)' = Setters(n) BY <1>4, <2>2, <2>4 DEF Setters, Ran
  <2> QED BY <2>5, <2>6
<1>10. LastSetter' BY <1>9 DEF Reads, LastSetter
<1>11. \A n \in Nodes : Graph(n)' BY <1>4, <1>9, ReadingKept DEF Reads
<1> QED BY <1>7, <1>8, <1>10, <1>11 DEF Reads

\* The statement of the last event of a node runs for the first time.
LEMMA ProjectReads ==
  ASSUME TypeOK, NTypeOK, Reads, NEW e \in Envelopes, NEW l, LastOf(e, l), Node(e) \in Nodes,
         projected[e] = 0, projected' = [projected EXCEPT ![e] = @ + 1],
         native' = Run(native, e), log' = log
  PROVE  Reads'
<1>1. log \in Seq(Envelopes) /\ projected \in [Envelopes -> Nat] BY DEF TypeOK
<1>2. \A i \in DOMAIN log : i \in Nat /\ log[i] \in Envelopes BY <1>1
<1>3. l \in DOMAIN log /\ l \in Nat /\ log[l] = e BY <1>2 DEF LastOf
<1>4. \A i \in DOMAIN log : Node(log[i]) = Node(e) => i <= l BY DEF LastOf
<1>5. \A i \in DOMAIN log : log[i] = e => i = l BY <1>3 DEF Reads, Once
<1>6. projected'[e] > 0 /\ ~(projected[e] > 0) BY <1>1
<1>7. \A i \in DOMAIN log : i # l => projected'[log[i]] = projected[log[i]] BY <1>1, <1>2, <1>5
<1>8. Once' BY DEF Reads, Once
<1>9. RanIsStored' BY <1>1, <1>3 DEF Reads, RanIsStored, InLog
<1>10. PICK n \in Nodes : n = Node(e) BY DEF Nodes
<1>11. Makers(n)' = IF Creates(e) THEN Makers(n) \cup {l} ELSE Makers(n)
  <2>1. Makers(n)' = {i \in DOMAIN log : Creates(log[i]) /\ Node(log[i]) = n /\ projected'[log[i]] > 0}
    BY DEF Makers, Ran
  <2> QED BY <1>3, <1>6, <1>7, <1>10, <2>1 DEF Makers, Ran
<1>12. Setters(n)' = IF Sets(e) THEN Setters(n) \cup {l} ELSE Setters(n)
  <2>1. Setters(n)' = {i \in DOMAIN log : Sets(log[i]) /\ Node(log[i]) = n /\ projected'[log[i]] > 0}
    BY DEF Setters, Ran
  <2> QED BY <1>3, <1>6, <1>7, <1>10, <2>1 DEF Setters, Ran
<1>13. l \notin Makers(n) /\ l \notin Setters(n) BY <1>3, <1>6 DEF Makers, Setters, Ran
<1>14. ASSUME NEW m \in Nodes, m # n
       PROVE  Makers(m)' = Makers(m) /\ Setters(m)' = Setters(m) /\ native'[m] = native[m]
  <2>1. Makers(m)' = {i \in DOMAIN log : Creates(log[i]) /\ Node(log[i]) = m /\ projected'[log[i]] > 0}
    BY DEF Makers, Ran
  <2>2. Setters(m)' = {i \in DOMAIN log : Sets(log[i]) /\ Node(log[i]) = m /\ projected'[log[i]] > 0}
    BY DEF Setters, Ran
  <2>3. native'[m] = native[m] BY <1>10, <1>14 DEF Run, NTypeOK
  <2> QED BY <1>3, <1>7, <1>10, <1>14, <2>1, <2>2, <2>3 DEF Makers, Setters, Ran
<1>15. LastSetter'
  <2> SUFFICES ASSUME NEW m \in Nodes, Setters(m)' # {}
               PROVE  \E j \in Setters(m)' : \A k \in Setters(m)' : k <= j
    BY DEF LastSetter
  <2>1. CASE m # n BY <1>14, <2>1 DEF Reads, LastSetter
  <2>2. CASE m = n /\ ~Sets(e) BY <1>12, <2>2 DEF Reads, LastSetter
  <2>3. CASE m = n /\ Sets(e)
    <3>1. \A k \in Setters(n) : k <= l BY <1>4, <1>10 DEF Setters
    <3> QED BY <1>3, <1>12, <2>3, <3>1
  <2> QED BY <2>1, <2>2, <2>3
<1>16. native[n] \in Seq(Copies) /\ native'[n] = Run(native, e)[n] BY DEF NTypeOK
<1>17. \A i \in Makers(n) : i \in DOMAIN log /\ i \in Nat /\ i < l
  <2> SUFFICES ASSUME NEW i \in Makers(n) PROVE i \in DOMAIN log /\ i \in Nat /\ i < l OBVIOUS
  <2>1. i \in DOMAIN log /\ Node(log[i]) = Node(e) /\ i # l BY <1>10, <1>13 DEF Makers
  <2> QED BY <1>2, <1>3, <1>4, <2>1
<1>18. IsFiniteSet(Makers(n)) /\ Cardinality(Makers(n)) \in Nat
  <2>1. IsFiniteSet(1 .. Len(log)) BY <1>1, FS_Interval
  <2>2. Makers(n) \subseteq 1 .. Len(log) BY <1>1 DEF Makers
  <2> QED BY <2>1, <2>2, FS_Subset, FS_CardinalityType
<1>19. CASE Creates(e)
  <2>1. ~Sets(e) BY <1>19, NodeKinds
  <2>2. PICK c : c = [made |-> e, set |-> None] OBVIOUS
  <2>3. native'[n] = Append(native[n], c) BY <1>10, <1>19, <2>2 DEF Run, NTypeOK
  <2>4. PICK g \in Seq(Copies) : g = native[n] BY <1>16
  <2>5. Len(native'[n]) = Len(g) + 1 /\ native'[n][Len(g) + 1] = c /\ Len(g) + 1 \in DOMAIN native'[n]
        /\ \A k \in DOMAIN g : k \in DOMAIN native'[n] /\ native'[n][k] = g[k]
    BY <2>3, <2>4
  <2>6. Makers(n)' = Makers(n) \cup {l} /\ Setters(n)' = Setters(n) BY <1>11, <1>12, <1>19, <2>1
  <2>7. Cardinality(Makers(n)') = Cardinality(Makers(n)) + 1 BY <1>13, <1>18, <2>6, FS_AddElement
  <2>8. Len(native'[n]) = Cardinality(Makers(n)') BY <2>4, <2>5, <2>7 DEF Reads, Graph
  <2>9. \A i \in Makers(n) : Copy(n, i)' = Copy(n, i) BY <2>6 DEF Copy
  <2>10. Copy(n, l)' = c
    <3>1. \A j \in Setters(n) : j <= l BY <1>4, <1>10 DEF Setters
    <3>2. \A j \in Setters(n) : j \in Nat BY <1>2 DEF Setters
    <3>3. {j \in Setters(n)' : j > l} = {} BY <1>3, <2>6, <3>1, <3>2
    <3> QED BY <1>3, <2>2, <3>3 DEF Copy
  <2>11. \A i \in Makers(n)' : \E k \in DOMAIN native'[n] : native'[n][k] = Copy(n, i)'
    <3> SUFFICES ASSUME NEW i \in Makers(n)'
                 PROVE  \E k \in DOMAIN native'[n] : native'[n][k] = Copy(n, i)'
      OBVIOUS
    <3>1. CASE i \in Makers(n)
      <4>1. \E k \in DOMAIN g : g[k] = Copy(n, i) BY <2>4, <3>1 DEF Reads, Graph
      <4> QED BY <2>5, <2>9, <3>1, <4>1
    <3>2. CASE i = l BY <2>5, <2>10, <3>2
    <3> QED BY <2>6, <3>1, <3>2
  <2>12. Graph(n)' BY <2>8, <2>11 DEF Graph
  <2>13. \A m \in Nodes : m # n => Graph(m)' BY <1>14, ReadingKept DEF Reads
  <2> QED BY <1>8, <1>9, <1>15, <2>12, <2>13 DEF Reads
<1>20. CASE ~Creates(e)
  <2>1. Sets(e) BY <1>20, NodeKinds
  <2>2. PICK g \in Seq(Copies) : g = native[n] BY <1>16
  <2>3. native'[n] = [k \in DOMAIN g |-> [g[k] EXCEPT !.set = e]]
    BY <1>10, <1>20, <2>1, <2>2 DEF Run, NTypeOK
  <2>4. DOMAIN g = 1 .. Len(g) /\ Len(g) \in Nat BY <2>2
  <2>5. native'[n] \in Seq(Copies) BY RunType, <1>10 DEF NTypeOK
  <2>6. DOMAIN native'[n] = DOMAIN g /\ Len(native'[n]) = Len(g)
    <3>1. DOMAIN native'[n] = 1 .. Len(g) BY <2>3, <2>4
    <3>2. DOMAIN native'[n] = 1 .. Len(native'[n]) /\ Len(native'[n]) \in Nat BY <2>5
    <3>3. \A a, b \in Nat : 1 .. a = 1 .. b => a = b OBVIOUS
    <3> QED BY <2>4, <3>1, <3>2, <3>3
  <2>7. Makers(n)' = Makers(n) /\ Setters(n)' = Setters(n) \cup {l} BY <1>11, <1>12, <1>20, <2>1
  <2>8. Len(native'[n]) = Cardinality(Makers(n)') BY <2>2, <2>6, <2>7 DEF Reads, Graph
  <2>9. ASSUME NEW i \in Makers(n) PROVE Copy(n, i)' = [made |-> log[i], set |-> e]
    <3>1. PICK later : later = {j \in Setters(n)' : j > i} OBVIOUS
    <3>2. \A j \in Setters(n)' : j \in Nat /\ j <= l
      <4>1. \A j \in Setters(n) : j \in Nat /\ j <= l BY <1>2, <1>4, <1>10 DEF Setters
      <4> QED BY <1>3, <2>7, <4>1
    <3>3. l \in later /\ \A k \in later : k \in Nat /\ k <= l BY <1>3, <1>17, <2>7, <3>1, <3>2
    <3>4. \A m \in later : (\A k \in later : k <= m) => m = l BY <1>3, <3>3
    <3>5. (CHOOSE j \in later : \A k \in later : k <= j) = l BY <3>3, <3>4
    <3>6. Copy(n, i)' = [made |-> log[i], set |-> log[CHOOSE j \in later : \A k \in later : k <= j]]
      BY <3>1, <3>3 DEF Copy
    <3> QED BY <1>3, <3>5, <3>6
  <2>10. \A i \in Makers(n)' : \E k \in DOMAIN native'[n] : native'[n][k] = Copy(n, i)'
    <3> SUFFICES ASSUME NEW i \in Makers(n)
                 PROVE  \E k \in DOMAIN native'[n] : native'[n][k] = Copy(n, i)'
      BY <2>7
    <3>1. PICK k \in DOMAIN g : g[k] = Copy(n, i) BY <2>2 DEF Reads, Graph
    <3>2. g[k].made = log[i] BY <3>1 DEF Copy
    <3>3. g[k] \in Copies BY <2>2, <3>1
    <3>4. native'[n][k] = [g[k] EXCEPT !.set = e] BY <2>3
    <3>5. [g[k] EXCEPT !.set = e] = [made |-> log[i], set |-> e] BY <3>2, <3>3 DEF Copies
    <3> QED BY <2>6, <2>9, <3>4, <3>5
  <2>11. Graph(n)' BY <2>8, <2>10 DEF Graph
  <2>12. \A m \in Nodes : m # n => Graph(m)' BY <1>14, ReadingKept DEF Reads
  <2> QED BY <1>8, <1>9, <1>15, <2>11, <2>12 DEF Reads
<1> QED BY <1>19, <1>20

\* Two requests in progress together ingest events of different nodes.
LEMMA CurrentsDiffer ==
  ASSUME TypeOK, Separate, NEW p \in Requests, NEW q \in Requests, p # q,
         pc[p] \in InProgress, pc[q] \in InProgress, Node(Current(p)) \in Nodes
  PROVE  Node(Current(p)) # Node(Current(q)) /\ Current(p) # Current(q)
<1>1. Len(answers[p]) + 1 \in DOMAIN batch[p] /\ Len(answers[q]) + 1 \in DOMAIN batch[q] BY CurrentType
<1> QED BY <1>1 DEF Separate, Current

\* The turn of a request that did not move, when nobody touched its node.
LEMMA TurnKept ==
  ASSUME TypeOK, Turns, NEW p \in Requests, pc'[p] = pc[p], batch'[p] = batch[p], answers'[p] = answers[p],
         log' = log, projected'[Current(p)] = projected[Current(p)] \/ pc[p] # "project"
  PROVE  /\ pc'[p] = "append" /\ Node(Current(p)') \in Nodes => ~InLog(Current(p))'
         /\ pc'[p] = "project" /\ Node(Current(p)') \in Nodes =>
              projected'[Current(p)'] = 0 /\ \E l \in DOMAIN log' : LastOf(Current(p), l)'
<1>1. Current(p)' = Current(p) BY DEF Current
<1>2. PICK e : e = Current(p) OBVIOUS
<1>3. InLog(e)' <=> InLog(e) BY DEF InLog
<1>4. \A l : LastOf(e, l) => LastOf(e, l)' BY DEF LastOf
<1>5. pc[p] = "append" /\ Node(e) \in Nodes => ~InLog(e)' BY <1>2, <1>3 DEF Turns, Fresh
<1>6. pc[p] = "project" /\ Node(e) \in Nodes => projected'[e] = 0 /\ \E l \in DOMAIN log' : LastOf(e, l)'
  BY <1>2, <1>4 DEF Turns, Latest
<1>7. InLog(Current(p))' <=> InLog(e)' BY <1>1, <1>2 DEF InLog
<1>8. \A l : LastOf(Current(p), l)' <=> LastOf(e, l)' BY <1>1, <1>2 DEF LastOf
<1> QED BY <1>1, <1>2, <1>5, <1>6, <1>7, <1>8

\* The requests other than q did not move, and q neither appends nor projects next.
LEMMA OneMoves ==
  ASSUME TypeOK, Turns, NEW q \in Requests, Separate', log' = log,
         \A p \in Requests : p # q => /\ pc'[p] = pc[p] /\ batch'[p] = batch[p] /\ answers'[p] = answers[p]
                                      /\ projected'[Current(p)] = projected[Current(p)] \/ pc[p] # "project"
                                         \/ Node(Current(p)) \notin Nodes,
         pc'[q] # "project",
         pc'[q] = "append" => ~InLog(Current(q))'
  PROVE  Turns'
<1>1. ASSUME NEW p \in Requests, p # q
      PROVE  /\ pc'[p] = "append" /\ Node(Current(p)') \in Nodes => ~InLog(Current(p))'
             /\ pc'[p] = "project" /\ Node(Current(p)') \in Nodes =>
                  projected'[Current(p)'] = 0 /\ \E l \in DOMAIN log' : LastOf(Current(p), l)'
  <2>1. Current(p)' = Current(p) BY <1>1 DEF Current
  <2>2. CASE projected'[Current(p)] = projected[Current(p)] \/ pc[p] # "project"
    BY <1>1, <2>2, TurnKept
  <2>3. CASE Node(Current(p)) \notin Nodes
    <3>1. Node(Current(p)') \notin Nodes BY <2>1, <2>3
    <3> QED BY <3>1
  <2> QED BY <1>1, <2>2, <2>3
<1>2. Fresh'
  <2> SUFFICES ASSUME NEW p \in Requests, pc'[p] = "append", Node(Current(p)') \in Nodes
               PROVE  ~InLog(Current(p))'
    BY DEF Fresh, Node, Creates, Sets, InLog
  <2> QED BY <1>1
<1>3. Latest'
  <2> SUFFICES ASSUME NEW p \in Requests, pc'[p] = "project", Node(Current(p)') \in Nodes
               PROVE  projected'[Current(p)'] = 0 /\ \E l \in DOMAIN log' : LastOf(Current(p), l)'
    BY DEF Latest, Node, Creates, Sets
  <2> QED BY <1>1
<1> QED BY <1>2, <1>3 DEF Turns

LEMMA SeparateKept ==
  ASSUME TypeOK, Separate, batch' = batch,
         \A p \in Requests : pc'[p] \in InProgress => pc[p] \in InProgress
  PROVE  Separate'
BY DEF Separate

\* A request is received that shares no node with another one in progress.
LEMMA SeparateReceive ==
  ASSUME TypeOK, Separate, NEW q \in Requests, NEW b \in Batches, NReceive(q, b), ~raced'
  PROVE  Separate'
<1>1. batch' = [batch EXCEPT ![q] = b] /\ pc' = [pc EXCEPT ![q] = "lookup"] BY DEF NReceive, Receive
<1>2. ~\E p \in Requests \ {q} : \E i \in DOMAIN b : Node(b[i]) \in About(p) \cap Nodes BY DEF NReceive
<1>3. batch \in [Requests -> Batches \cup {<<>>}] /\ pc \in [Requests -> PCs] BY DEF TypeOK
<1>4. ASSUME NEW p \in Requests \ {q}, pc[p] \in InProgress, NEW i \in DOMAIN batch[p], NEW j \in DOMAIN b,
             Node(b[j]) \in Nodes
      PROVE  Node(batch[p][i]) # Node(b[j])
  BY <1>2, <1>4 DEF About
<1>5. ASSUME NEW p \in Requests, NEW r \in Requests, p # r, pc'[p] \in InProgress, pc'[r] \in InProgress,
             NEW i \in DOMAIN batch'[p], NEW j \in DOMAIN batch'[r], Node(batch'[p][i]) \in Nodes
      PROVE  Node(batch'[p][i]) # Node(batch'[r][j])
  <2>1. CASE p # q /\ r # q BY <1>1, <1>3, <1>5, <2>1 DEF Separate
  <2>2. CASE p = q BY <1>1, <1>3, <1>4, <1>5, <2>2
  <2>3. CASE r = q BY <1>1, <1>3, <1>4, <1>5, <2>3
  <2> QED BY <2>1, <2>2, <2>3
<1> QED BY <1>5 DEF Separate

LEMMA ReadsKept ==
  ASSUME Reads, UNCHANGED <<log, projected, native>>
  PROVE  Reads'
<1>1. \A n \in Nodes : Makers(n)' = Makers(n) /\ Setters(n)' = Setters(n) BY DEF Makers, Setters, Ran
<1>2. ASSUME NEW n \in Nodes, NEW i PROVE Copy(n, i)' = Copy(n, i)
  <2>1. Setters(n)' = Setters(n) BY <1>1
  <2> QED BY <2>1 DEF Copy
<1>3. \A n \in Nodes : Graph(n)' BY <1>1, <1>2 DEF Reads, Graph
<1>4. Once' /\ RanIsStored' BY DEF Reads, Once, RanIsStored, InLog
<1>5. LastSetter' BY <1>1 DEF Reads, LastSetter
<1> QED BY <1>3, <1>4, <1>5 DEF Reads

LEMMA InOrderAppend ==
  ASSUME TypeOK, Turns, Reads, NEW q \in Requests, AppendEnvelope(q), native' = native
  PROVE  Turns' /\ Reads'
<1>1. pc[q] = "append" /\ pc[q] \in InProgress BY DEF AppendEnvelope, InProgress
<1>2. PICK e \in Envelopes : e = Current(q) BY <1>1, CurrentType
<1>3. log' = Append(log, e) /\ pc' = [pc EXCEPT ![q] = "project"]
      /\ UNCHANGED <<projected, checkpoint, batch, answers, crashes, shared>>
  BY <1>2 DEF AppendEnvelope
<1>4. Node(e) \in Nodes => ~InLog(e) BY <1>1, <1>2 DEF Turns, Fresh
<1>5. Reads' BY <1>2, <1>3, <1>4, AppendReads
<1>6. log \in Seq(Envelopes) /\ pc \in [Requests -> PCs] /\ projected \in [Envelopes -> Nat] BY DEF TypeOK
<1>7. PICK m \in Nat : m = Len(log) BY <1>6
<1>8. DOMAIN log = 1 .. m /\ DOMAIN log' = 1 .. m + 1 /\ log'[m + 1] = e
      /\ \A i \in DOMAIN log : log'[i] = log[i]
  BY <1>3, <1>6, <1>7
<1>9. \A p \in Requests : Current(p)' = Current(p) BY <1>3 DEF Current
<1>10. \A p \in Requests : p # q => pc'[p] = pc[p] BY <1>3, <1>6
<1>11. Separate'
  <2>1. \A p \in Requests : pc'[p] \in InProgress => pc[p] \in InProgress BY <1>1, <1>10
  <2> QED BY <1>3, <2>1, SeparateKept DEF Turns
<1>12. Fresh'
  <2> SUFFICES ASSUME NEW p \in Requests, pc'[p] = "append", Node(Current(p)') \in Nodes, InLog(Current(p))'
               PROVE  FALSE
    BY DEF Fresh, Node, Creates, Sets, InLog
  <2>1. p # q /\ pc[p] = "append" /\ pc[p] \in InProgress BY <1>3, <1>6, <1>10 DEF InProgress
  <2>2. Node(Current(p)) \in Nodes BY <1>9
  <2>3. PICK i \in DOMAIN log' : log'[i] = Current(p) BY <1>9 DEF InLog
  <2>4. i \notin DOMAIN log BY <1>8, <2>1, <2>2, <2>3 DEF Turns, Fresh, InLog
  <2>5. Current(p) = e BY <1>8, <2>3, <2>4
  <2> QED BY <1>1, <1>2, <2>1, <2>2, <2>5, CurrentsDiffer DEF Turns
<1>13. Latest'
  <2> SUFFICES ASSUME NEW p \in Requests, pc'[p] = "project", Node(Current(p)') \in Nodes
               PROVE  projected'[Current(p)'] = 0 /\ \E l \in DOMAIN log' : LastOf(Current(p), l)'
    BY DEF Latest, Node, Creates, Sets
  <2>1. PICK f : f = Current(p) /\ f = Current(p)' BY <1>9
  <2>2. Node(f) \in Nodes BY <2>1
  <2>3. CASE p = q
    <3>1. f = e /\ ~InLog(e) BY <1>2, <1>4, <2>1, <2>2, <2>3
    <3>2. projected[e] = 0 BY <1>6, <3>1 DEF Reads, RanIsStored
    <3>3. \A i \in DOMAIN log' : i <= m + 1 BY <1>8
    <3> QED BY <1>3, <1>8, <2>1, <3>1, <3>2, <3>3 DEF LastOf
  <2>4. CASE p # q
    <3>1. pc[p] = "project" /\ pc[p] \in InProgress BY <1>10, <2>4 DEF InProgress
    <3>2. projected[f] = 0 /\ \E l \in DOMAIN log : LastOf(f, l) BY <2>1, <2>2, <3>1 DEF Turns, Latest
    <3>3. PICK l \in DOMAIN log : LastOf(f, l) BY <3>2
    <3>4. Node(f) # Node(e) BY <1>1, <1>2, <2>1, <2>2, <2>4, <3>1, CurrentsDiffer DEF Turns
    <3>5. \A i \in DOMAIN log' : i \in DOMAIN log \/ log'[i] = e BY <1>8
    <3>6. l \in DOMAIN log' /\ log'[l] = f /\ \A i \in DOMAIN log' : Node(log'[i]) = Node(f) => i <= l
      BY <1>8, <3>3, <3>4, <3>5 DEF LastOf
    <3> QED BY <1>3, <2>1, <3>2, <3>6 DEF LastOf
  <2> QED BY <2>3, <2>4
<1> QED BY <1>5, <1>11, <1>12, <1>13 DEF Turns

LEMMA InOrderProject ==
  ASSUME TypeOK, NTypeOK, Turns, Reads, StoredFirst, NEW q \in Requests, NProject(q)
  PROVE  Turns' /\ Reads'
<1>1. pc[q] = "project" /\ pc[q] \in InProgress BY DEF NProject, Project, InProgress
<1>2. PICK e \in Envelopes : e = Current(q) BY <1>1, CurrentType
<1>3. pc' = [pc EXCEPT ![q] = "checkpoint"] /\ UNCHANGED <<log, batch, answers>>
  BY DEF NProject, Project
<1>4. pc \in [Requests -> PCs] /\ projected \in [Envelopes -> Nat] BY DEF TypeOK
<1>5. projected' = projected \/ projected' = [projected EXCEPT ![e] = @ + 1]
  BY <1>2 DEF NProject, Project
<1>6. native' = IF projected' = projected THEN native ELSE Run(native, e) BY <1>2 DEF NProject
<1>7. \A p \in Requests : p # q => pc'[p] = pc[p] BY <1>3, <1>4
<1>8. pc'[q] = "checkpoint" BY <1>3, <1>4
<1>9. Separate'
  <2>1. \A p \in Requests : pc'[p] \in InProgress => pc[p] \in InProgress BY <1>1, <1>7
  <2> QED BY <1>3, <2>1, SeparateKept DEF Turns
<1>10. ASSUME NEW p \in Requests, p # q
       PROVE  \/ projected'[Current(p)] = projected[Current(p)] \/ pc[p] # "project"
              \/ Node(Current(p)) \notin Nodes
  <2> SUFFICES ASSUME pc[p] = "project", Node(Current(p)) \in Nodes
               PROVE  projected'[Current(p)] = projected[Current(p)]
    OBVIOUS
  <2>1. pc[p] \in InProgress BY DEF InProgress
  <2>2. Current(p) # e BY <1>1, <1>2, <1>10, <2>1, CurrentsDiffer DEF Turns
  <2>3. Current(p) \in Envelopes BY <2>1, CurrentType
  <2> QED BY <1>4, <1>5, <2>2, <2>3
<1>11. Turns' BY <1>3, <1>7, <1>8, <1>9, <1>10, OneMoves
<1>12. CASE projected' = projected BY <1>3, <1>6, <1>11, <1>12, ReadsKept
<1>13. CASE projected' = [projected EXCEPT ![e] = @ + 1]
  <2>1. projected'[e] = projected[e] + 1 /\ projected[e] \in Nat BY <1>4, <1>13
  <2>2. projected'[e] # projected[e] BY <2>1
  <2>3. projected' # projected BY <2>2
  <2>4. native' = Run(native, e) BY <1>6, <2>3
  <2>5. CASE Node(e) \in Nodes
    <3>1. projected[e] = 0 /\ \E l : LastOf(e, l) BY <1>1, <1>2, <2>5 DEF Turns, Latest
    <3> QED BY <1>2, <1>3, <1>11, <1>13, <2>4, <2>5, <3>1, ProjectReads
  <2>6. CASE Node(e) \notin Nodes
    <3>1. ~Creates(e) /\ ~Sets(e) BY <2>6, NodeKinds
    <3>2. native' = native BY <2>4, <3>1 DEF Run
    <3>3. log \in Seq(Envelopes) BY DEF TypeOK
    <3>4. \A i \in DOMAIN log : log[i] # e => projected'[log[i]] = projected[log[i]] BY <1>4, <1>13, <3>3
    <3>5. \A n \in Nodes : Makers(n)' = Makers(n)
      BY <1>3, <3>1, <3>4 DEF Makers, Ran
    <3>6. \A n \in Nodes : Setters(n)' = Setters(n)
      BY <1>3, <3>1, <3>4 DEF Setters, Ran
    <3>7. \A n \in Nodes : Graph(n)' BY <1>3, <3>2, <3>5, <3>6, ReadingKept DEF Reads
    <3>8. InLog(e) BY <1>1, <1>2 DEF StoredFirst
    <3>9. RanIsStored' BY <1>3, <1>4, <1>13, <3>8 DEF Reads, RanIsStored, InLog
    <3>10. Once' BY <1>3 DEF Reads, Once
    <3>11. LastSetter' BY <3>6 DEF Reads, LastSetter
    <3> QED BY <1>11, <3>7, <3>9, <3>10, <3>11 DEF Reads
  <2> QED BY <2>5, <2>6
<1> QED BY <1>5, <1>11, <1>12, <1>13

\* The other steps of the server leave the log and the graph alone.
LEMMA InOrderRest ==
  ASSUME TypeOK, Turns, Reads, NEW q \in Requests, Lookup(q) \/ UpdateCheckpoint(q), native' = native
  PROVE  Turns' /\ Reads'
<1>1. pc[q] \in InProgress /\ log' = log /\ projected' = projected /\ batch' = batch
  BY DEF Lookup, UpdateCheckpoint, InProgress
<1>2. pc \in [Requests -> PCs] /\ answers \in [Requests -> Seq(Answers)] BY DEF TypeOK
<1>3. \A p \in Requests : p # q => pc'[p] = pc[p] /\ answers'[p] = answers[p]
  BY <1>2 DEF Lookup, UpdateCheckpoint, Answer
<1>4. pc'[q] # "project" BY <1>2 DEF Lookup, UpdateCheckpoint, Answer
<1>5. ASSUME pc'[q] = "append" PROVE ~InLog(Current(q))'
  <2>1. Lookup(q) /\ answers' = answers /\ ~Stored(Id[Current(q)])
    BY <1>2, <1>5 DEF Lookup, UpdateCheckpoint, Answer
  <2>2. ~InLog(Current(q)) BY <2>1 DEF Stored, Carries, InLog
  <2>3. Current(q)' = Current(q) BY <1>1, <2>1 DEF Current
  <2> QED BY <1>1, <2>2, <2>3 DEF InLog
<1>6. Separate'
  <2>1. \A p \in Requests : pc'[p] \in InProgress => pc[p] \in InProgress BY <1>1, <1>3
  <2> QED BY <1>1, <2>1, SeparateKept DEF Turns
<1>7. Turns' BY <1>1, <1>3, <1>4, <1>5, <1>6, OneMoves
<1> QED BY <1>1, <1>7, ReadsKept

LEMMA InOrderStep ==
  ASSUME NInv, InOrder, [NNext]_nvars
  PROVE  InOrder'
<1> SUFFICES ASSUME ~raced' PROVE Turns' /\ Reads' BY DEF InOrder
<1>1. TypeOK /\ NTypeOK /\ StoredFirst BY DEF NInv
<1>2. ~raced BY DEF NNext, NReceive, NProject, nvars
<1>3. Turns /\ Reads BY <1>2 DEF InOrder
<1>4. ASSUME NEW q \in Requests, NProject(q) PROVE Turns' /\ Reads'
  BY <1>1, <1>3, <1>4, InOrderProject
<1>5. ASSUME NEW q \in Requests, AppendEnvelope(q), native' = native PROVE Turns' /\ Reads'
  BY <1>1, <1>3, <1>5, InOrderAppend
<1>6. ASSUME NEW q \in Requests, Lookup(q) \/ UpdateCheckpoint(q), native' = native PROVE Turns' /\ Reads'
  BY <1>1, <1>3, <1>6, InOrderRest
<1>7. ASSUME NEW q \in Requests, NEW b \in Batches, NReceive(q, b) PROVE Turns' /\ Reads'
  <2>1. Separate' BY <1>1, <1>3, <1>7, SeparateReceive DEF Turns
  <2>2. UNCHANGED <<log, projected, answers, native>> BY <1>7 DEF NReceive, Receive
  <2>3. pc'[q] = "lookup" /\ \A p \in Requests : p # q => pc'[p] = pc[p] /\ batch'[p] = batch[p]
    BY <1>1, <1>7 DEF NReceive, Receive, TypeOK
  <2>4. Turns' BY <1>1, <1>3, <2>1, <2>2, <2>3, OneMoves
  <2> QED BY <1>3, <2>2, <2>4, ReadsKept
<1>8. ASSUME Crash, native' = native PROVE Turns' /\ Reads'
  <2>1. UNCHANGED <<log, projected, batch, answers, native>> BY <1>8 DEF Crash
  <2>2. \A p \in Requests : pc'[p] \notin InProgress \/ (pc'[p] = pc[p] /\ pc[p] \notin InProgress)
    BY <1>8 DEF Crash, InProgress
  <2>3. \A p \in Requests : pc'[p] \notin InProgress BY <2>2
  <2>4. Separate' BY <2>3 DEF Separate
  <2>5. Fresh' BY <2>3 DEF Fresh, InProgress
  <2>6. Latest' BY <2>3 DEF Latest, InProgress
  <2> QED BY <1>3, <2>1, <2>4, <2>5, <2>6, ReadsKept DEF Turns
<1>9. CASE UNCHANGED nvars
  <2>1. UNCHANGED <<log, projected, pc, batch, answers, native>> BY <1>9 DEF nvars, vars
  <2>2. Separate' BY <1>1, <1>3, <2>1, SeparateKept DEF Turns
  <2>3. \A p \in Requests : Current(p)' = Current(p) BY <2>1 DEF Current
  <2>4. Fresh' BY <1>3, <2>1, <2>3 DEF Turns, Fresh, InLog
  <2>5. Latest' BY <1>3, <2>1, <2>3 DEF Turns, Latest, LastOf
  <2> QED BY <1>3, <2>1, <2>2, <2>4, <2>5, ReadsKept DEF Turns
<1> QED BY <1>4, <1>5, <1>6, <1>7, <1>8, <1>9 DEF NNext

\* Unless envelopes of one node race, the native graph is what the log says of the projected
\* events: a copy for each CREATE, set last by the last completion after it, whatever is
\* redelivered, refused, lost to a failing graph or cut off (hydradb/projector.js).
THEOREM NativeGraphIsLog == NSpec => []NativeIsLog
<1>1. NInit => InOrder
  <2> SUFFICES ASSUME NInit PROVE Turns /\ Reads BY DEF InOrder
  <2>1. log = <<>> /\ native = [n \in Nodes |-> <<>>] /\ projected = [e \in Envelopes |-> 0]
        /\ \A q \in Requests : pc[q] = "idle"
    BY DEF NInit, Init
  <2>2. DOMAIN log = {} BY <2>1
  <2>3. Turns BY <2>1 DEF Turns, Separate, Fresh, Latest, InProgress
  <2>4. Once /\ RanIsStored BY <2>1, <2>2 DEF Once, RanIsStored
  <2>5. \A n \in Nodes : Makers(n) = {} /\ Setters(n) = {} BY <2>2 DEF Makers, Setters
  <2>6. LastSetter BY <2>5 DEF LastSetter
  <2>7. ASSUME NEW n \in Nodes PROVE Graph(n)
    <3>1. Len(native[n]) = 0 BY <2>1
    <3>2. Cardinality(Makers(n)) = 0 BY <2>5, FS_EmptySet
    <3> QED BY <2>5, <3>1, <3>2 DEF Graph
  <2> QED BY <2>3, <2>4, <2>6, <2>7 DEF Reads
<1>2. NInit => NInv BY NInitial
<1>3. NInv /\ [NNext]_nvars => NInv' BY NStep
<1>4. NInv /\ InOrder /\ [NNext]_nvars => InOrder' BY InOrderStep
<1>5. InOrder => NativeIsLog BY DEF InOrder, Reads, Graph, NativeIsLog
<1> QED BY <1>1, <1>2, <1>3, <1>4, <1>5, PTL DEF NSpec
=============================================================================
