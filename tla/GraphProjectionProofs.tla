------------------------- MODULE GraphProjectionProofs -------------------------
(***************************************************************************)
(* Theorems about GraphProjection for any number of jobs, any events and   *)
(* any length of the log: what is in the graph comes from the log, each    *)
(* store keeps its shape, what was dispatched is projected, and emitting   *)
(* one by one gives the graph that a rebuild gives.                        *)
(***************************************************************************)
EXTENDS GraphProjection, TLAPS

USE DEF Goto, IsNode
-----------------------------------------------------------------------------
(* What an event is projected to                                           *)

PlanOps == UNION {{PlanOf[e][k] : k \in DOMAIN PlanOf[e]} : e \in Events}
Ops == PlanOps \cup {[op EXCEPT !.if = {}] : op \in PlanOps}

\* An operation writes a node without conditions or an edge that needs both of its ends.
NodeOp(op) == \E id : op = Upsert(id)
EdgeOp(op) == \E from, kind, to, if : op = Link(from, kind, to, if) /\ if \subseteq {from, to}

\* The node of an event, if it has one, comes first.
WellPlanned(P) ==
  /\ Len(P) \in Nat /\ DOMAIN P = 1 .. Len(P) /\ P = [k \in 1 .. Len(P) |-> P[k]]
  /\ \A k \in DOMAIN P : EdgeOp(P[k]) \/ (k = 1 /\ NodeOp(P[k]))
  /\ \A k \in DOMAIN P : k > 1 => NodeOp(P[1])

LEMMA FunctionIsSequence ==
  ASSUME NEW n \in Nat, NEW S, NEW f \in [1 .. n -> S]
  PROVE  f \in Seq(S) /\ Len(f) = n
OBVIOUS

LEMMA SequenceOfElements ==
  ASSUME NEW n \in Nat, NEW f, f = [k \in 1 .. n |-> f[k]]
  PROVE  f \in Seq({f[k] : k \in 1 .. n})
<1> DEFINE S == {f[k] : k \in 1 .. n}
<1>1. \A k \in 1 .. n : f[k] \in S OBVIOUS
<1> HIDE DEF S
<1>2. f \in [1 .. n -> S] BY <1>1
<1>3. f \in Seq(S) BY <1>2, FunctionIsSequence
<1> QED BY <1>3 DEF S

\* Appending links to a plan.
LEMMA Extending ==
  ASSUME NEW S, NEW X \in Seq(S), NEW L \in Seq(S), Len(X) >= 1, NodeOp(X[1]),
         \A m \in DOMAIN X : EdgeOp(X[m]) \/ (m = 1 /\ NodeOp(X[m])),
         \A m \in DOMAIN L : EdgeOp(L[m])
  PROVE  /\ X \o L \in Seq(S) /\ Len(X \o L) >= 1 /\ NodeOp((X \o L)[1])
         /\ \A m \in DOMAIN (X \o L) : EdgeOp((X \o L)[m]) \/ (m = 1 /\ NodeOp((X \o L)[m]))
<1>1. Len(X) \in Nat /\ Len(L) \in Nat /\ DOMAIN L = 1 .. Len(L) OBVIOUS
<1>2. X \o L \in Seq(S) /\ Len(X \o L) = Len(X) + Len(L) /\ DOMAIN X = 1 .. Len(X) OBVIOUS
<1>3. (X \o L)[1] = X[1] BY <1>1
<1>4. \A m \in 1 .. Len(X) + Len(L) :
        IF m <= Len(X) THEN (X \o L)[m] = X[m] ELSE (X \o L)[m] = L[m - Len(X)]
  OBVIOUS
<1>5. \A m \in 1 .. Len(X) + Len(L) : m <= Len(X) \/ m - Len(X) \in DOMAIN L BY <1>1
<1>6. \A m \in 1 .. Len(X) + Len(L) : m <= Len(X) => m \in DOMAIN X BY <1>1, <1>2
<1>7. \A m \in 1 .. Len(X) + Len(L) :
        EdgeOp((X \o L)[m]) \/ (m = 1 /\ NodeOp((X \o L)[m]))
  BY <1>4, <1>5, <1>6
<1> QED BY <1>1, <1>2, <1>3, <1>7

LEMMA LinksArePlanned ==
  ASSUME NEW e \in Events, NEW k
  PROVE  /\ LinksBy(e, k) \in Seq({LinksBy(e, k)[m] : m \in DOMAIN LinksBy(e, k)})
         /\ \A m \in DOMAIN LinksBy(e, k) : EdgeOp(LinksBy(e, k)[m])
<1> DEFINE rule == Rules(e.type)[k]
<1>1. CASE LinksBy(e, k) = <<>> BY <1>1
<1>2. CASE LinksBy(e, k) = LinksOf(e, rule) /\ rule.field \in DOMAIN e.p
  <2> DEFINE ids == e.p[rule.field]
             L == [m \in DOMAIN ids |->
                    LET other == ids[m]
                        if == IF rule.if THEN {other} ELSE {}
                    IN  IF rule.in THEN Link(other, rule.kind, e.p.id[1], if)
                        ELSE Link(e.p.id[1], rule.kind, other, if)]
  <2>1. LinksBy(e, k) = L BY <1>2 DEF LinksOf
  <2>2. Len(ids) \in Nat /\ DOMAIN ids = 1 .. Len(ids) BY <1>2, EventAssumption
  <2>3. DOMAIN L = 1 .. Len(ids) /\ L = [m \in 1 .. Len(ids) |-> L[m]] BY <2>2
  <2>4. \A m \in DOMAIN L : EdgeOp(L[m])
    <3> SUFFICES ASSUME NEW m \in DOMAIN ids
                 PROVE  EdgeOp(L[m])
      BY <2>2, <2>3
    <3> DEFINE if == IF rule.if THEN {ids[m]} ELSE {}
    <3>1. L[m] = IF rule.in THEN Link(ids[m], rule.kind, e.p.id[1], if)
                 ELSE Link(e.p.id[1], rule.kind, ids[m], if)
      OBVIOUS
    <3>2. if \subseteq {ids[m], e.p.id[1]} OBVIOUS
    <3> HIDE DEF if, L, ids
    <3> QED BY <3>1, <3>2 DEF EdgeOp
  <2> HIDE DEF L
  <2>5. L \in Seq({L[m] : m \in DOMAIN L}) BY <2>2, <2>3, SequenceOfElements
  <2> QED BY <2>1, <2>4, <2>5
<1> QED BY <1>1, <1>2 DEF LinksBy, LinksOf

LEMMA PlansAreWell == \A e \in Events : WellPlanned(PlanOf[e])
<1> SUFFICES ASSUME NEW e \in Events PROVE WellPlanned(Plan(e)) BY DEF PlanOf
<1>1. CASE e.type \in DOMAIN LinkOnly
  <2> DEFINE l == LinkOnly[e.type]
             op == Link(e.p[l[1]][1], l[2], e.p[l[3]][1], {})
  <2>1. Plan(e) = <<op>> BY <1>1 DEF Plan
  <2>2. EdgeOp(op) BY DEF EdgeOp
  <2> HIDE DEF op
  <2> QED BY <2>1, <2>2 DEF WellPlanned
<1>2. CASE Plan(e) = <<>> BY <1>2 DEF WellPlanned
<1>3. CASE Plan(e) = <<Upsert(e.p.id[1])>> \o LinksBy(e, 1) \o LinksBy(e, 2) \o LinksBy(e, 3)
  <2> DEFINE u == Upsert(e.p.id[1])
             A == LinksBy(e, 1)
             B == LinksBy(e, 2)
             C == LinksBy(e, 3)
             S == {u} \cup {A[m] : m \in DOMAIN A} \cup {B[m] : m \in DOMAIN B}
                      \cup {C[m] : m \in DOMAIN C}
  <2>1. /\ A \in Seq({A[m] : m \in DOMAIN A}) /\ B \in Seq({B[m] : m \in DOMAIN B})
        /\ C \in Seq({C[m] : m \in DOMAIN C})
        /\ \A m \in DOMAIN A : EdgeOp(A[m])
        /\ \A m \in DOMAIN B : EdgeOp(B[m])
        /\ \A m \in DOMAIN C : EdgeOp(C[m])
    BY LinksArePlanned
  <2>2. NodeOp(u) BY DEF NodeOp
  <2>3. Plan(e) = <<u>> \o A \o B \o C BY <1>3
  <2> HIDE DEF u, A, B, C
  <2>4. <<u>> \in Seq(S) /\ A \in Seq(S) /\ B \in Seq(S) /\ C \in Seq(S) BY <2>1
  <2> HIDE DEF S
  <2>5. <<u>> \in Seq(S) /\ Len(<<u>>) >= 1 /\ <<u>>[1] = u /\ DOMAIN <<u>> = {1} BY <2>4
  <2>6. /\ <<u>> \o A \in Seq(S) /\ Len(<<u>> \o A) >= 1 /\ NodeOp((<<u>> \o A)[1])
        /\ \A m \in DOMAIN (<<u>> \o A) :
             EdgeOp((<<u>> \o A)[m]) \/ (m = 1 /\ NodeOp((<<u>> \o A)[m]))
    BY <2>1, <2>2, <2>4, <2>5, Extending
  <2> DEFINE X == <<u>> \o A
  <2> HIDE DEF X
  <2>7. /\ X \o B \in Seq(S) /\ Len(X \o B) >= 1 /\ NodeOp((X \o B)[1])
        /\ \A m \in DOMAIN (X \o B) : EdgeOp((X \o B)[m]) \/ (m = 1 /\ NodeOp((X \o B)[m]))
    BY <2>1, <2>4, <2>6, Extending DEF X
  <2> DEFINE Y == X \o B
  <2> HIDE DEF Y
  <2>8. /\ Y \o C \in Seq(S) /\ Len(Y \o C) >= 1 /\ NodeOp((Y \o C)[1])
        /\ \A m \in DOMAIN (Y \o C) : EdgeOp((Y \o C)[m]) \/ (m = 1 /\ NodeOp((Y \o C)[m]))
    BY <2>1, <2>4, <2>7, Extending DEF Y
  <2> DEFINE Z == Y \o C
  <2>9. Plan(e) = Z BY <2>3 DEF X, Y
  <2> HIDE DEF Z
  <2>10. Z \in Seq(S) BY <2>8 DEF Z
  <2>11. Len(Z) \in Nat /\ DOMAIN Z = 1 .. Len(Z) /\ Z = [k \in 1 .. Len(Z) |-> Z[k]] BY <2>10
  <2>12. NodeOp(Z[1]) /\ \A m \in DOMAIN Z : EdgeOp(Z[m]) \/ (m = 1 /\ NodeOp(Z[m]))
    BY <2>8 DEF Z
  <2> QED BY <2>9, <2>11, <2>12 DEF WellPlanned
<1> QED BY <1>1, <1>2, <1>3 DEF Plan

LEMMA PlanFacts ==
  ASSUME NEW e \in Events
  PROVE  LET P == PlanOf[e] IN
         /\ P \in Seq(Ops) /\ Len(P) \in Nat /\ DOMAIN P = 1 .. Len(P)
         /\ \A k \in DOMAIN P : P[k] \in Ops /\ P[k] \in PlanOps
         /\ \A k \in DOMAIN P : IsNode(P[k].key) => k = 1
         /\ \A k \in DOMAIN P : k > 1 => IsNode(P[1].key)
<1> DEFINE P == PlanOf[e]
<1>1. WellPlanned(P) BY PlansAreWell
<1>2. \A k \in DOMAIN P : P[k] \in PlanOps /\ P[k] \in Ops BY DEF PlanOps, Ops
<1>3. P = [k \in 1 .. Len(P) |-> P[k]] BY <1>1 DEF WellPlanned
<1> HIDE DEF P
<1>4. P \in [1 .. Len(P) -> Ops] BY <1>1, <1>2, <1>3 DEF WellPlanned
<1>5. P \in Seq(Ops) BY <1>1, <1>4, FunctionIsSequence DEF WellPlanned
<1>6. \A k \in DOMAIN P : IsNode(P[k].key) => k = 1
  <2>1. \A op : EdgeOp(op) => ~IsNode(op.key)
    <3>1. \A a, b, c, d : Link(a, b, c, d).key = <<a, b, c>> /\ Len(<<a, b, c>>) = 3 BY DEF Link
    <3> QED BY <3>1 DEF EdgeOp
  <2> QED BY <1>1, <2>1 DEF WellPlanned
<1>7. \A k \in DOMAIN P : k > 1 => IsNode(P[1].key)
  <2>1. \A op : NodeOp(op) => IsNode(op.key)
    <3>1. \A id : Upsert(id).key = <<id>> /\ Len(<<id>>) = 1 BY DEF Upsert
    <3> QED BY <3>1 DEF NodeOp
  <2> QED BY <1>1, <2>1 DEF WellPlanned
<1> QED BY <1>1, <1>2, <1>5, <1>6, <1>7 DEF P, WellPlanned

LEMMA OpFacts ==
  ASSUME NEW op \in Ops
  PROVE  /\ op.key \in Keys /\ \A id \in op.ends : <<id>> \in Keys
         /\ op.if \subseteq op.ends
         /\ IsNode(op.key) => op.ends = {}
         /\ ~IsNode(op.key) => op.ends = {op.key[1], op.key[3]}
         /\ [op EXCEPT !.if = {}] \in Ops /\ [op EXCEPT !.if = {}].key = op.key
         /\ [op EXCEPT !.if = {}].ends = op.ends /\ [op EXCEPT !.if = {}].if = {}
<1>1. PICK base \in PlanOps : op = base \/ op = [base EXCEPT !.if = {}] BY DEF Ops
<1>2. PICK e \in Events : \E k \in DOMAIN PlanOf[e] : base = PlanOf[e][k] BY DEF PlanOps
<1>3. PICK k \in DOMAIN PlanOf[e] : base = PlanOf[e][k] BY <1>2
<1>4. NodeOp(base) \/ EdgeOp(base) BY <1>3, PlansAreWell DEF WellPlanned
<1>5. base.key \in Keys /\ \A id \in base.ends : <<id>> \in Keys
  <2>1. base.key \in Written BY <1>3 DEF Written
  <2>2. base.ends \in {PlanOf[e][m].ends : m \in DOMAIN PlanOf[e]} BY <1>3
  <2>3. base.ends \subseteq Needed BY <2>2 DEF Needed
  <2> QED BY <2>1, <2>3 DEF Keys
<1>6. /\ \/ \E id : base = [key |-> <<id>>, ends |-> {}, if |-> {}]
         \/ \E a, b, c, d : /\ base = [key |-> <<a, b, c>>, ends |-> {a, c}, if |-> d]
                            /\ d \subseteq {a, c}
  BY <1>4 DEF NodeOp, EdgeOp, Upsert, Link
<1>7. CASE \E id : base = [key |-> <<id>>, ends |-> {}, if |-> {}]
  <2>1. PICK id : base = [key |-> <<id>>, ends |-> {}, if |-> {}] BY <1>7
  <2>2. op = base BY <1>1, <2>1
  <2>3. [op EXCEPT !.if = {}] = op BY <2>1, <2>2
  <2>4. IsNode(op.key) BY <2>1, <2>2
  <2> QED BY <1>5, <2>1, <2>2, <2>3, <2>4
<1>8. CASE \E a, b, c, d : /\ base = [key |-> <<a, b, c>>, ends |-> {a, c}, if |-> d]
                           /\ d \subseteq {a, c}
  <2>1. PICK a, b, c, d : /\ base = [key |-> <<a, b, c>>, ends |-> {a, c}, if |-> d]
                          /\ d \subseteq {a, c}
    BY <1>8
  <2>2. PICK f : op = [key |-> <<a, b, c>>, ends |-> {a, c}, if |-> f] /\ f \subseteq {a, c}
    BY <1>1, <2>1
  <2>3. ~IsNode(op.key) /\ op.key[1] = a /\ op.key[3] = c BY <2>2
  <2>4. [op EXCEPT !.if = {}] = [base EXCEPT !.if = {}] BY <2>1, <2>2
  <2>5. [op EXCEPT !.if = {}] \in Ops BY <2>4 DEF Ops
  <2>6. [op EXCEPT !.if = {}] = [key |-> <<a, b, c>>, ends |-> {a, c}, if |-> {}] BY <2>2
  <2> QED BY <1>5, <2>1, <2>2, <2>3, <2>5, <2>6
<1> QED BY <1>6, <1>7, <1>8

\* The ends of an edge have keys.
LEMMA EdgesHaveKeys ==
  ASSUME NEW key \in Keys, ~IsNode(key)
  PROVE  <<key[1]>> \in Keys /\ <<key[3]>> \in Keys
<1>1. \A id : IsNode(<<id>>) OBVIOUS
<1>2. key \in Written BY <1>1 DEF Keys
<1>3. PICK e \in Events : \E k \in DOMAIN PlanOf[e] : key = PlanOf[e][k].key BY <1>2 DEF Written
<1>4. PICK k \in DOMAIN PlanOf[e] : key = PlanOf[e][k].key BY <1>3
<1>5. PlanOf[e][k] \in Ops BY PlanFacts
<1> QED BY <1>4, <1>5, OpFacts

LEMMA SequenceFacts ==
  ASSUME NEW S, NEW O \in Seq(S), O # <<>>
  PROVE  /\ Len(O) \in Nat /\ Len(O) > 0 /\ DOMAIN O = 1 .. Len(O) /\ Head(O) = O[1] /\ O[1] \in S
         /\ Tail(O) \in Seq(S) /\ Len(Tail(O)) = Len(O) - 1 /\ DOMAIN Tail(O) = 1 .. Len(O) - 1
         /\ \A k \in DOMAIN Tail(O) : k + 1 \in DOMAIN O /\ k + 1 > 1 /\ Tail(O)[k] = O[k + 1]
OBVIOUS

LEMMA ReplaceHead ==
  ASSUME NEW S, NEW O \in Seq(S), O # <<>>, NEW x \in S
  PROVE  /\ <<x>> \o Tail(O) \in Seq(S) /\ Len(<<x>> \o Tail(O)) = Len(O)
         /\ (<<x>> \o Tail(O))[1] = x
         /\ \A k \in DOMAIN O : k > 1 => (<<x>> \o Tail(O))[k] = O[k]
<1>1. Tail(O) \in Seq(S) /\ Len(Tail(O)) = Len(O) - 1 /\ Len(O) \in Nat /\ Len(O) > 0 OBVIOUS
<1>2. <<x>> \in Seq(S) /\ Len(<<x>>) = 1 OBVIOUS
<1>3. <<x>> \o Tail(O) \in Seq(S) /\ Len(<<x>> \o Tail(O)) = Len(O) BY <1>1, <1>2
<1>4. (<<x>> \o Tail(O))[1] = x BY <1>1, <1>2
<1>5. \A k \in DOMAIN O : k > 1 => (<<x>> \o Tail(O))[k] = Tail(O)[k - 1] /\ k - 1 \in DOMAIN Tail(O)
  BY <1>1, <1>2
<1>6. \A k \in DOMAIN O : k > 1 => Tail(O)[k - 1] = O[k]
  BY <1>5, SequenceFacts
<1> QED BY <1>3, <1>4, <1>5, <1>6
-----------------------------------------------------------------------------
(* What a job is in the middle of                                          *)

PCs == {"idle", "clear", "read", "emit", "rebuild", "handle"}

Types ==
  /\ store \in Stores /\ log \in Seq(Events) /\ graph \in [Keys -> Seq(SUBSET Nat)]
  /\ pc \in [Jobs -> PCs] /\ todo \in [Jobs -> Seq(Nat)] /\ ops \in [Jobs -> Seq(Ops)]
  /\ found \in [Jobs -> {"unknown", "yes", "no"}]

\* What is left of the plan of an event: its last operations, the first of which may have
\* passed its condition.
LeftOf(O, P) ==
  /\ Len(O) <= Len(P)
  /\ \A k \in DOMAIN O :
       LET op == P[Len(P) - Len(O) + k] IN
       /\ O[k].key = op.key /\ O[k].ends = op.ends
       /\ O[k].if = op.if \/ (k = 1 /\ O[k].if = {})

\* An emit has one event to project, a rebuild the rest of the log.
JobOK(j) ==
  /\ Projecting(j) \/ pc[j] = "handle" => todo[j] # <<>>
  /\ pc[j] \in {"emit", "handle"} => Len(todo[j]) = 1
  /\ \A k \in DOMAIN todo[j] : todo[j][k] \in DOMAIN log /\ todo[j][k] = todo[j][1] + k - 1
  /\ IF Projecting(j) THEN LeftOf(ops[j], PlanOf[log[todo[j][1]]]) ELSE ops[j] = <<>>
  /\ found[j] # "unknown" => store = "hydra" /\ Pending(j) /\ Head(ops[j]).if = {}

Working == Types /\ \A j \in Jobs : JobOK(j)

LEMMA WorkingInitial == Init => Working
<1> SUFFICES ASSUME Init PROVE Working OBVIOUS
<1>1. log = <<>> /\ <<>> \in Seq(Events) BY DEF Init
<1>2. Types BY <1>1 DEF Init, Types, PCs
<1>3. \A j \in Jobs : pc[j] = "idle" /\ todo[j] = <<>> /\ ops[j] = <<>> /\ found[j] = "unknown"
  BY DEF Init
<1> QED BY <1>2, <1>3 DEF Working, JobOK, Projecting

\* A job that rests, and one that a step of another job does not touch.
LEMMA RestingJob ==
  ASSUME NEW j \in Jobs, pc'[j] \in {"idle", "clear", "read"}, todo'[j] = <<>>, ops'[j] = <<>>,
         found'[j] = "unknown"
  PROVE  JobOK(j)'
BY DEF JobOK, Projecting

LEMMA OtherJob ==
  ASSUME Types, NEW j \in Jobs, JobOK(j), pc'[j] = pc[j], todo'[j] = todo[j], ops'[j] = ops[j],
         found'[j] = found[j], store' = store,
         log' = log \/ \E e \in Events : log' = Append(log, e)
  PROVE  JobOK(j)'
<1>1. \A i \in DOMAIN log : i \in DOMAIN log' /\ log'[i] = log[i]
  <2>1. CASE log' = log BY <2>1
  <2>2. ASSUME NEW e \in Events, log' = Append(log, e)
        PROVE  \A i \in DOMAIN log : i \in DOMAIN log' /\ log'[i] = log[i]
    <3>1. log \in Seq(Events) BY DEF Types
    <3> QED BY <2>2, <3>1
  <2> QED BY <2>1, <2>2
<1>2. Projecting(j) => 1 \in DOMAIN todo[j] BY DEF JobOK, Types
<1>3. Projecting(j)' = Projecting(j) /\ Pending(j)' = Pending(j) BY DEF Projecting, Pending
<1> QED BY <1>1, <1>2, <1>3 DEF JobOK

\* The rest of a plan is again one.
LEMMA LeftOfTail ==
  ASSUME NEW O \in Seq(Ops), NEW P \in Seq(Ops), LeftOf(O, P), O # <<>>
  PROVE  LeftOf(Tail(O), P) /\ Tail(O) \in Seq(Ops)
<1>1. Len(P) \in Nat OBVIOUS
<1>2. \A k \in DOMAIN Tail(O) : Len(P) - Len(Tail(O)) + k = Len(P) - Len(O) + (k + 1)
  BY <1>1, SequenceFacts
<1> QED BY <1>1, <1>2, SequenceFacts DEF LeftOf

LEMMA LeftOfAll == ASSUME NEW P \in Seq(Ops) PROVE LeftOf(P, P)
<1>1. Len(P) \in Nat /\ \A k \in DOMAIN P : k \in Nat /\ Len(P) - Len(P) + k = k OBVIOUS
<1> QED BY <1>1 DEF LeftOf

LEMMA LeftOfGuarded ==
  ASSUME NEW O \in Seq(Ops), NEW P \in Seq(Ops), LeftOf(O, P), O # <<>>
  PROVE  LET G == <<[Head(O) EXCEPT !.if = {}]>> \o Tail(O) IN LeftOf(G, P) /\ G \in Seq(Ops)
<1> DEFINE x == [Head(O) EXCEPT !.if = {}]
           G == <<x>> \o Tail(O)
<1>1. Head(O) \in Ops /\ Head(O) = O[1] BY SequenceFacts
<1>2. x \in Ops /\ x.key = O[1].key /\ x.ends = O[1].ends /\ x.if = {} BY <1>1, OpFacts
<1> HIDE DEF x
<1>3. /\ G \in Seq(Ops) /\ Len(G) = Len(O) /\ G[1] = x /\ DOMAIN G = DOMAIN O
      /\ \A k \in DOMAIN O : k > 1 => G[k] = O[k]
  <2>1. G \in Seq(Ops) /\ Len(G) = Len(O) /\ G[1] = x /\ \A k \in DOMAIN O : k > 1 => G[k] = O[k]
    BY <1>2, ReplaceHead
  <2>2. DOMAIN G = 1 .. Len(G) /\ DOMAIN O = 1 .. Len(O) BY <2>1
  <2> QED BY <2>1, <2>2
<1> HIDE DEF G
<1>4. \A k \in DOMAIN O : k = 1 \/ k > 1 OBVIOUS
<1>5. LeftOf(G, P) BY <1>2, <1>3, <1>4 DEF LeftOf
<1> QED BY <1>3, <1>5 DEF G, x

\* A step of one job.
LEMMA OneJobStep ==
  ASSUME Working, NEW j \in Jobs, store' = store,
         log' = log \/ \E e \in Events : log' = Append(log, e),
         graph' \in [Keys -> Seq(SUBSET Nat)],
         pc' \in [Jobs -> PCs], todo' \in [Jobs -> Seq(Nat)], ops' \in [Jobs -> Seq(Ops)],
         found' \in [Jobs -> {"unknown", "yes", "no"}],
         \A v \in Jobs \ {j} :
           pc'[v] = pc[v] /\ todo'[v] = todo[v] /\ ops'[v] = ops[v] /\ found'[v] = found[v],
         JobOK(j)'
  PROVE  Working'
<1> USE DEF Working
<1>1. log' \in Seq(Events)
  <2>1. log \in Seq(Events) BY DEF Types
  <2>2. \A e \in Events : Append(log, e) \in Seq(Events) BY <2>1
  <2> QED BY <2>1, <2>2
<1>2. Types' BY <1>1 DEF Types
<1>3. ASSUME NEW v \in Jobs, v # j PROVE JobOK(v)' BY <1>3, OtherJob
<1> QED BY <1>2, <1>3

\* A job that throws or ends.
LEMMA EndingStep ==
  ASSUME Working, NEW j \in Jobs, UNCHANGED <<store, log, graph>>, Throw(j)
  PROVE  Working'
<1>1. /\ pc' = [pc EXCEPT ![j] = "idle"] /\ todo' = [todo EXCEPT ![j] = <<>>]
      /\ ops' = [ops EXCEPT ![j] = <<>>] /\ found' = [found EXCEPT ![j] = "unknown"]
  BY DEF Throw
<1>2. graph' \in [Keys -> Seq(SUBSET Nat)] BY DEF Working, Types
<1>3. "idle" \in PCs /\ <<>> \in Seq(Nat) /\ <<>> \in Seq(Ops) BY DEF PCs
<1>4. /\ pc' \in [Jobs -> PCs] /\ todo' \in [Jobs -> Seq(Nat)] /\ ops' \in [Jobs -> Seq(Ops)]
      /\ found' \in [Jobs -> {"unknown", "yes", "no"}]
      /\ pc'[j] = "idle" /\ todo'[j] = <<>> /\ ops'[j] = <<>> /\ found'[j] = "unknown"
      /\ \A v \in Jobs \ {j} :
           pc'[v] = pc[v] /\ todo'[v] = todo[v] /\ ops'[v] = ops[v] /\ found'[v] = found[v]
  BY <1>1, <1>3 DEF Working, Types
<1> QED BY <1>2, <1>4, RestingJob, OneJobStep

\* What a job that is projecting is doing.
LEMMA Current ==
  ASSUME Working, NEW j \in Jobs, Projecting(j)
  PROVE  /\ todo[j] \in Seq(Nat) /\ todo[j] # <<>> /\ Head(todo[j]) = todo[j][1]
         /\ todo[j][1] \in DOMAIN log /\ todo[j][1] \in Nat /\ log[todo[j][1]] \in Events
         /\ PlanOf[log[todo[j][1]]] \in Seq(Ops)
         /\ LeftOf(ops[j], PlanOf[log[todo[j][1]]]) /\ ops[j] \in Seq(Ops)
<1>1. todo[j] \in Seq(Nat) /\ todo[j] # <<>> BY DEF Working, Types, JobOK
<1>2. Head(todo[j]) = todo[j][1] /\ 1 \in DOMAIN todo[j] BY <1>1
<1>3. todo[j][1] \in DOMAIN log /\ log \in Seq(Events) BY <1>2 DEF Working, Types, JobOK
<1>4. log[todo[j][1]] \in Events /\ todo[j][1] \in Nat BY <1>3
<1>5. PlanOf[log[todo[j][1]]] \in Seq(Ops) BY <1>4, PlanFacts
<1>6. LeftOf(ops[j], PlanOf[log[todo[j][1]]]) /\ ops[j] \in Seq(Ops) BY DEF Working, Types, JobOK
<1> QED BY <1>1, <1>2, <1>3, <1>4, <1>5, <1>6

LEMMA EmitWorks ==
  ASSUME Working, NEW j \in Jobs, NEW e \in Events, Emit(j, e)
  PROVE  Working'
<1> DEFINE n == Len(log) + 1
<1>1. /\ log' = Append(log, e) /\ todo' = [todo EXCEPT ![j] = <<n>>]
      /\ ops' = [ops EXCEPT ![j] = PlanOf[e]] /\ pc' = [pc EXCEPT ![j] = "emit"]
      /\ UNCHANGED <<store, graph, found>> /\ pc[j] = "idle"
  BY DEF Emit
<1>2. log \in Seq(Events) BY DEF Working, Types
<1>3. n \in Nat /\ n \in DOMAIN log' /\ log'[n] = e BY <1>1, <1>2
<1>4. PlanOf[e] \in Seq(Ops) BY PlanFacts
<1> HIDE DEF n
<1>5. /\ pc' \in [Jobs -> PCs] /\ todo' \in [Jobs -> Seq(Nat)] /\ ops' \in [Jobs -> Seq(Ops)]
      /\ found' \in [Jobs -> {"unknown", "yes", "no"}] /\ graph' \in [Keys -> Seq(SUBSET Nat)]
      /\ pc'[j] = "emit" /\ todo'[j] = <<n>> /\ ops'[j] = PlanOf[e] /\ found'[j] = found[j]
      /\ \A v \in Jobs \ {j} :
           pc'[v] = pc[v] /\ todo'[v] = todo[v] /\ ops'[v] = ops[v] /\ found'[v] = found[v]
  BY <1>1, <1>3, <1>4 DEF Working, Types, PCs
<1>6. found[j] = "unknown" BY <1>1 DEF Working, JobOK, Pending, Projecting
<1>7. /\ <<n>> # <<>> /\ Len(<<n>>) = 1 /\ <<n>>[1] = n /\ DOMAIN <<n>> = {1} /\ n = n + 1 - 1
  BY <1>3
<1>8. LeftOf(PlanOf[e], PlanOf[log'[n]]) BY <1>3, <1>4, LeftOfAll
<1>9. JobOK(j)' BY <1>3, <1>5, <1>6, <1>7, <1>8 DEF JobOK, Projecting
<1> QED BY <1>1, <1>5, <1>9, OneJobStep

LEMMA RebuildWorks ==
  ASSUME Working, NEW j \in Jobs, StartRebuild(j) \/ Clear(j)
  PROVE  Working'
<1>1. PICK l \in {"clear", "read"} : pc' = [pc EXCEPT ![j] = l] BY DEF StartRebuild, Clear
<1>2. UNCHANGED <<store, log, todo, ops, found>> BY DEF StartRebuild, Clear
<1>3. graph' \in [Keys -> Seq(SUBSET Nat)]
  <2>1. <<>> \in Seq(SUBSET Nat) OBVIOUS
  <2>2. graph' = graph \/ graph' = [k \in Keys |-> <<>>]
    BY DEF StartRebuild, Clear, Cleared, ClearIgnored
  <2> QED BY <2>1, <2>2 DEF Working, Types
<1>4. pc[j] \in {"idle", "clear"} BY DEF StartRebuild, Clear
<1>5. ops[j] = <<>> /\ found[j] = "unknown"
  BY <1>4 DEF Working, JobOK, Projecting, Pending
<1>6. /\ pc' \in [Jobs -> PCs] /\ pc'[j] = l /\ \A v \in Jobs \ {j} : pc'[v] = pc[v]
  BY <1>1 DEF Working, Types, PCs
<1>7. JobOK(j)' BY <1>2, <1>4, <1>5, <1>6 DEF Working, JobOK, Projecting, Pending
<1>8. /\ todo' \in [Jobs -> Seq(Nat)] /\ ops' \in [Jobs -> Seq(Ops)]
      /\ found' \in [Jobs -> {"unknown", "yes", "no"}]
  BY <1>2 DEF Working, Types
<1> QED BY <1>2, <1>3, <1>6, <1>7, <1>8, OneJobStep

LEMMA ReadWorks ==
  ASSUME Working, NEW j \in Jobs, ReadLog(j)
  PROVE  Working'
<1> DEFINE all == [i \in DOMAIN log |-> i]
           o == IF log = <<>> THEN <<>> ELSE PlanOf[log[1]]
           l == IF log = <<>> THEN "idle" ELSE "rebuild"
<1>1. /\ todo' = [todo EXCEPT ![j] = all] /\ ops' = [ops EXCEPT ![j] = o]
      /\ pc' = [pc EXCEPT ![j] = l] /\ UNCHANGED <<store, log, graph, found>> /\ pc[j] = "read"
  BY DEF ReadLog
<1>2. log \in Seq(Events) BY DEF Working, Types
<1>3. all \in Seq(Nat) /\ DOMAIN all = DOMAIN log /\ \A i \in DOMAIN log : i \in Nat /\ all[i] = i
  BY <1>2
<1>4. log # <<>> => 1 \in DOMAIN log /\ log[1] \in Events BY <1>2
<1>5. o \in Seq(Ops) /\ (log # <<>> => LeftOf(o, PlanOf[log[1]]))
  BY <1>4, PlanFacts, LeftOfAll
<1>6. log = <<>> => all = <<>> BY <1>3
<1>7. l \in PCs /\ found[j] = "unknown"
  BY <1>1 DEF PCs, Working, JobOK, Projecting, Pending
<1> HIDE DEF all
<1>8. /\ pc' \in [Jobs -> PCs] /\ todo' \in [Jobs -> Seq(Nat)] /\ ops' \in [Jobs -> Seq(Ops)]
      /\ found' \in [Jobs -> {"unknown", "yes", "no"}] /\ graph' \in [Keys -> Seq(SUBSET Nat)]
      /\ pc'[j] = l /\ todo'[j] = all /\ ops'[j] = o /\ found'[j] = "unknown"
      /\ \A v \in Jobs \ {j} :
           pc'[v] = pc[v] /\ todo'[v] = todo[v] /\ ops'[v] = ops[v] /\ found'[v] = found[v]
  BY <1>1, <1>3, <1>5, <1>7 DEF Working, Types
<1>9. JobOK(j)'
  <2>1. CASE log = <<>> BY <1>6, <1>8, <2>1, RestingJob
  <2>2. CASE log # <<>>
    <3>1. all # <<>> /\ 1 \in DOMAIN all /\ all[1] = 1 BY <1>3, <1>4, <2>2
    <3>2. \A k \in DOMAIN all : all[k] \in DOMAIN log /\ all[k] = 1 + k - 1 BY <1>3
    <3>3. LeftOf(o, PlanOf[log'[1]]) BY <1>1, <1>5, <2>2
    <3> QED BY <1>1, <1>8, <2>2, <3>1, <3>2, <3>3 DEF JobOK, Projecting
  <2> QED BY <2>1, <2>2
<1> QED BY <1>1, <1>8, <1>9, OneJobStep

LEMMA RunOfTail ==
  ASSUME NEW s \in Seq(Nat), s # <<>>, NEW D,
         \A k \in DOMAIN s : s[k] \in D /\ s[k] = s[1] + k - 1
  PROVE  /\ Tail(s) \in Seq(Nat)
         /\ \A k \in DOMAIN Tail(s) : Tail(s)[k] \in D /\ Tail(s)[k] = Tail(s)[1] + k - 1
         /\ Tail(s) # <<>> => Tail(s)[1] = s[1] + 1
<1>1. /\ Tail(s) \in Seq(Nat) /\ DOMAIN Tail(s) = 1 .. Len(s) - 1 /\ Len(s) \in Nat /\ Len(s) > 0
      /\ \A k \in DOMAIN Tail(s) : k + 1 \in DOMAIN s /\ Tail(s)[k] = s[k + 1]
  BY SequenceFacts
<1>2. s[1] \in Nat BY <1>1
<1>3. \A k \in 1 .. Len(s) - 1 : Tail(s)[k] \in D /\ Tail(s)[k] = s[1] + (k + 1) - 1
  <2> SUFFICES ASSUME NEW k \in 1 .. Len(s) - 1
               PROVE  Tail(s)[k] \in D /\ Tail(s)[k] = s[1] + (k + 1) - 1
    OBVIOUS
  <2>1. k + 1 \in DOMAIN s /\ Tail(s)[k] = s[k + 1] BY <1>1
  <2> QED BY <2>1
<1>4. \A k \in 1 .. Len(s) - 1 : k \in Nat /\ 1 \in 1 .. Len(s) - 1 BY <1>1
<1>5. \A k \in 1 .. Len(s) - 1 : Tail(s)[1] = s[1] + 1 BY <1>2, <1>3, <1>4
<1>6. \A k \in 1 .. Len(s) - 1 : Tail(s)[k] = Tail(s)[1] + k - 1
  <2> SUFFICES ASSUME NEW k \in 1 .. Len(s) - 1 PROVE Tail(s)[k] = Tail(s)[1] + k - 1
    OBVIOUS
  <2>1. Tail(s)[k] = s[1] + (k + 1) - 1 /\ Tail(s)[1] = s[1] + 1 /\ k \in Nat
    BY <1>3, <1>4, <1>5
  <2> QED BY <1>2, <2>1
<1>7. Tail(s) # <<>> => 1 \in 1 .. Len(s) - 1 BY <1>1
<1> QED BY <1>1, <1>3, <1>5, <1>6, <1>7

LEMMA DoneWorks ==
  ASSUME Working, NEW j \in Jobs, EventDone(j)
  PROVE  Working'
<1>1. Projecting(j) /\ ops[j] = <<>> /\ UNCHANGED <<store, log, graph, found>>
  BY DEF EventDone
<1>2. found[j] = "unknown" BY <1>1 DEF Working, JobOK, Pending
<1> DEFINE s == todo[j]
           t == IF pc[j] = "emit" THEN s ELSE Tail(s)
           o == IF t = <<>> \/ pc[j] = "emit" THEN <<>> ELSE PlanOf[log[Head(t)]]
           l == IF t = <<>> THEN "idle" ELSE IF pc[j] = "emit" THEN "handle" ELSE "rebuild"
<1>3. s \in Seq(Nat) /\ s # <<>> /\ log \in Seq(Events) /\ DOMAIN s = 1 .. Len(s)
      /\ Len(s) \in Nat /\ (pc[j] = "emit" => Len(s) = 1)
      /\ \A k \in DOMAIN s : s[k] \in DOMAIN log /\ s[k] = s[1] + k - 1
  <2>1. s \in Seq(Nat) /\ s # <<>> BY <1>1, Current
  <2>2. /\ log \in Seq(Events) /\ (pc[j] = "emit" => Len(s) = 1)
        /\ \A k \in DOMAIN s : s[k] \in DOMAIN log /\ s[k] = s[1] + k - 1
    BY DEF Working, Types, JobOK
  <2>3. DOMAIN s = 1 .. Len(s) /\ Len(s) \in Nat BY <2>1
  <2> QED BY <2>1, <2>2, <2>3
<1>4. /\ todo' = [todo EXCEPT ![j] = t] /\ todo'[j] = t
  BY DEF EventDone, Working, Types
<1>5. ops' = [ops EXCEPT ![j] = o] /\ pc' = [pc EXCEPT ![j] = l]
  BY <1>4 DEF EventDone
<1>6. t \in Seq(Nat) /\ \A k \in DOMAIN t : t[k] \in DOMAIN log /\ t[k] = t[1] + k - 1
  <2>1. CASE pc[j] = "emit" BY <1>3, <2>1
  <2>2. CASE pc[j] # "emit"
    <3> HIDE DEF s
    <3>1. /\ Tail(s) \in Seq(Nat)
          /\ \A k \in DOMAIN Tail(s) : Tail(s)[k] \in DOMAIN log /\ Tail(s)[k] = Tail(s)[1] + k - 1
      BY <1>3, RunOfTail
    <3> QED BY <2>2, <3>1
  <2> QED BY <2>1, <2>2
<1> HIDE DEF t
<1>7. t # <<>> => Head(t) = t[1] /\ log[t[1]] \in Events /\ PlanOf[log[t[1]]] \in Seq(Ops)
                  /\ LeftOf(PlanOf[log[t[1]]], PlanOf[log[t[1]]])
  <2> SUFFICES ASSUME t # <<>>
               PROVE  /\ Head(t) = t[1] /\ log[t[1]] \in Events /\ PlanOf[log[t[1]]] \in Seq(Ops)
                      /\ LeftOf(PlanOf[log[t[1]]], PlanOf[log[t[1]]])
    OBVIOUS
  <2>1. Head(t) = t[1] /\ 1 \in DOMAIN t BY <1>6
  <2>2. log[t[1]] \in Events BY <1>3, <1>6, <2>1
  <2>3. PlanOf[log[t[1]]] \in Seq(Ops) BY <2>2, PlanFacts
  <2> QED BY <2>1, <2>2, <2>3, LeftOfAll
<1>8. o \in Seq(Ops) /\ l \in PCs BY <1>7 DEF PCs
<1>9. l = "rebuild" => t # <<>> /\ pc[j] # "emit" BY DEF PCs
<1>10. (l = "rebuild" => o = PlanOf[log[t[1]]]) /\ (l # "rebuild" => o = <<>>)
  <2>1. l # "rebuild" => t = <<>> \/ pc[j] = "emit" OBVIOUS
  <2> QED BY <1>7, <1>9, <2>1
<1>11. pc[j] = "emit" => t = s BY DEF t
<1>12. l \in {"idle", "handle", "rebuild"} /\ (l = "handle" => pc[j] = "emit" /\ t # <<>>)
  OBVIOUS
<1> HIDE DEF o, l
<1>13. /\ pc' \in [Jobs -> PCs] /\ todo' \in [Jobs -> Seq(Nat)] /\ ops' \in [Jobs -> Seq(Ops)]
       /\ found' \in [Jobs -> {"unknown", "yes", "no"}] /\ graph' \in [Keys -> Seq(SUBSET Nat)]
       /\ pc'[j] = l /\ todo'[j] = t /\ ops'[j] = o /\ found'[j] = "unknown"
       /\ \A v \in Jobs \ {j} :
            pc'[v] = pc[v] /\ todo'[v] = todo[v] /\ ops'[v] = ops[v] /\ found'[v] = found[v]
  BY <1>1, <1>2, <1>4, <1>5, <1>6, <1>8 DEF Working, Types
<1>14. JobOK(j)'
  BY <1>1, <1>3, <1>6, <1>7, <1>9, <1>10, <1>11, <1>12, <1>13 DEF JobOK, Projecting
<1> QED BY <1>1, <1>13, <1>14, OneJobStep

LEMMA HandleWorks ==
  ASSUME Working, NEW j \in Jobs, Handle(j)
  PROVE  Working'
<1>1. /\ pc[j] = "handle" /\ pc' = [pc EXCEPT ![j] = "idle"] /\ todo' = [todo EXCEPT ![j] = <<>>]
      /\ UNCHANGED <<store, log, graph, ops, found>>
  BY DEF Handle
<1>2. ops[j] = <<>> /\ found[j] = "unknown" BY <1>1 DEF Working, JobOK, Projecting, Pending
<1>3. /\ pc' \in [Jobs -> PCs] /\ todo' \in [Jobs -> Seq(Nat)] /\ ops' \in [Jobs -> Seq(Ops)]
      /\ found' \in [Jobs -> {"unknown", "yes", "no"}] /\ graph' \in [Keys -> Seq(SUBSET Nat)]
      /\ pc'[j] = "idle" /\ todo'[j] = <<>> /\ ops'[j] = <<>> /\ found'[j] = "unknown"
      /\ \A v \in Jobs \ {j} :
           pc'[v] = pc[v] /\ todo'[v] = todo[v] /\ ops'[v] = ops[v] /\ found'[v] = found[v]
  BY <1>1, <1>2 DEF Working, Types, PCs
<1> QED BY <1>1, <1>3, RestingJob, OneJobStep

LEMMA GuardWorks ==
  ASSUME Working, NEW j \in Jobs, Guard(j)
  PROVE  Working'
<1> DEFINE O == ops[j]
           G == <<[Head(O) EXCEPT !.if = {}]>> \o Tail(O)
<1>1. /\ Projecting(j) /\ O # <<>> /\ UNCHANGED <<store, log, graph, pc, todo, found>>
      /\ Head(O).if # {}
  BY DEF Guard, Pending
<1>2. PICK o \in {G, Tail(O)} : ops' = [ops EXCEPT ![j] = o] BY DEF Guard
<1>3. O \in Seq(Ops) /\ \A P \in Seq(Ops) : LeftOf(O, P) => o \in Seq(Ops) /\ LeftOf(o, P)
  <2>1. O \in Seq(Ops) BY DEF Working, Types
  <2> HIDE DEF O
  <2> QED BY <1>1, <1>2, <2>1, LeftOfTail, LeftOfGuarded
<1> HIDE DEF G
<1>4. o \in Seq(Ops) /\ LeftOf(o, PlanOf[log[todo[j][1]]]) BY <1>1, <1>3, Current
<1>5. found[j] = "unknown" BY <1>1 DEF Working, JobOK
<1>6. /\ ops' \in [Jobs -> Seq(Ops)] /\ ops'[j] = o /\ \A v \in Jobs \ {j} : ops'[v] = ops[v]
  BY <1>2, <1>4 DEF Working, Types
<1>7. JobOK(j)' BY <1>1, <1>4, <1>5, <1>6 DEF Working, JobOK, Projecting
<1> QED BY <1>1, <1>6, <1>7, OneJobStep DEF Working, Types

\* One operation is done.
LEMMA AdvanceWorks ==
  ASSUME Working, NEW j \in Jobs, Pending(j), Advance(j), UNCHANGED <<store, log, pc, todo>>,
         graph' \in [Keys -> Seq(SUBSET Nat)], found' = [found EXCEPT ![j] = "unknown"]
  PROVE  Working'
<1>1. ops' = [ops EXCEPT ![j] = Tail(ops[j])] /\ Projecting(j) /\ ops[j] # <<>>
  BY DEF Advance, Pending
<1>2. Tail(ops[j]) \in Seq(Ops) /\ LeftOf(Tail(ops[j]), PlanOf[log[todo[j][1]]])
  BY <1>1, Current, LeftOfTail
<1>3. /\ ops' \in [Jobs -> Seq(Ops)] /\ ops'[j] = Tail(ops[j]) /\ found'[j] = "unknown"
      /\ found' \in [Jobs -> {"unknown", "yes", "no"}]
      /\ \A v \in Jobs \ {j} : ops'[v] = ops[v] /\ found'[v] = found[v]
  BY <1>1, <1>2 DEF Working, Types
<1>4. JobOK(j)' BY <1>1, <1>2, <1>3 DEF Working, JobOK, Projecting
<1> QED BY <1>3, <1>4, OneJobStep DEF Working, Types

\* What a write leaves in the graph.
LEMMA WriteTypes ==
  ASSUME Working, NEW j \in Jobs, MemoryWrite(j) \/ HydraWrite(j)
  PROVE  /\ graph' \in [Keys -> Seq(SUBSET Nat)] /\ Stamp(j) \in Nat
         /\ Head(ops[j]) \in Ops /\ Head(ops[j]).key \in Keys
<1>1. Pending(j) BY DEF MemoryWrite, HydraWrite
<1>2. Stamp(j) \in Nat BY <1>1, Current DEF Stamp, Pending
<1>3. Head(ops[j]) \in Ops
  <2>1. ops[j] \in Seq(Ops) /\ ops[j] # <<>> BY <1>1, Current DEF Pending
  <2> QED BY <2>1, SequenceFacts
<1>4. Head(ops[j]).key \in Keys BY <1>3, OpFacts
<1> DEFINE key == Head(ops[j]).key
           old == graph[key]
<1>5. old \in Seq(SUBSET Nat) BY <1>4 DEF Working, Types
<1>6. UNION ToSet(old) \in SUBSET Nat BY <1>5 DEF ToSet
<1>7. <<(UNION ToSet(old)) \cup {Stamp(j)}>> \in Seq(SUBSET Nat) /\ <<{Stamp(j)}>> \in Seq(SUBSET Nat)
  <2>1. (UNION ToSet(old)) \cup {Stamp(j)} \in SUBSET Nat /\ {Stamp(j)} \in SUBSET Nat
    <3>1. \A U \in SUBSET Nat, i \in Nat : U \cup {i} \in SUBSET Nat /\ {i} \in SUBSET Nat
      OBVIOUS
    <3> QED BY <1>2, <1>6, <3>1, Zenon
  <2>2. \A x \in SUBSET Nat : <<x>> \in Seq(SUBSET Nat) OBVIOUS
  <2> QED BY <2>1, <2>2
<1>8. [c \in DOMAIN old |-> {Stamp(j)}] \in Seq(SUBSET Nat) /\ Append(old, {Stamp(j)}) \in Seq(SUBSET Nat)
  BY <1>2, <1>5
<1>9. \/ graph' = graph
      \/ \E v \in Seq(SUBSET Nat) : graph' = [graph EXCEPT ![key] = v]
  BY <1>7, <1>8 DEF MemoryWrite, HydraWrite
<1>10. graph' \in [Keys -> Seq(SUBSET Nat)] BY <1>9 DEF Working, Types
<1> QED BY <1>2, <1>3, <1>4, <1>10

LEMMA ProjectWorks ==
  ASSUME Working, NEW j \in Jobs, Project(j)
  PROVE  Working'
<1>1. CASE Guard(j) BY <1>1, GuardWorks
<1>2. CASE MemoryWrite(j)
  <2>1. UNCHANGED <<store, log>> /\ Pending(j) BY <1>2 DEF MemoryWrite
  <2>2. CASE Throw(j) /\ UNCHANGED graph BY <2>1, <2>2, EndingStep
  <2>3. CASE Advance(j) /\ UNCHANGED <<pc, todo, found>>
    <3>1. found[j] = "unknown"
      <4>1. store # "hydra" BY <1>2 DEF MemoryWrite
      <4> QED BY <4>1 DEF Working, JobOK, Types
    <3>2. found' = [found EXCEPT ![j] = "unknown"] BY <2>3, <3>1 DEF Working, Types
    <3> QED BY <1>2, <2>1, <2>3, <3>2, WriteTypes, AdvanceWorks
  <2> QED BY <1>2, <2>2, <2>3 DEF MemoryWrite
<1>3. CASE HydraGet(j)
  <2>1. /\ UNCHANGED <<store, log, graph, pc, todo, ops>> /\ Pending(j) /\ store = "hydra"
        /\ Head(ops[j]).if = {}
        /\ found' \in [Jobs -> {"unknown", "yes", "no"}] /\ \A v \in Jobs \ {j} : found'[v] = found[v]
    BY <1>3 DEF HydraGet, Working, Types
  <2>2. JobOK(j)' BY <2>1 DEF Working, JobOK, Projecting, Pending
  <2> QED BY <2>1, <2>2, OneJobStep DEF Working, Types
<1>4. CASE HydraWrite(j)
  BY <1>4, WriteTypes, AdvanceWorks DEF HydraWrite
<1>5. CASE QueryFails(j) BY <1>5, EndingStep DEF QueryFails
<1> QED BY <1>1, <1>2, <1>3, <1>4, <1>5 DEF Project

LEMMA CrashWorks ==
  ASSUME Working, NEW j \in Jobs, Crash(j)
  PROVE  Working'
<1> DEFINE dead == IF store = "memory" THEN Jobs ELSE {j}
<1>1. /\ pc' = [k \in Jobs |-> IF k \in dead THEN "idle" ELSE pc[k]]
      /\ todo' = [k \in Jobs |-> IF k \in dead THEN <<>> ELSE todo[k]]
      /\ ops' = [k \in Jobs |-> IF k \in dead THEN <<>> ELSE ops[k]]
      /\ found' = [k \in Jobs |-> IF k \in dead THEN "unknown" ELSE found[k]]
      /\ UNCHANGED <<store, log>> /\ (graph' = graph \/ graph' = [k \in Keys |-> <<>>])
  BY DEF Crash
<1> HIDE DEF dead
<1>2. graph' \in [Keys -> Seq(SUBSET Nat)]
  <2>1. <<>> \in Seq(SUBSET Nat) OBVIOUS
  <2> QED BY <1>1, <2>1 DEF Working, Types
<1>3. <<>> \in Seq(Nat) /\ <<>> \in Seq(Ops) OBVIOUS
<1>4. Types' BY <1>1, <1>2, <1>3 DEF Working, Types, PCs
<1>5. ASSUME NEW v \in Jobs PROVE JobOK(v)'
  <2>1. CASE v \in dead BY <1>1, <2>1, RestingJob
  <2>2. CASE v \notin dead BY <1>1, <2>2, OtherJob DEF Working
  <2> QED BY <2>1, <2>2
<1> QED BY <1>4, <1>5 DEF Working

LEMMA WorkingStep ==
  ASSUME Working, [Next]_vars
  PROVE  Working'
<1>1. CASE UNCHANGED vars BY <1>1, OtherJob DEF Working, Types, vars, job
<1> QED BY <1>1, EmitWorks, RebuildWorks, ReadWorks, DoneWorks, HandleWorks, ProjectWorks,
           CrashWorks DEF Next, Rest
-----------------------------------------------------------------------------
(* The graph follows the log                                               *)

\* The operation a job is at belongs to the plan of its event.
LEMMA OperationIsPlanned ==
  ASSUME Working, NEW j \in Jobs, Pending(j)
  PROVE  LET op == Head(ops[j])
             P == PlanOf[log[Stamp(j)]]
             k == Len(P) - Len(ops[j]) + 1
         IN  /\ Stamp(j) = todo[j][1] /\ Stamp(j) \in DOMAIN log /\ log[Stamp(j)] \in Events
             /\ op \in Ops /\ op = ops[j][1] /\ P \in Seq(Ops) /\ k \in DOMAIN P
             /\ op.key = P[k].key /\ op.ends = P[k].ends /\ (op.if = P[k].if \/ op.if = {})
             /\ Len(ops[j]) \in Nat /\ Len(ops[j]) > 0 /\ Len(P) \in Nat
<1> DEFINE op == Head(ops[j])
           P == PlanOf[log[Stamp(j)]]
           k == Len(P) - Len(ops[j]) + 1
<1>1. /\ Stamp(j) = todo[j][1] /\ Stamp(j) \in DOMAIN log /\ log[Stamp(j)] \in Events
      /\ P \in Seq(Ops) /\ LeftOf(ops[j], P) /\ ops[j] \in Seq(Ops) /\ ops[j] # <<>>
  BY Current DEF Stamp, Pending
<1>2. /\ op \in Ops /\ op = ops[j][1] /\ 1 \in DOMAIN ops[j]
      /\ Len(ops[j]) \in Nat /\ Len(ops[j]) > 0
  BY <1>1, SequenceFacts
<1>3. k \in DOMAIN P /\ Len(P) \in Nat
  <2>1. DOMAIN P = 1 .. Len(P) /\ Len(P) \in Nat BY <1>1
  <2>2. Len(ops[j]) <= Len(P) BY <1>1 DEF LeftOf
  <2> HIDE DEF P
  <2> QED BY <1>2, <2>1, <2>2
<1>4. op.key = P[k].key /\ op.ends = P[k].ends /\ (op.if = P[k].if \/ op.if = {})
  BY <1>1, <1>2 DEF LeftOf
<1> QED BY <1>1, <1>2, <1>3, <1>4

\* The copies of a key after a write.
Written1(old, i) ==
  {<<(UNION ToSet(old)) \cup {i}>>, <<{i}>>, [c \in DOMAIN old |-> {i}], Append(old, {i})}

LEMMA GraphChange ==
  ASSUME Working, [Next]_vars, NEW key \in Keys
  PROVE  \/ graph'[key] \in {graph[key], <<>>}
         \/ \E j \in Jobs : /\ Pending(j) /\ key = Head(ops[j]).key /\ log' = log
                            /\ graph'[key] \in Written1(graph[key], Stamp(j))
<1>1. CASE \E j \in Jobs : MemoryWrite(j) \/ HydraWrite(j)
  <2>1. PICK j \in Jobs : MemoryWrite(j) \/ HydraWrite(j) BY <1>1
  <2>2. Head(ops[j]).key \in Keys BY <2>1, WriteTypes
  <2>3. Pending(j) /\ log' = log BY <2>1 DEF MemoryWrite, HydraWrite
  <2>4. CASE key # Head(ops[j]).key \/ graph' = graph
    <3>1. graph'[key] = graph[key]
      BY <2>1, <2>4 DEF MemoryWrite, HydraWrite, Working, Types
    <3> QED BY <3>1
  <2>5. CASE key = Head(ops[j]).key /\ graph' # graph
    <3>1. \E v \in Written1(graph[key], Stamp(j)) : graph' = [graph EXCEPT ![key] = v]
      BY <2>1, <2>5 DEF MemoryWrite, HydraWrite, Written1
    <3>2. graph'[key] \in Written1(graph[key], Stamp(j)) BY <3>1 DEF Working, Types
    <3> QED BY <2>3, <2>5, <3>2
  <2> QED BY <2>4, <2>5
<1>2. CASE graph' = graph \/ graph' = [k \in Keys |-> <<>>] BY <1>2
<1>3. \/ graph' = graph \/ graph' = [k \in Keys |-> <<>>]
      \/ \E j \in Jobs : MemoryWrite(j) \/ HydraWrite(j)
  BY DEF Next, Rest, vars, Emit, StartRebuild, Clear, Cleared, ClearIgnored, ReadLog, EventDone,
         Handle, Project, Guard, HydraGet, QueryFails, Crash
<1> QED BY <1>1, <1>2, <1>3

LEMMA LogGrows ==
  ASSUME Working, [Next]_vars
  PROVE  /\ log' = log \/ \E e \in Events : log' = Append(log, e)
         /\ \A i \in DOMAIN log : i \in DOMAIN log' /\ log'[i] = log[i]
<1>1. log' = log \/ \E e \in Events : log' = Append(log, e)
  BY DEF Next, Rest, vars, Emit, StartRebuild, Clear, Cleared, ClearIgnored, ReadLog, EventDone,
         Handle, Project, Guard, MemoryWrite, HydraGet, HydraWrite, QueryFails, Crash
<1>2. ASSUME NEW e \in Events, log' = Append(log, e)
      PROVE  \A i \in DOMAIN log : i \in DOMAIN log' /\ log'[i] = log[i]
  <2>1. log \in Seq(Events) BY DEF Working, Types
  <2> QED BY <1>2, <2>1
<1> QED BY <1>1, <1>2

\* A copy of a key holds the data of these events of the log.
Holds(l, key, S) ==
  S # {} /\ \A i \in S : i \in DOMAIN l /\ \E k \in DOMAIN PlanOf[l[i]] : PlanOf[l[i]][k].key = key

LEMMA FollowsStep ==
  ASSUME Working, GraphFollowsLog, [Next]_vars
  PROVE  GraphFollowsLog'
<1>1. \A key, S : Holds(log, key, S) => Holds(log', key, S)
  BY LogGrows DEF Holds
<1>2. \A key \in Keys : \A c \in DOMAIN graph[key] : Holds(log, key, graph[key][c])
  BY DEF GraphFollowsLog, Holds
<1>3. ASSUME NEW key \in Keys PROVE \A c \in DOMAIN graph'[key] : Holds(log', key, graph'[key][c])
  <2>1. CASE graph'[key] \in {graph[key], <<>>} BY <1>1, <1>2, <2>1
  <2>2. ASSUME NEW j \in Jobs, Pending(j), key = Head(ops[j]).key, log' = log,
               graph'[key] \in Written1(graph[key], Stamp(j))
        PROVE  \A c \in DOMAIN graph'[key] : Holds(log', key, graph'[key][c])
    <3> DEFINE i == Stamp(j)
               old == graph[key]
               U == (UNION ToSet(old)) \cup {i}
    <3>1. i \in DOMAIN log /\ \E k \in DOMAIN PlanOf[log[i]] : PlanOf[log[i]][k].key = key
      BY <2>2, OperationIsPlanned
    <3>2. old \in Seq(SUBSET Nat) /\ \A c \in DOMAIN old : Holds(log, key, old[c])
      BY <1>2 DEF Working, Types
    <3>3. graph'[key] \in {<<U>>, <<{i}>>, [c \in DOMAIN old |-> {i}], Append(old, {i})}
      BY <2>2 DEF Written1
    <3> HIDE DEF i, old
    <3>4. Holds(log, key, {i}) BY <3>1 DEF Holds
    <3>5. Holds(log, key, U)
      <4>1. \A m \in U : m = i \/ \E c \in DOMAIN old : m \in old[c] BY DEF ToSet
      <4>2. \A m \in U : m \in {i} \/ \E S : m \in S /\ Holds(log, key, S) BY <3>2, <4>1
      <4>3. U # {} OBVIOUS
      <4> HIDE DEF U
      <4> QED BY <3>4, <4>2, <4>3 DEF Holds
    <3> HIDE DEF U
    <3>6. CASE graph'[key] = <<U>> BY <1>1, <3>5, <3>6
    <3>7. CASE graph'[key] = <<{i}>> BY <1>1, <3>4, <3>7
    <3>8. CASE graph'[key] = [c \in DOMAIN old |-> {i}] BY <1>1, <3>4, <3>8
    <3>9. CASE graph'[key] = Append(old, {i})
      <4>1. \A c \in DOMAIN Append(old, {i}) :
              Append(old, {i})[c] = {i} \/ (c \in DOMAIN old /\ Append(old, {i})[c] = old[c])
        BY <3>2
      <4> QED BY <1>1, <3>2, <3>4, <3>9, <4>1
    <3> QED BY <3>3, <3>6, <3>7, <3>8, <3>9
  <2> QED BY <2>1, <2>2, GraphChange
<1> QED BY <1>3 DEF GraphFollowsLog, Holds

LEMMA FollowsInductive == Spec => [](Working /\ GraphFollowsLog)
<1>1. Init => GraphFollowsLog BY DEF Init, GraphFollowsLog
<1> QED BY <1>1, WorkingInitial, WorkingStep, FollowsStep, PTL DEF Spec

\* The log is the truth: whatever overlaps, fails, crashes or is rebuilt half-way, every copy
\* in the graph was written by an event of the log that is projected to its key (README.md:
\* "Append-only event log").
THEOREM LogIsTruth == Spec => []GraphFollowsLog
BY FollowsInductive, PTL
-----------------------------------------------------------------------------
(* Each store keeps its shape                                              *)

\* Jobs that have not overlapped are one job, and what HydraDB answered it still holds.
Solo == ~overlapped => \A v, w \in Jobs : pc[v] # "idle" /\ pc[w] # "idle" => v = w
FoundStands ==
  ~overlapped =>
    \A j \in Jobs : found[j] # "unknown" => (found[j] = "no" <=> graph[Head(ops[j]).key] = <<>>)

Shape == Solo /\ FoundStands /\ StoreKeepsShape

LEMMA ShapeInitial == Init => Shape
BY DEF Init, Shape, Solo, FoundStands, StoreKeepsShape, EdgesHaveEnds, OneNodePerId

LEMMA SoloStep ==
  ASSUME Working, Solo, [Next]_vars
  PROVE  Solo'
<1>1. ASSUME NEW j \in Jobs, (\E e \in Events : Emit(j, e)) \/ StartRebuild(j) \/ Clear(j)
      PROVE  Solo'
  <2>1. \A v \in Jobs \ {j} : pc'[v] = pc[v]
    BY <1>1 DEF Emit, StartRebuild, Clear, Working, Types
  <2>2. ~overlapped' => \A v \in Jobs \ {j} : pc[v] = "idle"
    BY <1>1 DEF Emit, StartRebuild, Clear, Cleared, ClearIgnored, Alone, Solo
  <2> QED BY <2>1, <2>2 DEF Solo
<1>2. ASSUME NEW j \in Jobs,
             ReadLog(j) \/ EventDone(j) \/ Handle(j) \/ Project(j) \/ Crash(j)
      PROVE  Solo'
  <2>1. overlapped' = overlapped /\ pc[j] # "idle"
    BY <1>2 DEF ReadLog, EventDone, Handle, Project, Guard, MemoryWrite, HydraGet, HydraWrite,
                QueryFails, Crash, Throw, Pending, Projecting, history
  <2>2. \A v \in Jobs \ {j} : pc'[v] \in {pc[v], "idle"}
    BY <1>2 DEF ReadLog, EventDone, Handle, Project, Guard, MemoryWrite, HydraGet, HydraWrite,
                QueryFails, Crash, Throw, Working, Types
  <2> QED BY <2>1, <2>2 DEF Solo
<1>3. CASE UNCHANGED vars BY <1>3 DEF vars, job, history, Solo
<1> QED BY <1>1, <1>2, <1>3 DEF Next, Rest

\* The job that is not idle is the only one that has asked HydraDB.
LEMMA OnlyOneAsks ==
  ASSUME Working, Solo, ~overlapped, NEW j \in Jobs, pc[j] # "idle"
  PROVE  \A v \in Jobs \ {j} : found[v] = "unknown"
BY DEF Working, JobOK, Pending, Projecting, Solo

LEMMA FoundStep ==
  ASSUME Working, Working', Solo, Solo', FoundStands, [Next]_vars
  PROVE  FoundStands'
<1> SUFFICES ASSUME ~overlapped', NEW w \in Jobs, found'[w] # "unknown"
             PROVE  found'[w] = "no" <=> graph'[Head(ops'[w]).key] = <<>>
  BY DEF FoundStands
<1>1. Pending(w)' /\ store' = "hydra" /\ Head(ops'[w]).if = {} /\ pc'[w] # "idle"
  BY DEF Working, JobOK, Pending, Projecting
<1>2. \A v \in Jobs \ {w} : pc'[v] = "idle" BY <1>1 DEF Solo
<1>3. ASSUME NEW j \in Jobs,
             (\E e \in Events : Emit(j, e)) \/ StartRebuild(j) \/ Clear(j) \/ ReadLog(j)
      PROVE  FALSE
  <2>1. found' = found /\ found[j] = "unknown"
    BY <1>3 DEF Emit, StartRebuild, Clear, ReadLog, Working, JobOK, Pending, Projecting
  <2>2. w # j BY <2>1
  <2>3. pc'[j] = "idle" /\ ops'[w] = ops[w] /\ todo'[w] = todo[w] BY <1>2, <1>3, <2>2
    DEF Emit, StartRebuild, Clear, ReadLog, Working, Types
  <2>4. ReadLog(j)
    BY <1>3, <2>3 DEF Emit, StartRebuild, Clear, Working, Types
  <2>5. pc[j] = "read" /\ pc'[w] = pc[w] /\ overlapped' = overlapped
    BY <2>2, <2>4 DEF ReadLog, Working, Types, history
  <2> QED BY <1>1, <2>2, <2>5 DEF Solo
<1>4. ASSUME NEW j \in Jobs,
             EventDone(j) \/ Handle(j) \/ Guard(j) \/ MemoryWrite(j) \/ HydraWrite(j)
               \/ QueryFails(j) \/ Crash(j)
      PROVE  FALSE
  <2>1. found'[j] = "unknown" /\ overlapped' = overlapped
    <3>1. CASE EventDone(j) \/ Handle(j) \/ Guard(j)
      <4>1. found[j] = "unknown" /\ found' = found
        BY <3>1 DEF EventDone, Handle, Guard, Working, JobOK, Pending, Projecting
      <4> QED BY <3>1, <4>1 DEF EventDone, Handle, Guard, history
    <3>2. CASE MemoryWrite(j) \/ HydraWrite(j)
      <4>1. CASE MemoryWrite(j)
        <5>1. store' = "memory" BY <4>1 DEF MemoryWrite
        <5> QED BY <1>1, <5>1
      <4>2. CASE HydraWrite(j) BY <4>2 DEF HydraWrite, Working, Types, history
      <4> QED BY <3>2, <4>1, <4>2
    <3>3. CASE QueryFails(j) \/ Crash(j)
      BY <3>3 DEF QueryFails, Throw, Crash, Working, Types
    <3> QED BY <1>4, <3>1, <3>2, <3>3
  <2>2. pc[j] # "idle"
    BY <1>4 DEF EventDone, Handle, Guard, MemoryWrite, HydraWrite, QueryFails, Crash, Pending, Projecting
  <2>3. found[w] = "unknown" BY <2>1, <2>2, OnlyOneAsks
  <2>4. w # j BY <2>1
  <2>5. found'[w] \in {found[w], "unknown"}
    BY <1>4, <2>4 DEF EventDone, Handle, Guard, MemoryWrite, HydraWrite, QueryFails, Crash, Throw,
                      Working, Types
  <2> QED BY <2>3, <2>5
<1>5. ASSUME NEW j \in Jobs, HydraGet(j)
      PROVE  found'[w] = "no" <=> graph'[Head(ops'[w]).key] = <<>>
  <2>1. /\ found' = [found EXCEPT ![j] = IF graph[Head(ops[j]).key] # <<>> THEN "yes" ELSE "no"]
        /\ UNCHANGED <<graph, ops, overlapped>>
    BY <1>5 DEF HydraGet, history
  <2> QED BY <2>1 DEF FoundStands, Working, Types
<1>6. CASE UNCHANGED vars BY <1>6 DEF vars, job, history, FoundStands
<1> QED BY <1>3, <1>4, <1>5, <1>6 DEF Next, Rest, Project

LEMMA EdgesStep ==
  ASSUME Working, store = "memory" => EdgesHaveEnds, [Next]_vars, store' = "memory"
  PROVE  EdgesHaveEnds'
<1>1. store = "memory"
  BY DEF Next, Rest, vars, Emit, StartRebuild, Clear, Cleared, ClearIgnored, ReadLog, EventDone,
         Handle, Project, Guard, MemoryWrite, HydraGet, HydraWrite, QueryFails, Crash
<1>2. EdgesHaveEnds BY <1>1
<1>3. CASE graph' = graph BY <1>2, <1>3 DEF EdgesHaveEnds, Has
<1>4. CASE graph' = [k \in Keys |-> <<>>] BY <1>4 DEF EdgesHaveEnds
<1>5. ASSUME NEW j \in Jobs, MemoryWrite(j), graph' # graph PROVE EdgesHaveEnds'
  <2> DEFINE op == Head(ops[j])
  <2>1. op \in Ops /\ op.key \in Keys BY <1>5, WriteTypes
  <2>2. PICK v : graph' = [graph EXCEPT ![op.key] = v] /\ v # <<>>
    <3>1. PICK x : graph' = [graph EXCEPT ![op.key] = <<x>>] BY <1>5 DEF MemoryWrite
    <3>2. <<x>> # <<>> OBVIOUS
    <3> QED BY <3>1, <3>2
  <2>3. \A id \in op.ends : Has(id) BY <1>5 DEF MemoryWrite
  <2>4. \A id : <<id>> \in Keys /\ Has(id) => Has(id)'
    <3>1. \A key \in Keys : graph[key] # <<>> => graph'[key] # <<>> BY <2>2 DEF Working, Types
    <3> QED BY <3>1 DEF Has
  <2>5. \A id \in op.ends : <<id>> \in Keys /\ (~IsNode(op.key) => op.ends = {op.key[1], op.key[3]})
    BY <2>1, OpFacts
  <2>6. ASSUME NEW key \in Keys, ~IsNode(key), graph'[key] # <<>>
        PROVE  Has(key[1])' /\ Has(key[3])'
    <3>1. CASE key = op.key
      <4>1. op.ends = {key[1], key[3]} BY <2>1, <2>6, <3>1, OpFacts
      <4> QED BY <2>3, <2>4, <2>5, <4>1
    <3>2. CASE key # op.key
      <4>1. graph[key] # <<>> BY <2>2, <2>6, <3>2 DEF Working, Types
      <4>2. Has(key[1]) /\ Has(key[3]) BY <1>2, <2>6, <4>1 DEF EdgesHaveEnds
      <4>3. <<key[1]>> \in Keys /\ <<key[3]>> \in Keys BY <2>6, EdgesHaveKeys
      <4> QED BY <2>4, <4>2, <4>3
    <3> QED BY <3>1, <3>2
  <2> QED BY <2>6 DEF EdgesHaveEnds
<1>6. \/ graph' = graph \/ graph' = [k \in Keys |-> <<>>] \/ \E j \in Jobs : MemoryWrite(j)
  BY <1>1 DEF Next, Rest, vars, Emit, StartRebuild, Clear, Cleared, ClearIgnored, ReadLog,
     EventDone, Handle, Project, Guard, HydraGet, HydraWrite, QueryFails, Crash
<1> QED BY <1>3, <1>4, <1>5, <1>6

LEMMA OneCopyStep ==
  ASSUME Working, Shape, OneNodePerId, [Next]_vars, ~overlapped'
  PROVE  OneNodePerId'
<1> SUFFICES ASSUME NEW key \in Keys PROVE Len(graph'[key]) <= 1 BY DEF OneNodePerId
<1>1. CASE ~overlapped
  <2>1. CASE graph'[key] \in {graph[key], <<>>} BY <1>1, <2>1 DEF OneNodePerId
  <2>2. ASSUME NEW j \in Jobs, HydraWrite(j), key = Head(ops[j]).key PROVE Len(graph'[key]) <= 1
    <3> DEFINE x == {Stamp(j)}
               old == graph[key]
    <3>1. graph'[key] = IF found[j] = "yes" THEN [c \in DOMAIN old |-> x] ELSE Append(old, x)
      BY <2>2 DEF HydraWrite, Working, Types
    <3>2. found[j] = "no" => old = <<>> BY <1>1, <2>2 DEF HydraWrite, Shape, FoundStands
    <3>3. found[j] \in {"yes", "no"} BY <2>2 DEF HydraWrite, Working, Types
    <3>4. old \in Seq(SUBSET Nat) /\ Len(old) <= 1 BY <1>1 DEF OneNodePerId, Working, Types
    <3> HIDE DEF x, old
    <3>5. Len([c \in DOMAIN old |-> x]) = Len(old) BY <3>4
    <3>6. Len(Append(<<>>, x)) = 1 OBVIOUS
    <3> QED BY <3>1, <3>2, <3>3, <3>4, <3>5, <3>6
  <2>3. ASSUME NEW j \in Jobs, MemoryWrite(j), key = Head(ops[j]).key PROVE Len(graph'[key]) <= 1
    <3>1. graph' = graph \/ \E x : graph' = [graph EXCEPT ![key] = <<x>>]
      BY <2>3 DEF MemoryWrite
    <3>2. graph'[key] = graph[key] \/ \E x : graph'[key] = <<x>> BY <3>1 DEF Working, Types
    <3>3. CASE graph'[key] = graph[key] BY <1>1, <3>3 DEF OneNodePerId
    <3>4. ASSUME NEW x, graph'[key] = <<x>> PROVE Len(graph'[key]) <= 1
      <4>1. Len(<<x>>) = 1 /\ 1 <= 1 OBVIOUS
      <4> QED BY <3>4, <4>1
    <3> QED BY <3>2, <3>3, <3>4
  <2>4. ASSUME NEW j \in Jobs, MemoryWrite(j) \/ HydraWrite(j), key # Head(ops[j]).key
        PROVE  graph'[key] = graph[key]
    BY <2>4 DEF MemoryWrite, HydraWrite, Working, Types
  <2>5. CASE graph' = graph \/ graph' = [k \in Keys |-> <<>>] BY <2>1, <2>5
  <2>6. \/ graph' = graph \/ graph' = [k \in Keys |-> <<>>]
        \/ \E j \in Jobs : MemoryWrite(j) \/ HydraWrite(j)
    BY DEF Next, Rest, vars, Emit, StartRebuild, Clear, Cleared, ClearIgnored, ReadLog, EventDone,
           Handle, Project, Guard, HydraGet, QueryFails, Crash
  <2> QED BY <2>1, <2>2, <2>3, <2>4, <2>5, <2>6
<1>2. CASE overlapped
  <2>1. graph' = [k \in Keys |-> <<>>]
    BY <1>2 DEF Next, Rest, vars, Emit, StartRebuild, Clear, Cleared, ClearIgnored, ReadLog, EventDone,
           Handle, Project, Guard, MemoryWrite, HydraGet, HydraWrite, QueryFails, Crash, history
  <2> QED BY <2>1
<1> QED BY <1>1, <1>2

LEMMA ShapeStep ==
  ASSUME Working, Shape, [Next]_vars
  PROVE  Shape'
<1>1. Working' /\ Solo' BY WorkingStep, SoloStep DEF Shape
<1>2. FoundStands' BY <1>1, FoundStep DEF Shape
<1>3. store' = "memory" => EdgesHaveEnds' BY EdgesStep DEF Shape, StoreKeepsShape
<1>4. OneNodePerId'
  <2>1. CASE overlapped' BY <2>1 DEF OneNodePerId
  <2>2. CASE ~overlapped' BY <2>2, OneCopyStep DEF Shape, StoreKeepsShape
  <2> QED BY <2>1, <2>2
<1> QED BY <1>1, <1>2, <1>3, <1>4 DEF Shape, StoreKeepsShape

LEMMA ShapeInductive == Spec => [](Working /\ Shape)
BY WorkingInitial, WorkingStep, ShapeInitial, ShapeStep, PTL DEF Spec

\* The in-memory store never holds an edge without both of its ends, though a rebuild clears
\* it under the projections in progress; HydraDB has one node per id as long as jobs do not
\* overlap, although getEntity and CREATE are two queries (inmemory.js link, hydradb-http.js
\* upsertEntity).
THEOREM ShapeIsKept == Spec => []StoreKeepsShape
<1>1. Shape => StoreKeepsShape BY DEF Shape
<1> QED BY <1>1, ShapeInductive, PTL
-----------------------------------------------------------------------------
(* What was dispatched is projected                                        *)

\* In the graph g, what an event is projected to without conditions is there, or is still to
\* be written by these operations.
Projected(g, e, O) ==
  \A k \in DOMAIN PlanOf[e] : PlanOf[e][k].if = {} =>
    g[PlanOf[e][k].key] # <<>> \/ \E m \in DOMAIN O : O[m].key = PlanOf[e][k].key /\ O[m].if = {}

\* No rebuild has begun and no job has died.
Fresh == ~interrupted /\ rebuilds = MaxRebuilds

Emitted ==
  /\ rebuilds \in Nat /\ rebuilds <= MaxRebuilds /\ outbox \subseteq DOMAIN log
  /\ rebuilds = MaxRebuilds => \A j \in Jobs : pc[j] \notin {"clear", "read", "rebuild"}
  /\ Fresh =>
       /\ \A j \in Jobs : found[j] = "yes" => graph[Head(ops[j]).key] # <<>>
       /\ \A j \in Jobs : pc[j] # "idle" => Projected(graph, log[todo[j][1]], ops[j])
       /\ \A i \in outbox : Projected(graph, log[i], <<>>)

LEMMA EmittedInitial == Init => Emitted
BY BoundAssumption DEF Init, Emitted

LEMMA FreshStep ==
  ASSUME Working, Emitted, [Next]_vars
  PROVE  /\ rebuilds' \in Nat /\ rebuilds' <= MaxRebuilds
         /\ rebuilds' = MaxRebuilds =>
              /\ rebuilds = MaxRebuilds
              /\ \A j \in Jobs : pc'[j] \notin {"clear", "read", "rebuild"}
         /\ Fresh' => Fresh /\ \A j \in Jobs :
              ~StartRebuild(j) /\ ~Clear(j) /\ ~ReadLog(j) /\ ~QueryFails(j) /\ ~Crash(j)
<1>1. ASSUME NEW j \in Jobs, StartRebuild(j)
      PROVE  rebuilds' \in Nat /\ rebuilds' < MaxRebuilds
  BY <1>1, BoundAssumption DEF StartRebuild, Emitted
<1>2. ASSUME NEW j \in Jobs, Clear(j) \/ ReadLog(j) \/ (EventDone(j) /\ pc[j] = "rebuild")
      PROVE  rebuilds' = rebuilds /\ rebuilds < MaxRebuilds
  <2>1. rebuilds' = rebuilds /\ pc[j] \in {"clear", "read", "rebuild"}
    BY <1>2 DEF Clear, ReadLog, EventDone, budget
  <2> QED BY <2>1, BoundAssumption DEF Emitted
<1>3. ASSUME NEW j \in Jobs,
             \/ \E e \in Events : Emit(j, e)
             \/ (EventDone(j) /\ pc[j] # "rebuild") \/ Handle(j) \/ Project(j) \/ Crash(j)
      PROVE  /\ rebuilds' = rebuilds
             /\ \A v \in Jobs : pc'[v] \in {pc[v], "idle", "emit", "handle"}
             /\ interrupted => interrupted'
             /\ QueryFails(j) \/ Crash(j) => interrupted'
  <2>1. CASE \E e \in Events : Emit(j, e)
    BY <2>1 DEF Emit, budget, Working, Types, QueryFails, Crash, Pending, Projecting
  <2>2. CASE EventDone(j) /\ pc[j] # "rebuild"
    <3>1. pc[j] = "emit" BY <2>2 DEF EventDone, Projecting
    <3>2. PICK l \in {"idle", "handle"} : pc' = [pc EXCEPT ![j] = l] BY <2>2, <3>1 DEF EventDone
    <3> QED BY <2>2, <3>1, <3>2 DEF EventDone, budget, history, Working, Types, QueryFails, Pending, Crash
  <2>3. CASE Handle(j)
    BY <2>3 DEF Handle, budget, history, Working, Types, QueryFails, Pending, Projecting, Crash
  <2>4. CASE Guard(j) \/ MemoryWrite(j) \/ HydraGet(j) \/ HydraWrite(j) \/ QueryFails(j)
    <3>1. rebuilds' = rebuilds BY <2>4 DEF Guard, MemoryWrite, HydraGet, HydraWrite, QueryFails, budget
    <3>2. \A v \in Jobs : pc'[v] \in {pc[v], "idle"}
      BY <2>4 DEF Guard, MemoryWrite, HydraGet, HydraWrite, QueryFails, Throw, Working, Types
    <3>3. interrupted => interrupted'
      BY <2>4 DEF Guard, MemoryWrite, HydraGet, HydraWrite, QueryFails, history
    <3>4. QueryFails(j) \/ Crash(j) => interrupted' BY DEF QueryFails, Crash
    <3> QED BY <3>1, <3>2, <3>3, <3>4
  <2>5. CASE Crash(j) BY <2>5 DEF Crash, QueryFails
  <2> QED BY <1>3, <2>1, <2>2, <2>3, <2>4, <2>5 DEF Project
<1>4. \A j \in Jobs : QueryFails(j) \/ Crash(j) => interrupted' BY DEF QueryFails, Crash
<1>5. CASE UNCHANGED vars
  BY <1>1, <1>2, <1>4, <1>5, BoundAssumption DEF vars, job, history, budget, Emitted, Fresh
<1>6. ASSUME NEW j \in Jobs,
             \/ \E e \in Events : Emit(j, e)
             \/ (EventDone(j) /\ pc[j] # "rebuild") \/ Handle(j) \/ Project(j) \/ Crash(j)
      PROVE  /\ rebuilds' \in Nat /\ rebuilds' <= MaxRebuilds
             /\ rebuilds' = MaxRebuilds =>
                  /\ rebuilds = MaxRebuilds
                  /\ \A v \in Jobs : pc'[v] \notin {"clear", "read", "rebuild"}
             /\ Fresh' => Fresh
  BY <1>3, <1>6 DEF Emitted, Fresh
<1>7. \A j \in Jobs : StartRebuild(j) \/ Clear(j) \/ ReadLog(j) \/ (EventDone(j) /\ pc[j] = "rebuild")
                      => rebuilds' \in Nat /\ rebuilds' < MaxRebuilds /\ rebuilds' # MaxRebuilds
  BY <1>1, <1>2, BoundAssumption DEF Emitted
<1>8. \A j \in Jobs : Fresh' => ~StartRebuild(j) /\ ~Clear(j) /\ ~ReadLog(j) /\ ~QueryFails(j) /\ ~Crash(j)
  BY <1>4, <1>7 DEF Fresh
<1>9. CASE \E j \in Jobs : StartRebuild(j) \/ Clear(j) \/ ReadLog(j) \/ (EventDone(j) /\ pc[j] = "rebuild")
  BY <1>7, <1>9, BoundAssumption DEF Fresh
<1> QED BY <1>5, <1>6, <1>8, <1>9 DEF Next, Rest

\* What was to be written is written or still to be written.
Carries(h, O, Q) ==
  \A m \in DOMAIN O : O[m].if = {} =>
    h[O[m].key] # <<>> \/ \E n \in DOMAIN Q : Q[n].key = O[m].key /\ Q[n].if = {}
Fills(g, h) == \A key \in Keys : g[key] # <<>> => h[key] # <<>>

LEMMA ProjectedStays ==
  ASSUME NEW e \in Events, NEW O, NEW Q, NEW g, NEW h, Projected(g, e, O),
         Fills(g, h), Carries(h, O, Q)
  PROVE  Projected(h, e, Q)
<1>1. \A k \in DOMAIN PlanOf[e] : PlanOf[e][k].key \in Keys
  <2>1. \A k \in DOMAIN PlanOf[e] : PlanOf[e][k] \in Ops BY PlanFacts
  <2> QED BY <2>1, OpFacts
<1> SUFFICES ASSUME NEW k \in DOMAIN PlanOf[e], PlanOf[e][k].if = {}
             PROVE  \/ h[PlanOf[e][k].key] # <<>>
                    \/ \E n \in DOMAIN Q : Q[n].key = PlanOf[e][k].key /\ Q[n].if = {}
  BY DEF Projected
<1>2. CASE g[PlanOf[e][k].key] # <<>> BY <1>1, <1>2 DEF Fills
<1>3. ASSUME NEW m \in DOMAIN O, O[m].key = PlanOf[e][k].key, O[m].if = {}
      PROVE  \/ h[PlanOf[e][k].key] # <<>>
             \/ \E n \in DOMAIN Q : Q[n].key = PlanOf[e][k].key /\ Q[n].if = {}
  BY <1>3 DEF Carries
<1> QED BY <1>2, <1>3 DEF Projected

\* What a write leaves under its key and under the others.
LEMMA WriteFills ==
  ASSUME Working, NEW j \in Jobs, (MemoryWrite(j) /\ \A id \in Head(ops[j]).ends : Has(id)) \/ HydraWrite(j),
         found[j] = "yes" => graph[Head(ops[j]).key] # <<>>
  PROVE  /\ graph'[Head(ops[j]).key] # <<>>
         /\ \A key \in Keys : graph[key] # <<>> => graph'[key] # <<>>
<1> DEFINE at == Head(ops[j]).key
           old == graph[at]
<1>1. at \in Keys BY WriteTypes
<1>2. PICK v : graph' = [graph EXCEPT ![at] = v] /\ v # <<>>
  <2>1. CASE MemoryWrite(j) /\ \A id \in Head(ops[j]).ends : Has(id)
    <3>1. PICK x : graph' = [graph EXCEPT ![at] = <<x>>]
      BY <2>1 DEF MemoryWrite
    <3>2. <<x>> # <<>> OBVIOUS
    <3> QED BY <3>1, <3>2
  <2>2. CASE HydraWrite(j)
    <3>1. graph' = [graph EXCEPT ![at] =
            IF found[j] = "yes" THEN [c \in DOMAIN old |-> {Stamp(j)}] ELSE Append(old, {Stamp(j)})]
      BY <2>2 DEF HydraWrite
    <3>2. old \in Seq(SUBSET Nat) /\ (found[j] = "yes" => old # <<>>) BY <1>1 DEF Working, Types
    <3> HIDE DEF old
    <3>3. Append(old, {Stamp(j)}) # <<>> BY <3>2
    <3>4. old # <<>> => 1 \in DOMAIN old /\ 1 \notin DOMAIN <<>> BY <3>2
    <3>5. old # <<>> => [c \in DOMAIN old |-> {Stamp(j)}] # <<>> BY <3>4
    <3> QED BY <3>1, <3>2, <3>3, <3>5
  <2> QED BY <2>1, <2>2
<1>3. graph'[at] = v /\ \A key \in Keys : key # at => graph'[key] = graph[key]
  BY <1>1, <1>2 DEF Working, Types
<1> QED BY <1>2, <1>3

\* A job whose part of the state stays, while the graph only fills.
LEMMA EmittedKeeps ==
  ASSUME Working, Working', Emitted, Fresh, [Next]_vars, NEW j \in Jobs,
         \A key \in Keys : graph[key] # <<>> => graph'[key] # <<>>,
         \A v \in Jobs \ {j} :
           pc'[v] = pc[v] /\ todo'[v] = todo[v] /\ ops'[v] = ops[v] /\ found'[v] = found[v],
         found'[j] = "yes" => graph'[Head(ops'[j]).key] # <<>>,
         pc'[j] # "idle" => Projected(graph', log'[todo'[j][1]], ops'[j]),
         \A i \in outbox' \ outbox : Projected(graph', log'[i], <<>>)
  PROVE  /\ \A v \in Jobs : found'[v] = "yes" => graph'[Head(ops'[v]).key] # <<>>
         /\ \A v \in Jobs : pc'[v] # "idle" => Projected(graph', log'[todo'[v][1]], ops'[v])
         /\ \A i \in outbox' : Projected(graph', log'[i], <<>>)
<1>1. \A i \in DOMAIN log : i \in DOMAIN log' /\ log'[i] = log[i] BY LogGrows
<1>2. \A i \in DOMAIN log : log[i] \in Events
  <2>1. log \in Seq(Events) BY DEF Working, Types
  <2> QED BY <2>1
<1>3. ASSUME NEW v \in Jobs, v # j, found'[v] = "yes" PROVE graph'[Head(ops'[v]).key] # <<>>
  <2>1. Pending(v) /\ found[v] = "yes" BY <1>3 DEF Working, JobOK
  <2>2. Head(ops[v]).key \in Keys BY <2>1, OperationIsPlanned, OpFacts
  <2> QED BY <1>3, <2>1, <2>2 DEF Emitted
<1>4. ASSUME NEW v \in Jobs, v # j, pc'[v] # "idle"
      PROVE  Projected(graph', log'[todo'[v][1]], ops'[v])
  <2>1. pc[v] \in {"emit", "handle"} BY <1>4 DEF Emitted, Fresh, Working, Types, PCs
  <2>2. todo[v] \in Seq(Nat) /\ todo[v] # <<>> /\ \A k \in DOMAIN todo[v] : todo[v][k] \in DOMAIN log
    BY <2>1 DEF Working, Types, JobOK, Projecting
  <2>3. todo[v][1] \in DOMAIN log
    <3>1. 1 \in DOMAIN todo[v] BY <2>2
    <3> QED BY <2>2, <3>1
  <2>4. Projected(graph, log[todo[v][1]], ops[v]) BY <2>1 DEF Emitted
  <2>5. Fills(graph, graph') /\ Carries(graph', ops[v], ops[v]) BY DEF Fills, Carries
  <2>6. Projected(graph', log[todo[v][1]], ops[v]) BY <1>2, <2>3, <2>4, <2>5, ProjectedStays
  <2> QED BY <1>1, <1>4, <2>3, <2>6
<1>5. ASSUME NEW i \in outbox PROVE Projected(graph', log'[i], <<>>)
  <2>1. i \in DOMAIN log /\ Projected(graph, log[i], <<>>) BY DEF Emitted
  <2>2. Fills(graph, graph') /\ Carries(graph', <<>>, <<>>) BY DEF Fills, Carries
  <2>3. Projected(graph', log[i], <<>>) BY <1>2, <2>1, <2>2, ProjectedStays
  <2> QED BY <1>1, <2>1, <2>3
<1> QED BY <1>3, <1>4, <1>5

LEMMA EmittedStep ==
  ASSUME Working, Emitted, [Next]_vars
  PROVE  Emitted'
<1>1. Working' BY WorkingStep
<1>2. \A i \in DOMAIN log : i \in DOMAIN log' /\ log'[i] = log[i] BY LogGrows
<1>3. outbox' \subseteq DOMAIN log'
  <2>1. ASSUME NEW j \in Jobs, Handle(j) PROVE outbox' \subseteq DOMAIN log'
    <3>1. pc[j] = "handle" /\ outbox' \subseteq outbox \cup {Head(todo[j])} BY <2>1 DEF Handle
    <3>2. todo[j] \in Seq(Nat) /\ todo[j] # <<>> /\ \A k \in DOMAIN todo[j] : todo[j][k] \in DOMAIN log
      BY <3>1 DEF Working, Types, JobOK
    <3>3. Head(todo[j]) \in DOMAIN log
      <4>1. Head(todo[j]) = todo[j][1] /\ 1 \in DOMAIN todo[j] BY <3>2
      <4> QED BY <3>2, <4>1
    <3> QED BY <1>2, <3>1, <3>3 DEF Emitted
  <2>2. (\E j \in Jobs : Handle(j)) \/ outbox' = outbox
    BY DEF Next, Rest, vars, Emit, StartRebuild, Clear, ReadLog, EventDone, Project, Guard,
           MemoryWrite, HydraGet, HydraWrite, QueryFails, Crash
  <2> QED BY <1>2, <2>1, <2>2 DEF Emitted
<1> SUFFICES ASSUME Fresh'
             PROVE  /\ \A j \in Jobs : found'[j] = "yes" => graph'[Head(ops'[j]).key] # <<>>
                    /\ \A j \in Jobs : pc'[j] # "idle" => Projected(graph', log'[todo'[j][1]], ops'[j])
                    /\ \A i \in outbox' : Projected(graph', log'[i], <<>>)
  BY <1>3, FreshStep DEF Emitted
<1>4. Fresh /\ \A j \in Jobs :
        /\ ~StartRebuild(j) /\ ~Clear(j) /\ ~ReadLog(j) /\ ~QueryFails(j) /\ ~Crash(j)
        /\ pc[j] \notin {"clear", "read", "rebuild"}
  BY FreshStep DEF Fresh, Emitted
<1>5. ASSUME NEW j \in Jobs, NEW e \in Events, Emit(j, e) PROVE Fresh' => Emitted'
  <2> DEFINE n == Len(log) + 1
  <2>1. /\ log' = Append(log, e) /\ todo' = [todo EXCEPT ![j] = <<n>>]
        /\ ops' = [ops EXCEPT ![j] = PlanOf[e]] /\ pc' = [pc EXCEPT ![j] = "emit"]
        /\ UNCHANGED <<graph, found, outbox>> /\ pc[j] = "idle"
    BY <1>5 DEF Emit
  <2>2. found[j] = "unknown" BY <2>1 DEF Working, JobOK, Pending, Projecting
  <2>3. log'[n] = e
    <3>1. log \in Seq(Events) BY DEF Working, Types
    <3> QED BY <2>1, <3>1
  <2>4. todo'[j] = <<n>> /\ <<n>>[1] = n /\ ops'[j] = PlanOf[e] /\ pc'[j] = "emit"
    BY <2>1 DEF Working, Types
  <2>5. \A v \in Jobs \ {j} :
          pc'[v] = pc[v] /\ todo'[v] = todo[v] /\ ops'[v] = ops[v] /\ found'[v] = found[v]
    BY <2>1 DEF Working, Types
  <2>6. Projected(graph', log'[todo'[j][1]], ops'[j]) BY <2>3, <2>4 DEF Projected
  <2>7. Projected(graph, e, PlanOf[e]) BY DEF Projected
  <2> QED BY <1>1, <1>3, <1>4, <2>1, <2>2, <2>5, <2>6, EmittedKeeps, FreshStep DEF Emitted
<1>6. ASSUME NEW j \in Jobs, EventDone(j) PROVE Fresh' => Emitted'
  <2>1. Projecting(j) /\ ops[j] = <<>> /\ pc[j] = "emit" /\ UNCHANGED <<log, graph, found, outbox>>
    BY <1>4, <1>6 DEF EventDone, Projecting
  <2>2. todo' = todo BY <2>1, <1>6 DEF EventDone, Working, Types
  <2>3. ops' = [ops EXCEPT ![j] = <<>>] BY <2>1, <1>6 DEF EventDone
  <2>4. ops' = ops BY <2>1, <2>3 DEF Working, Types
  <2>5. \A v \in Jobs \ {j} : pc'[v] = pc[v] BY <1>6 DEF EventDone, Working, Types
  <2>6. Projected(graph, log[todo[j][1]], ops[j]) BY <1>4, <2>1 DEF Emitted
  <2>7. found[j] # "yes" BY <2>1 DEF Working, JobOK, Pending
  <2> QED BY <1>1, <1>3, <1>4, <2>1, <2>2, <2>4, <2>5, <2>6, <2>7, EmittedKeeps, FreshStep DEF Emitted
<1>7. ASSUME NEW j \in Jobs, Handle(j) PROVE Fresh' => Emitted'
  <2>1. /\ pc[j] = "handle" /\ pc' = [pc EXCEPT ![j] = "idle"] /\ todo' = [todo EXCEPT ![j] = <<>>]
        /\ UNCHANGED <<log, graph, ops, found>> /\ outbox' \subseteq outbox \cup {Head(todo[j])}
    BY <1>7 DEF Handle
  <2>2. ops[j] = <<>> /\ found[j] = "unknown" BY <2>1 DEF Working, JobOK, Projecting, Pending
  <2>3. Projected(graph, log[todo[j][1]], <<>>) BY <1>4, <2>1, <2>2 DEF Emitted
  <2>4. Head(todo[j]) = todo[j][1]
    <3>1. todo[j] \in Seq(Nat) /\ todo[j] # <<>> BY <2>1 DEF Working, Types, JobOK
    <3> QED BY <3>1
  <2>5. pc'[j] = "idle" /\ \A v \in Jobs \ {j} : pc'[v] = pc[v] /\ todo'[v] = todo[v]
    BY <2>1 DEF Working, Types
  <2>6. \A i \in outbox' \ outbox : Projected(graph', log'[i], <<>>) BY <2>1, <2>3, <2>4
  <2> QED BY <1>1, <1>3, <1>4, <2>1, <2>2, <2>5, <2>6, EmittedKeeps, FreshStep DEF Emitted
<1>8. ASSUME NEW j \in Jobs, Guard(j) PROVE Fresh' => Emitted'
  <2> DEFINE O == ops[j]
  <2>1. /\ Pending(j) /\ Head(O).if # {} /\ UNCHANGED <<log, graph, pc, todo, found, outbox>>
    BY <1>8 DEF Guard
  <2>2. PICK o \in {<<[Head(O) EXCEPT !.if = {}]>> \o Tail(O), Tail(O)} : ops' = [ops EXCEPT ![j] = o]
    BY <1>8 DEF Guard
  <2>3. ops'[j] = o /\ \A v \in Jobs \ {j} : ops'[v] = ops[v] BY <2>2 DEF Working, Types
  <2>4. O \in Seq(Ops) /\ O # <<>> /\ Head(O) = O[1] /\ log[todo[j][1]] \in Events
    BY <2>1, Current, SequenceFacts DEF Pending
  <2>5. \A m \in DOMAIN O : O[m].if = {} => \E n \in DOMAIN o : o[n] = O[m]
    <3> HIDE DEF O
    <3>1. CASE o = Tail(O)
      <4>1. \A m \in DOMAIN O : m # 1 => m - 1 \in DOMAIN Tail(O) /\ Tail(O)[m - 1] = O[m]
        BY <2>4
      <4> QED BY <2>1, <2>4, <3>1, <4>1
    <3>2. CASE o = <<[Head(O) EXCEPT !.if = {}]>> \o Tail(O)
      <4> DEFINE x == [Head(O) EXCEPT !.if = {}]
      <4>1. x \in Ops BY <2>4, OpFacts, SequenceFacts
      <4> HIDE DEF x
      <4>2. Len(<<x>> \o Tail(O)) = Len(O) /\ \A k \in DOMAIN O : k > 1 => (<<x>> \o Tail(O))[k] = O[k]
        BY <2>4, <4>1, ReplaceHead
      <4>3. <<x>> \o Tail(O) \in Seq(Ops) BY <2>4, <4>1, ReplaceHead
      <4>4. DOMAIN (<<x>> \o Tail(O)) = DOMAIN O /\ \A k \in DOMAIN O : k # 1 => k > 1
        BY <2>4, <4>2, <4>3
      <4> QED BY <2>1, <2>4, <3>2, <4>2, <4>4 DEF x
    <3> QED BY <2>2, <3>1, <3>2
  <2>6. Projected(graph, log[todo[j][1]], O) BY <1>4, <2>1 DEF Emitted, Pending, Projecting
  <2>7. Projected(graph, log[todo[j][1]], o)
    <3>1. Fills(graph, graph) BY DEF Fills
    <3>2. Carries(graph, O, o) BY <2>5 DEF Carries
    <3> HIDE DEF O
    <3> QED BY <2>4, <2>6, <3>1, <3>2, ProjectedStays
  <2>8. found[j] # "yes" BY <2>1 DEF Working, JobOK
  <2> QED BY <1>1, <1>3, <1>4, <2>1, <2>3, <2>7, <2>8, EmittedKeeps, FreshStep DEF Emitted
<1>9. ASSUME NEW j \in Jobs,
             (MemoryWrite(j) /\ \A id \in Head(ops[j]).ends : Has(id)) \/ HydraWrite(j)
      PROVE  Fresh' => Emitted'
  <2> DEFINE O == ops[j]
  <2>1. /\ Pending(j) /\ UNCHANGED <<log, pc, todo, outbox>> /\ ops' = [ops EXCEPT ![j] = Tail(O)]
    BY <1>9 DEF MemoryWrite, HydraWrite, Advance
  <2>2. ops'[j] = Tail(O) /\ \A v \in Jobs \ {j} : ops'[v] = ops[v] BY <2>1 DEF Working, Types
  <2>3. found'[j] # "yes" /\ \A v \in Jobs \ {j} : found'[v] = found[v]
    <3>1. CASE MemoryWrite(j) /\ \A id \in Head(ops[j]).ends : Has(id)
      <4>1. found' = found /\ store # "hydra" BY <3>1 DEF MemoryWrite
      <4> QED BY <4>1 DEF Working, JobOK
    <3>2. CASE HydraWrite(j) BY <3>2 DEF HydraWrite, Working, Types
    <3> QED BY <1>9, <3>1, <3>2
  <2>4. found[j] = "yes" => graph[Head(O).key] # <<>> BY <1>4 DEF Emitted
  <2>5. /\ graph'[Head(O).key] # <<>>
        /\ \A key \in Keys : graph[key] # <<>> => graph'[key] # <<>>
    BY <1>9, <2>4, WriteFills
  <2>6. O \in Seq(Ops) /\ O # <<>> /\ Head(O) = O[1] /\ log[todo[j][1]] \in Events
    BY <2>1, Current, SequenceFacts DEF Pending
  <2>7. \A m \in DOMAIN O : O[m].if = {} =>
          graph'[O[m].key] # <<>> \/ \E n \in DOMAIN Tail(O) : Tail(O)[n] = O[m]
    <3> HIDE DEF O
    <3>1. \A m \in DOMAIN O : m # 1 => m - 1 \in DOMAIN Tail(O) /\ Tail(O)[m - 1] = O[m] BY <2>6
    <3> QED BY <2>5, <2>6, <3>1
  <2>8. Projected(graph, log[todo[j][1]], O) BY <1>4, <2>1 DEF Emitted, Pending, Projecting
  <2>9. Projected(graph', log[todo[j][1]], Tail(O))
    <3>1. Fills(graph, graph') BY <2>5 DEF Fills
    <3>2. Carries(graph', O, Tail(O)) BY <2>7 DEF Carries
    <3> HIDE DEF O
    <3> QED BY <2>6, <2>8, <3>1, <3>2, ProjectedStays
  <2> QED BY <1>1, <1>3, <1>4, <2>1, <2>2, <2>3, <2>5, <2>9, EmittedKeeps, FreshStep DEF Emitted
<1>10. ASSUME NEW j \in Jobs, MemoryWrite(j), ~ \A id \in Head(ops[j]).ends : Has(id)
       PROVE  Fresh' => Emitted'
  <2>1. Throw(j) /\ UNCHANGED <<log, graph, outbox>> BY <1>10 DEF MemoryWrite
  <2>2. /\ pc'[j] = "idle" /\ found'[j] = "unknown"
        /\ \A v \in Jobs \ {j} :
             pc'[v] = pc[v] /\ todo'[v] = todo[v] /\ ops'[v] = ops[v] /\ found'[v] = found[v]
    BY <2>1 DEF Throw, Working, Types
  <2> QED BY <1>1, <1>3, <1>4, <2>1, <2>2, EmittedKeeps, FreshStep DEF Emitted
<1>11. ASSUME NEW j \in Jobs, HydraGet(j) PROVE Fresh' => Emitted'
  <2>1. /\ found' = [found EXCEPT ![j] = IF graph[Head(ops[j]).key] # <<>> THEN "yes" ELSE "no"]
        /\ UNCHANGED <<log, graph, pc, todo, ops, outbox>> /\ Pending(j)
    BY <1>11 DEF HydraGet
  <2>2. Projected(graph, log[todo[j][1]], ops[j]) BY <1>4, <2>1 DEF Emitted, Pending, Projecting
  <2>3. /\ found'[j] = "yes" => graph[Head(ops[j]).key] # <<>>
        /\ \A v \in Jobs \ {j} : found'[v] = found[v]
    BY <2>1 DEF Working, Types
  <2> QED BY <1>1, <1>3, <1>4, <2>1, <2>2, <2>3, EmittedKeeps, FreshStep DEF Emitted
<1>12. CASE UNCHANGED vars BY <1>4, <1>12 DEF Emitted, Fresh, vars, job, history, budget
<1> QED BY <1>4, <1>5, <1>6, <1>7, <1>8, <1>9, <1>10, <1>11, <1>12 DEF Next, Rest, Project, Emitted

LEMMA EmittedInductive == Spec => [](Working /\ Emitted)
BY WorkingInitial, WorkingStep, EmittedInitial, EmittedStep, PTL DEF Spec

\* Before any rebuild or death, a task in the outbox is in the graph with every link it must
\* have: an emit whose projection throws never reaches the handlers (bus.js awaits
\* projectEvent before it runs them).
THEOREM DispatchFollowsProjection == Spec => []DispatchedIsProjected
<1>1. Emitted => DispatchedIsProjected BY DEF Emitted, Fresh, Projected, DispatchedIsProjected
<1> QED BY <1>1, EmittedInductive, PTL
-----------------------------------------------------------------------------
(* Emitting one by one is rebuilding                                       *)

\* How far the log has been projected: what every job has behind it.
Past(p, t, o, P, i, k) ==
  /\ p # "read"
  /\ p \in {"emit", "rebuild"} => i < t[1] \/ (i = t[1] /\ k + Len(o) <= Len(P))
Applied(i, k) == \A j \in Jobs : Past(pc[j], todo[j], ops[j], PlanOf[log[i]], i, k)

WritersNow(key) ==
  {i \in DOMAIN log \ skipped : \E k \in DOMAIN PlanOf[log[i]] :
     PlanOf[log[i]][k].key = key /\ Reached(i, k) /\ Applied(i, k)}
Copies(memory, key, W) ==
  IF W = {} THEN <<>> ELSE IF memory /\ IsNode(key) THEN <<W>> ELSE <<{Max(W)}>>

Fitting(i, op) == store = "memory" => \A id \in op.ends : Present(id, i)
Skipping(i, op) == \E id \in op.if : ~Present(id, i)

Quiet == ~overlapped /\ ~interrupted

\* A job works at the end of what is projected: a rebuild on the whole log, an emit on its
\* last event, and every operation it has behind it went through or was skipped.
Position(j) ==
  LET n == todo[j][1]
      P == PlanOf[log[n]]
      m == Len(P) - Len(ops[j])
  IN  /\ pc[j] \in {"read", "rebuild"} => skipped = {}
      /\ Projecting(j) =>
           /\ n \notin skipped /\ n + Len(todo[j]) - 1 = Len(log)
           /\ \A k \in 1 .. m : Fitting(n, P[k]) \/ Skipping(n, P[k])
           /\ ops[j] # <<>> /\ Head(ops[j]).if = {} => ~Skipping(n, P[m + 1])

Replayed ==
  /\ skipped \subseteq DOMAIN log
  /\ Quiet =>
       /\ \A j \in Jobs : Position(j)
       /\ \A key \in Keys : graph[key] = Copies(store = "memory", key, WritersNow(key))

LEMMA MaxOfLast ==
  ASSUME NEW n \in Nat, NEW W, W \subseteq 0 .. n, n \in W
  PROVE  Max(W) = n
<1>1. \A y \in W : n >= y OBVIOUS
<1>2. PICK x \in W : Max(W) = x /\ \A y \in W : x >= y BY <1>1 DEF Max
<1> QED BY <1>2

LEMMA ReplayedInitial == Init => Replayed
<1> SUFFICES ASSUME Init PROVE Replayed OBVIOUS
<1>1. log = <<>> /\ skipped = {} /\ \A j \in Jobs : pc[j] = "idle" BY DEF Init
<1>2. \A key : WritersNow(key) = {} BY <1>1 DEF WritersNow
<1>3. \A j \in Jobs : Position(j) BY <1>1 DEF Position, Projecting
<1>4. \A key \in Keys : graph[key] = <<>> BY DEF Init
<1> QED BY <1>1, <1>2, <1>3, <1>4 DEF Replayed, Copies

\* While one job is in progress, what is applied is what it has behind it.
LEMMA AppliedAt ==
  ASSUME NEW j \in Jobs, \A v \in Jobs \ {j} : pc[v] = "idle", NEW i, NEW k
  PROVE  Applied(i, k) <=> Past(pc[j], todo[j], ops[j], PlanOf[log[i]], i, k)
BY DEF Applied, Past

LEMMA OthersRest ==
  ASSUME Solo, ~overlapped, NEW j \in Jobs, pc[j] # "idle"
  PROVE  \A v \in Jobs \ {j} : pc[v] = "idle"
BY DEF Solo

\* What is known of the event a job is at.
LEMMA At ==
  ASSUME Working, Solo, Replayed, Quiet, NEW j \in Jobs, Projecting(j)
  PROVE  LET n == todo[j][1]
             P == PlanOf[log[n]]
             r == Len(ops[j])
         IN  /\ n \in DOMAIN log /\ n \in Nat /\ n \notin skipped /\ log[n] \in Events
             /\ Len(log) \in Nat /\ DOMAIN log = 1 .. Len(log) /\ n <= Len(log)
             /\ P \in Seq(Ops) /\ Len(P) \in Nat /\ DOMAIN P = 1 .. Len(P)
             /\ r \in Nat /\ r <= Len(P)
             /\ \A i \in DOMAIN log : \A k : Applied(i, k) <=>
                  i < n \/ (i = n /\ k + r <= Len(PlanOf[log[i]]))
             /\ \A k \in 1 .. Len(P) - r : Fitting(n, P[k]) \/ Skipping(n, P[k])
             /\ ops[j] # <<>> /\ Head(ops[j]).if = {} => ~Skipping(n, P[Len(P) - r + 1])
<1>1. /\ todo[j][1] \in DOMAIN log /\ todo[j][1] \in Nat /\ log[todo[j][1]] \in Events
      /\ PlanOf[log[todo[j][1]]] \in Seq(Ops) /\ ops[j] \in Seq(Ops)
      /\ LeftOf(ops[j], PlanOf[log[todo[j][1]]])
  BY Current
<1>2. Len(log) \in Nat /\ DOMAIN log = 1 .. Len(log)
  <2>1. log \in Seq(Events) BY DEF Working, Types
  <2> QED BY <2>1
<1>3. Position(j) BY DEF Replayed
<1>4. \A v \in Jobs \ {j} : pc[v] = "idle" BY OthersRest DEF Quiet, Projecting
<1>5. \A i, k : Applied(i, k) <=>
        i < todo[j][1] \/ (i = todo[j][1] /\ k + Len(ops[j]) <= Len(PlanOf[log[i]]))
  BY <1>4, AppliedAt DEF Past, Projecting
<1>6. Len(ops[j]) <= Len(PlanOf[log[todo[j][1]]]) BY <1>1 DEF LeftOf
<1> DEFINE n == todo[j][1]
           P == PlanOf[log[n]]
           r == Len(ops[j])
<1>7. n \notin skipped
  BY <1>3 DEF Position
<1>8. \A k \in 1 .. Len(P) - r : Fitting(n, P[k]) \/ Skipping(n, P[k])
  BY <1>3 DEF Position
<1>9. ops[j] # <<>> /\ Head(ops[j]).if = {} => ~Skipping(n, P[Len(P) - r + 1])
  BY <1>3 DEF Position
<1>10. Len(P) \in Nat /\ DOMAIN P = 1 .. Len(P) /\ r \in Nat BY <1>1
<1>11. n <= Len(log) BY <1>1, <1>2
<1>12. \A i \in DOMAIN log : \A k : Applied(i, k) <=>
         i < n \/ (i = n /\ k + r <= Len(PlanOf[log[i]]))
  BY <1>5
<1> HIDE DEF P, r
<1> QED BY <1>1, <1>2, <1>6, <1>7, <1>8, <1>9, <1>10, <1>11, <1>12 DEF P, r

\* The node of an event is written first, without conditions.
LEMMA NodesAreReached ==
  ASSUME NEW e \in Events, NEW k \in DOMAIN PlanOf[e], IsNode(PlanOf[e][k].key)
  PROVE  k = 1 /\ PlanOf[e][k].ends = {} /\ PlanOf[e][k].if = {}
<1>1. k = 1 /\ PlanOf[e][k] \in Ops BY PlanFacts
<1>2. PlanOf[e][k].ends = {} /\ PlanOf[e][k].if \subseteq PlanOf[e][k].ends BY <1>1, OpFacts
<1> QED BY <1>1, <1>2

\* The graph has the entities that the log has created so far.
LEMMA HasIsPresent ==
  ASSUME Working, Solo, Replayed, Quiet, NEW j \in Jobs, Pending(j),
         ~IsNode(Head(ops[j]).key), NEW id, <<id>> \in Keys
  PROVE  Has(id) <=> Present(id, todo[j][1])
<1> DEFINE n == todo[j][1]
           P == PlanOf[log[n]]
           r == Len(ops[j])
<1>1. /\ n \in DOMAIN log /\ n \in Nat /\ n \notin skipped
      /\ Len(log) \in Nat /\ DOMAIN log = 1 .. Len(log) /\ n <= Len(log)
      /\ \A i \in DOMAIN log : \A k : Applied(i, k) <=>
           i < n \/ (i = n /\ k + r <= Len(PlanOf[log[i]]))
  BY At DEF Pending
<1>2. graph[<<id>>] = Copies(store = "memory", <<id>>, WritersNow(<<id>>)) BY DEF Replayed
<1>3. Has(id) <=> WritersNow(<<id>>) # {}
  <2>1. \A W, m : W # {} => Copies(m, <<id>>, W) # <<>>
    <3>1. \A x : <<x>> # <<>> OBVIOUS
    <3> QED BY <3>1 DEF Copies
  <2>2. \A m : Copies(m, <<id>>, {}) = <<>> BY DEF Copies
  <2> QED BY <1>2, <2>1, <2>2 DEF Has
<1>4. \A i \in DOMAIN log : log[i] \in Events
  <2>1. log \in Seq(Events) BY DEF Working, Types
  <2> QED BY <2>1
<1>5. IsNode(<<id>>) OBVIOUS
<1>6. ASSUME NEW i \in WritersNow(<<id>>) PROVE Present(id, n)
  <2>1. /\ i \in DOMAIN log \ skipped
        /\ \E k \in DOMAIN PlanOf[log[i]] : PlanOf[log[i]][k].key = <<id>> /\ Applied(i, k)
    BY DEF WritersNow
  <2>2. i <= n BY <1>1, <2>1
  <2>3. i \in 1 .. n \ skipped BY <1>1, <2>1, <2>2
  <2> QED BY <2>1, <2>3 DEF Present
<1>7. ASSUME Present(id, n) PROVE WritersNow(<<id>>) # {}
  <2>1. PICK h \in 1 .. n \ skipped : \E k \in DOMAIN PlanOf[log[h]] : PlanOf[log[h]][k].key = <<id>>
    BY <1>7 DEF Present
  <2>2. PICK k \in DOMAIN PlanOf[log[h]] : PlanOf[log[h]][k].key = <<id>> BY <2>1
  <2>3. h \in DOMAIN log \ skipped /\ h <= n /\ h \in Nat BY <1>1, <2>1
  <2>4. k = 1 /\ PlanOf[log[h]][1].ends = {} /\ PlanOf[log[h]][1].if = {}
    BY <1>4, <1>5, <2>2, <2>3, NodesAreReached
  <2>5. Reached(h, 1) BY <2>4 DEF Reached
  <2>6. Applied(h, 1)
    <3>1. CASE h < n BY <1>1, <2>3, <3>1
    <3>2. CASE h = n
      <4>1. /\ Len(P) - r + 1 \in DOMAIN P /\ Head(ops[j]).key = P[Len(P) - r + 1].key
            /\ r \in Nat /\ Len(P) \in Nat
        BY OperationIsPlanned DEF Stamp
      <4>2. Len(P) - r + 1 # 1 BY <1>5, <2>2, <2>4, <3>2, <4>1
      <4>3. DOMAIN P = 1 .. Len(P) BY At DEF Pending
      <4>4. 1 + r <= Len(P) BY <4>1, <4>2, <4>3
      <4> QED BY <1>1, <3>2, <4>4
    <3> QED BY <2>3, <3>1, <3>2, <1>1
  <2> QED BY <2>2, <2>3, <2>4, <2>5, <2>6 DEF WritersNow
<1> QED BY <1>3, <1>6, <1>7

\* What the log says of an event does not change with what comes after it.
LEMMA ReachedStays ==
  ASSUME NEW i \in Nat, i > 0, store' = store, \A h \in 1 .. i : log'[h] = log[h],
         (1 .. i) \ skipped' = (1 .. i) \ skipped
  PROVE  /\ \A id : Present(id, i)' <=> Present(id, i)
         /\ \A op : Fitting(i, op)' <=> Fitting(i, op)
         /\ \A op : Skipping(i, op)' <=> Skipping(i, op)
         /\ \A k : Reached(i, k)' <=> Reached(i, k)
<1>1. \A id : Present(id, i)' <=> Present(id, i) BY DEF Present
<1>2. \A op : Fitting(i, op)' <=> Fitting(i, op) BY <1>1 DEF Fitting
<1>3. \A op : Skipping(i, op)' <=> Skipping(i, op) BY <1>1 DEF Skipping
<1>4. i \in 1 .. i OBVIOUS
<1>5. PlanOf[log'[i]] = PlanOf[log[i]] BY <1>4
<1>6. \A k : Reached(i, k) <=> ~Skipping(i, PlanOf[log[i]][k])
        /\ \A m \in 1 .. k : Fitting(i, PlanOf[log[i]][m]) \/ Skipping(i, PlanOf[log[i]][m])
  BY DEF Reached, Fitting, Skipping
<1>7. \A k : Reached(i, k)' <=> ~Skipping(i, PlanOf[log[i]][k])'
        /\ \A m \in 1 .. k : Fitting(i, PlanOf[log[i]][m])' \/ Skipping(i, PlanOf[log[i]][m])'
  BY <1>5 DEF Reached, Fitting, Skipping
<1> QED BY <1>1, <1>2, <1>3, <1>6, <1>7

LEMMA LogIndices ==
  ASSUME Working
  PROVE  /\ log \in Seq(Events) /\ Len(log) \in Nat /\ DOMAIN log = 1 .. Len(log)
         /\ \A i \in DOMAIN log : /\ i \in Nat /\ i > 0 /\ log[i] \in Events
                                  /\ PlanOf[log[i]] \in Seq(Ops)
                                  /\ Len(PlanOf[log[i]]) \in Nat
                                  /\ DOMAIN PlanOf[log[i]] = 1 .. Len(PlanOf[log[i]])
<1>1. log \in Seq(Events) /\ Len(log) \in Nat /\ DOMAIN log = 1 .. Len(log)
  <2>1. log \in Seq(Events) BY DEF Working, Types
  <2> QED BY <2>1
<1>2. \A i \in DOMAIN log : i \in Nat /\ i > 0 /\ log[i] \in Events BY <1>1
<1> QED BY <1>1, <1>2, PlanFacts

\* A step that applies nothing an event reaches, and one that applies one operation more.
Agree == \A i \in DOMAIN log : \A k \in DOMAIN PlanOf[log[i]] :
           Reached(i, k) => (Applied(i, k)' <=> Applied(i, k))
Gains(n, m) == \A i \in DOMAIN log : \A k \in DOMAIN PlanOf[log[i]] :
                 Applied(i, k)' <=> Applied(i, k) \/ (i = n /\ k = m)

LEMMA Keeps ==
  ASSUME Working, Replayed, Quiet, UNCHANGED <<store, log, graph, skipped>>, Agree,
         \A v \in Jobs : Position(v)'
  PROVE  Replayed'
<1>1. \A i \in DOMAIN log : \A k : Reached(i, k)' <=> Reached(i, k)
  BY LogIndices, ReachedStays
<1>2. \A key : WritersNow(key)' = WritersNow(key) BY <1>1 DEF WritersNow, Agree
<1> QED BY <1>2 DEF Replayed

LEMMA Adds ==
  ASSUME Working, Replayed, Quiet, UNCHANGED <<store, log, skipped>>, \A v \in Jobs : Position(v)',
         NEW n \in DOMAIN log, n \notin skipped, NEW m \in DOMAIN PlanOf[log[n]],
         Reached(n, m), Gains(n, m), NEW key, key = PlanOf[log[n]][m].key, key \in Keys,
         NEW val, graph' = [graph EXCEPT ![key] = val],
         val = Copies(store = "memory", key, WritersNow(key) \cup {n})
  PROVE  Replayed'
<1>1. \A i \in DOMAIN log : \A k : Reached(i, k)' <=> Reached(i, k)
  BY LogIndices, ReachedStays
<1>2. \A q : q # key => WritersNow(q)' = WritersNow(q) BY <1>1 DEF WritersNow, Gains
<1>3. WritersNow(key)' = WritersNow(key) \cup {n} BY <1>1 DEF WritersNow, Gains
<1>4. \A q \in Keys : graph[q] = Copies(store = "memory", q, WritersNow(q)) BY DEF Replayed
<1>5. \A q \in Keys : graph'[q] = IF q = key THEN val ELSE graph[q]
  BY DEF Working, Types
<1>6. ASSUME NEW q \in Keys PROVE graph'[q] = Copies(store' = "memory", q, WritersNow(q)')
  <2>1. CASE q = key BY <1>3, <1>5, <2>1
  <2>2. CASE q # key BY <1>2, <1>4, <1>5, <2>2
  <2> QED BY <2>1, <2>2
<1>7. skipped' \subseteq DOMAIN log' BY DEF Replayed
<1> QED BY <1>6, <1>7 DEF Replayed, Copies

\* A job that is not projecting has no position to keep.
LEMMA NoPosition ==
  ASSUME NEW v, pc'[v] \notin {"read", "emit", "rebuild"}
  PROVE  Position(v)'
BY DEF Position, Projecting

LEMMA OneApplies ==
  ASSUME NEW j \in Jobs, \A v \in Jobs \ {j} : pc'[v] = "idle"
  PROVE  /\ \A v \in Jobs \ {j} : Position(v)'
         /\ \A i, k : Applied(i, k)' <=> Past(pc'[j], todo'[j], ops'[j], PlanOf[log'[i]], i, k)
BY NoPosition DEF Applied, Past

LEMMA PositionAgain ==
  ASSUME NEW j, pc'[j] # "read", pc'[j] = "rebuild" => skipped' = {},
         NEW n, NEW P, NEW O, todo'[j][1] = n, PlanOf[log'[n]] = P, ops'[j] = O,
         NEW r, Len(O) = r,
         n \notin skipped' /\ n + Len(todo'[j]) - 1 = Len(log'),
         \A k \in 1 .. Len(P) - r : Fitting(n, P[k])' \/ Skipping(n, P[k])',
         O # <<>> /\ Head(O).if = {} => ~Skipping(n, P[Len(P) - r + 1])'
  PROVE  Position(j)'
BY DEF Position, Fitting, Skipping

LEMMA OneLess ==
  ASSUME NEW a \in Nat, NEW b \in Nat, NEW c \in Nat
  PROVE  a + (b - 1) <= c <=> a + b <= c \/ a = c - b + 1
OBVIOUS

\* An operation is done, or skipped: what is left is the rest of the plan.
LEMMA Advances ==
  ASSUME Working, Solo, Replayed, Quiet, NEW j \in Jobs, Pending(j), Advance(j),
         UNCHANGED <<store, log, pc, todo, skipped>>,
         NEW n, NEW P, NEW O, n = todo[j][1], P = PlanOf[log[n]], O = ops[j],
         NEW m, m = Len(P) - Len(O) + 1, Fitting(n, P[m]) \/ Skipping(n, P[m])
  PROVE  (\A v \in Jobs : Position(v)') /\ Gains(n, m)
<1> DEFINE r == Len(O)
<1>1. /\ n \in DOMAIN log /\ n \in Nat /\ n \notin skipped /\ log[n] \in Events
      /\ P \in Seq(Ops) /\ Len(P) \in Nat /\ DOMAIN P = 1 .. Len(P)
      /\ r \in Nat /\ r <= Len(P)
      /\ \A i \in DOMAIN log : \A k : Applied(i, k) <=>
           i < n \/ (i = n /\ k + r <= Len(PlanOf[log[i]]))
      /\ \A k \in 1 .. Len(P) - r : Fitting(n, P[k]) \/ Skipping(n, P[k])
  BY At DEF Pending
<1>2. O \in Seq(Ops) /\ O # <<>> /\ LeftOf(O, P) BY Current DEF Pending
<1>3. r > 0 /\ Tail(O) \in Seq(Ops) /\ Len(Tail(O)) = r - 1 BY <1>2, SequenceFacts
<1>4. ops'[j] = Tail(O) BY DEF Advance, Working, Types
<1>17. Len(P) \in Nat /\ r \in Nat /\ r <= Len(P) /\ r > 0 /\ m = Len(P) - r + 1 BY <1>1, <1>3
<1>5. pc[j] \in {"emit", "rebuild"} /\ pc'[j] = pc[j] /\ todo'[j] = todo[j]
      /\ \A v \in Jobs \ {j} : pc'[v] = "idle"
  BY OthersRest DEF Pending, Projecting, Quiet
<1>6. \A i, k : Applied(i, k)' <=> Past(pc[j], todo[j], Tail(O), PlanOf[log[i]], i, k)
  BY <1>4, <1>5, OneApplies
<1>7. \A i \in DOMAIN log : \A k : Applied(i, k)' <=>
        i < n \/ (i = n /\ k + (r - 1) <= Len(PlanOf[log[i]]))
  BY <1>3, <1>5, <1>6 DEF Past
<1>8. Gains(n, m)
  <2> SUFFICES ASSUME NEW i \in DOMAIN log, NEW k \in DOMAIN PlanOf[log[i]]
               PROVE  Applied(i, k)' <=> Applied(i, k) \/ (i = n /\ k = m)
    BY DEF Gains
  <2>1. i \in Nat /\ k \in Nat /\ Len(PlanOf[log[i]]) \in Nat BY LogIndices
  <2>2. CASE i = n
    <3>1. ~(n < n) BY <1>1
    <3>2. Applied(i, k)' <=> k + (r - 1) <= Len(P) BY <1>7, <2>2, <3>1
    <3>3. Applied(i, k) <=> k + r <= Len(P) BY <1>1, <2>2, <3>1
    <3> HIDE DEF r
    <3>4. k + (r - 1) <= Len(P) <=> k + r <= Len(P) \/ k = m
      <4>1. k \in Nat /\ r \in Nat /\ Len(P) \in Nat BY <1>17, <2>1
      <4>2. k + (r - 1) <= Len(P) <=> k + r <= Len(P) \/ k = Len(P) - r + 1 BY <4>1, OneLess
      <4>3. m = Len(P) - r + 1 BY <1>17
      <4> QED BY <4>2, <4>3, Zenon
    <3> QED BY <2>2, <3>2, <3>3, <3>4 DEF r
  <2>3. CASE i # n BY <1>1, <1>7, <2>3
  <2> QED BY <2>2, <2>3
<1>9. /\ \A op : Fitting(n, op)' <=> Fitting(n, op)
      /\ \A op : Skipping(n, op)' <=> Skipping(n, op)
  BY <1>1, LogIndices, ReachedStays
<1>10. \A k \in 1 .. Len(P) - (r - 1) : Fitting(n, P[k])' \/ Skipping(n, P[k])'
  <2> HIDE DEF r
  <2>1. \A k \in 1 .. Len(P) - (r - 1) : k \in 1 .. Len(P) - r \/ k = m BY <1>17
  <2> QED BY <1>1, <1>9, <2>1
<1>11. Tail(O) # <<>> /\ Head(Tail(O)).if = {} => ~Skipping(n, P[Len(P) - (r - 1) + 1])'
  <2> SUFFICES ASSUME Tail(O) # <<>>, Head(Tail(O)).if = {} PROVE P[Len(P) - (r - 1) + 1].if = {}
    BY <1>9 DEF Skipping
  <2>1. Head(Tail(O)) = Tail(O)[1] /\ 1 \in DOMAIN Tail(O) BY <1>3, SequenceFacts
  <2>2. Tail(O)[1] = O[2] /\ 2 \in DOMAIN O
    <3>1. Tail(O)[1] = O[1 + 1] /\ 1 + 1 \in DOMAIN O BY <1>2, <2>1, SequenceFacts
    <3> QED BY <3>1
  <2>3. \A k \in DOMAIN O : k = 1 \/ O[k].if = P[Len(P) - r + k].if BY <1>2 DEF LeftOf
  <2> HIDE DEF r
  <2>4. O[2].if = P[Len(P) - r + 2].if
    <3>1. 2 # 1 OBVIOUS
    <3> QED BY <2>2, <2>3, <3>1
  <2>5. Len(P) - (r - 1) + 1 = Len(P) - r + 2 BY <1>1
  <2> QED BY <2>1, <2>2, <2>4, <2>5
<1>12. Position(j) BY DEF Replayed
<1>13. pc[j] = "rebuild" => skipped' = {} BY <1>12 DEF Position
<1>14. n \notin skipped' /\ n + Len(todo'[j]) - 1 = Len(log')
  BY <1>1, <1>5, <1>12 DEF Position, Pending
<1>15. Len(ops'[j]) = r - 1 /\ PlanOf[log'[n]] = P /\ todo'[j][1] = n BY <1>3, <1>4, <1>5
<1>16. Position(j)'
  BY <1>4, <1>5, <1>10, <1>11, <1>13, <1>14, <1>15, PositionAgain
<1> QED BY <1>5, <1>8, <1>16, OneApplies

\* A job begins with an event: nothing of it or of what follows is applied.
LEMMA Begins ==
  ASSUME log' \in Seq(Events), NEW j \in Jobs, \A v \in Jobs \ {j} : pc'[v] = "idle",
         pc'[j] \in {"emit", "rebuild"}, pc'[j] = "rebuild" => skipped' = {},
         NEW n, n \in DOMAIN log', todo'[j][1] = n, ops'[j] = PlanOf[log'[n]],
         n \notin skipped' /\ n + Len(todo'[j]) - 1 = Len(log')
  PROVE  /\ \A v \in Jobs : Position(v)'
         /\ \A i \in DOMAIN log' : \A k \in DOMAIN PlanOf[log'[i]] : Applied(i, k)' <=> i < n
<1>1. PICK P : P = PlanOf[log'[n]] OBVIOUS
<1>2. log'[n] \in Events /\ n \in Nat OBVIOUS
<1>3. P \in Seq(Ops) /\ Len(P) \in Nat /\ DOMAIN P = 1 .. Len(P) BY <1>1, <1>2, PlanFacts
<1>4. PICK r : r = Len(P) OBVIOUS
<1>5. \A k \in 1 .. Len(P) - r : FALSE BY <1>3, <1>4
<1>6. P # <<>> /\ Head(P).if = {} => ~Skipping(n, P[Len(P) - r + 1])'
  <2>1. Len(P) - r + 1 = 1 BY <1>3, <1>4
  <2>2. P # <<>> => Head(P) = P[1] BY <1>3, SequenceFacts
  <2> QED BY <2>1, <2>2 DEF Skipping
<1>7. Position(j)' BY <1>1, <1>4, <1>5, <1>6, PositionAgain
<1>8. ASSUME NEW i \in DOMAIN log', NEW k \in DOMAIN PlanOf[log'[i]]
      PROVE  Applied(i, k)' <=> i < n
  <2>1. Applied(i, k)' <=> i < n \/ (i = n /\ k + Len(P) <= Len(PlanOf[log'[i]]))
    BY <1>1, OneApplies DEF Past
  <2>2. i = n => ~(k + Len(P) <= Len(P))
    <3>1. i = n => k \in 1 .. Len(P) BY <1>1, <1>3
    <3> QED BY <1>3, <3>1
  <2> QED BY <1>1, <2>1, <2>2
<1> QED BY <1>7, <1>8, OneApplies

LEMMA EmitReplays ==
  ASSUME Working, Replayed, Quiet', NEW j \in Jobs, NEW e \in Events, Emit(j, e)
  PROVE  Replayed'
<1> DEFINE n == Len(log) + 1
<1>1. /\ log' = Append(log, e) /\ todo' = [todo EXCEPT ![j] = <<n>>]
      /\ ops' = [ops EXCEPT ![j] = PlanOf[e]] /\ pc' = [pc EXCEPT ![j] = "emit"]
      /\ UNCHANGED <<store, graph, skipped, interrupted>> /\ pc[j] = "idle"
      /\ overlapped' = (overlapped \/ ~Alone(j))
  BY DEF Emit
<1>2. Quiet /\ \A v \in Jobs : pc[v] = "idle" BY <1>1 DEF Quiet, Alone
<1>3. log \in Seq(Events) /\ Len(log) \in Nat /\ DOMAIN log = 1 .. Len(log) BY LogIndices
<1>4. /\ log' \in Seq(Events) /\ Len(log') = n /\ DOMAIN log' = 1 .. n /\ log'[n] = e /\ n \in Nat
      /\ \A i \in DOMAIN log : log'[i] = log[i]
  BY <1>1, <1>3
<1>5. skipped \subseteq DOMAIN log BY DEF Replayed
<1>6. n \in DOMAIN log' /\ n \notin skipped' /\ n \notin DOMAIN log BY <1>1, <1>3, <1>4, <1>5
<1>7. todo'[j] = <<n>> /\ ops'[j] = PlanOf[log'[n]] /\ pc'[j] = "emit"
      /\ \A v \in Jobs \ {j} : pc'[v] = "idle"
  BY <1>1, <1>2, <1>4 DEF Working, Types
<1> HIDE DEF n
<1>8. todo'[j][1] = n /\ n + Len(todo'[j]) - 1 = Len(log') BY <1>4, <1>7
<1>9. /\ \A v \in Jobs : Position(v)'
      /\ \A i \in DOMAIN log' : \A k \in DOMAIN PlanOf[log'[i]] : Applied(i, k)' <=> i < n
  BY <1>4, <1>6, <1>7, <1>8, Begins
<1>10. \A i \in DOMAIN log : i < n /\ i \in DOMAIN log'
  <2>1. DOMAIN log = 1 .. n - 1 BY <1>3 DEF n
  <2> QED BY <1>4, <2>1
<1>11. \A i \in DOMAIN log' : i \in DOMAIN log \/ i = n BY <1>3, <1>4 DEF n
<1>12. \A i, k : Applied(i, k) BY <1>2 DEF Applied, Past
<1>13. \A i \in DOMAIN log : \A k : Reached(i, k)' <=> Reached(i, k)
  <2> TAKE i \in DOMAIN log
  <2>1. i \in Nat /\ i > 0 /\ \A h \in 1 .. i : h \in DOMAIN log BY <1>3
  <2> QED BY <1>1, <1>4, <2>1, ReachedStays
<1>14. ASSUME NEW key PROVE WritersNow(key)' = WritersNow(key)
  <2>1. \A i \in DOMAIN log \ skipped : i \in WritersNow(key)' <=> i \in WritersNow(key)
    BY <1>1, <1>4, <1>9, <1>10, <1>12, <1>13 DEF WritersNow
  <2>2. n \notin WritersNow(key)'
    <3>1. ~(n < n) BY <1>4
    <3> QED BY <1>6, <1>9, <3>1 DEF WritersNow
  <2>3. WritersNow(key)' \subseteq DOMAIN log' \ skipped' /\ WritersNow(key) \subseteq DOMAIN log \ skipped
    BY DEF WritersNow
  <2> QED BY <1>1, <1>11, <2>1, <2>2, <2>3
<1>15. \A key \in Keys : graph'[key] = Copies(store' = "memory", key, WritersNow(key)')
  BY <1>1, <1>2, <1>14 DEF Replayed
<1>16. skipped' \subseteq DOMAIN log' BY <1>1, <1>5, <1>10
<1> QED BY <1>9, <1>15, <1>16 DEF Replayed, Copies

LEMMA ReadReplays ==
  ASSUME Working, Solo, Replayed, Quiet', NEW j \in Jobs, ReadLog(j)
  PROVE  Replayed'
<1>1. /\ pc[j] = "read" /\ UNCHANGED <<store, log, graph, skipped, overlapped, interrupted>>
      /\ todo' = [todo EXCEPT ![j] = [i \in DOMAIN log |-> i]]
      /\ ops' = [ops EXCEPT ![j] = IF log = <<>> THEN <<>> ELSE PlanOf[log[1]]]
      /\ pc' = [pc EXCEPT ![j] = IF log = <<>> THEN "idle" ELSE "rebuild"]
  BY DEF ReadLog, history
<1>2. Quiet BY <1>1 DEF Quiet
<1>3. \A v \in Jobs \ {j} : pc[v] = "idle" /\ pc'[v] = "idle"
  BY <1>1, <1>2, OthersRest DEF Quiet, Working, Types
<1>4. \A i, k : ~Applied(i, k) BY <1>1 DEF Applied, Past
<1>5. log \in Seq(Events) /\ Len(log) \in Nat /\ DOMAIN log = 1 .. Len(log) BY LogIndices
<1>6. CASE log = <<>>
  <2>1. Agree BY <1>5, <1>6 DEF Agree
  <2>2. pc'[j] = "idle" BY <1>1, <1>6 DEF Working, Types
  <2> QED BY <1>1, <1>2, <1>3, <2>1, <2>2, NoPosition, Keeps
<1>7. CASE log # <<>>
  <2>1. Len(log) > 0 /\ 1 \in DOMAIN log BY <1>5, <1>7
  <2>2. pc'[j] = "rebuild" /\ ops'[j] = PlanOf[log'[1]] /\ todo'[j] = [i \in DOMAIN log |-> i]
    BY <1>1, <1>7 DEF Working, Types
  <2>3. Len(todo'[j]) = Len(log) /\ todo'[j][1] = 1 BY <1>5, <2>1, <2>2
  <2>4. skipped' = {} BY <1>1, <1>2 DEF Replayed, Position
  <2>5. 1 \notin skipped' /\ 1 + Len(todo'[j]) - 1 = Len(log') BY <1>1, <1>5, <2>3, <2>4
  <2>6. /\ \A v \in Jobs : Position(v)'
        /\ \A i \in DOMAIN log' : \A k \in DOMAIN PlanOf[log'[i]] : Applied(i, k)' <=> i < 1
    BY <1>1, <1>3, <1>5, <2>1, <2>2, <2>3, <2>4, <2>5, Begins
  <2>7. \A i \in DOMAIN log : ~(i < 1) BY <1>5
  <2>8. Agree BY <1>1, <1>4, <2>6, <2>7 DEF Agree
  <2> QED BY <1>1, <1>2, <2>6, <2>8, Keeps
<1> QED BY <1>6, <1>7

LEMMA ClearReplays ==
  ASSUME Working, Replayed, Quiet', NEW j \in Jobs, Clear(j)
  PROVE  Replayed'
<1>1. pc' = [pc EXCEPT ![j] = "read"] /\ UNCHANGED <<store, log>> BY DEF Clear
<1>2. graph' = [k \in Keys |-> <<>>] /\ skipped' = {} /\ Alone(j)
  BY DEF Clear, Cleared, ClearIgnored, Quiet
<1>3. pc'[j] = "read" /\ \A v \in Jobs \ {j} : pc'[v] = "idle"
  BY <1>1, <1>2 DEF Alone, Working, Types
<1>4. \A key : WritersNow(key)' = {}
  <2>1. \A i, k : ~Applied(i, k)' BY <1>3 DEF Applied, Past
  <2> QED BY <2>1 DEF WritersNow
<1>5. \A v \in Jobs : Position(v)' BY <1>2, <1>3, NoPosition DEF Position, Projecting
<1> QED BY <1>2, <1>4, <1>5 DEF Replayed, Copies

\* Nothing is projected before and after: a rebuild that starts, an emit that returns.
LEMMA IdleReplays ==
  ASSUME Working, Solo, Replayed, Quiet', NEW j \in Jobs, StartRebuild(j) \/ Handle(j)
  PROVE  Replayed'
<1>1. UNCHANGED <<store, log, graph, skipped, interrupted>> BY DEF StartRebuild, Handle, history
<1>2. \A v \in Jobs : pc[v] \notin {"read", "emit", "rebuild"} /\ pc'[v] \notin {"read", "emit", "rebuild"}
  <2>1. CASE StartRebuild(j)
    <3>1. Alone(j) /\ pc[j] = "idle" /\ pc' = [pc EXCEPT ![j] = "clear"]
      BY <2>1 DEF StartRebuild, Quiet
    <3> QED BY <3>1 DEF Alone, Working, Types
  <2>2. CASE Handle(j)
    <3>1. pc[j] = "handle" /\ pc' = [pc EXCEPT ![j] = "idle"] /\ overlapped' = overlapped
      BY <2>2 DEF Handle, history
    <3>2. \A v \in Jobs \ {j} : pc[v] = "idle" BY <3>1, OthersRest DEF Quiet
    <3> QED BY <3>1, <3>2 DEF Working, Types
  <2> QED BY <2>1, <2>2
<1>3. Quiet
  <2>1. CASE StartRebuild(j) BY <2>1 DEF StartRebuild, Quiet
  <2>2. CASE Handle(j) BY <2>2 DEF Handle, history, Quiet
  <2> QED BY <2>1, <2>2
<1>4. Agree BY <1>2 DEF Agree, Applied, Past
<1> QED BY <1>1, <1>2, <1>3, <1>4, NoPosition, Keeps

LEMMA DoneReplays ==
  ASSUME Working, Solo, Replayed, Quiet', NEW j \in Jobs, EventDone(j)
  PROVE  Replayed'
<1> DEFINE T == IF pc[j] = "emit" THEN todo[j] ELSE Tail(todo[j])
<1>1. /\ Projecting(j) /\ ops[j] = <<>>
      /\ todo' = [todo EXCEPT ![j] = T]
      /\ ops' = [ops EXCEPT ![j] = IF todo'[j] = <<>> \/ pc[j] = "emit" THEN <<>>
                                   ELSE PlanOf[log[Head(todo'[j])]]]
      /\ pc' = [pc EXCEPT ![j] = IF todo'[j] = <<>> THEN "idle"
                                 ELSE IF pc[j] = "emit" THEN "handle" ELSE "rebuild"]
      /\ UNCHANGED <<store, log, graph, skipped, overlapped, interrupted>>
  BY DEF EventDone, history
<1>2. Quiet BY <1>1 DEF Quiet
<1>3. \A v \in Jobs \ {j} : pc[v] = "idle" /\ pc'[v] = "idle"
  BY <1>1, <1>2, OthersRest DEF Quiet, Projecting, Working, Types
<1>4. PICK n : n = todo[j][1] OBVIOUS
<1>5. /\ n \in DOMAIN log /\ n \in Nat /\ n \notin skipped
      /\ log \in Seq(Events) /\ Len(log) \in Nat /\ DOMAIN log = 1 .. Len(log)
  BY <1>1, <1>2, <1>4, At, LogIndices
<1>6. \A i \in DOMAIN log : \A k \in DOMAIN PlanOf[log[i]] : Applied(i, k) <=> i <= n
  <2> TAKE i \in DOMAIN log
  <2> TAKE k \in DOMAIN PlanOf[log[i]]
  <2>1. i \in Nat /\ k \in Nat /\ Len(PlanOf[log[i]]) \in Nat /\ k <= Len(PlanOf[log[i]])
    BY LogIndices
  <2>2. Applied(i, k) <=> i < n \/ (i = n /\ k + Len(ops[j]) <= Len(PlanOf[log[i]]))
    BY <1>1, <1>2, <1>4, At
  <2>3. Len(ops[j]) = 0 /\ k + 0 = k BY <1>1, <2>1
  <2>4. i <= n <=> i < n \/ i = n BY <1>5, <2>1
  <2> QED BY <2>1, <2>2, <2>3, <2>4
<1>7. /\ todo[j] \in Seq(Nat) /\ todo[j] # <<>> /\ n + Len(todo[j]) - 1 = Len(log)
      /\ pc[j] = "emit" => Len(todo[j]) = 1
      /\ pc[j] = "rebuild" => skipped = {}
      /\ \A k \in DOMAIN todo[j] : todo[j][k] \in DOMAIN log /\ todo[j][k] = n + k - 1
  BY <1>1, <1>2, <1>4, Current DEF Replayed, Position, Working, JobOK, Projecting
<1>8. todo'[j] = T BY <1>1 DEF Working, Types
<1>9. CASE pc[j] = "emit" \/ T = <<>>
  <2>1. pc'[j] \in {"idle", "handle"} BY <1>1, <1>7, <1>8, <1>9 DEF Working, Types
  <2>2. n = Len(log)
    <3>1. Len(todo[j]) = 1
      <4>1. T = <<>> /\ pc[j] # "emit" => Len(todo[j]) - 1 = 0 BY <1>7, SequenceFacts
      <4> QED BY <1>7, <1>9, <4>1
    <3> QED BY <1>5, <1>7, <3>1
  <2>3. \A i \in DOMAIN log : i <= n BY <1>5, <2>2
  <2>4. \A i, k : Applied(i, k)' BY <1>3, <2>1 DEF Applied, Past
  <2>5. Agree BY <1>6, <2>3, <2>4 DEF Agree
  <2> QED BY <1>1, <1>2, <1>3, <2>1, <2>5, NoPosition, Keeps
<1>10. CASE pc[j] # "emit" /\ T # <<>>
  <2>1. pc[j] = "rebuild" /\ T = Tail(todo[j]) BY <1>1, <1>10 DEF Projecting
  <2>2. /\ Len(T) = Len(todo[j]) - 1 /\ 1 \in DOMAIN T /\ T[1] = todo[j][1 + 1]
        /\ 1 + 1 \in DOMAIN todo[j] /\ Len(todo[j]) \in Nat /\ Head(T) = T[1]
    <3>1. T \in Seq(Nat) BY <1>7, <2>1
    <3>2. 1 \in DOMAIN T /\ Head(T) = T[1] BY <1>10, <3>1
    <3> QED BY <1>7, <2>1, <3>2, SequenceFacts
  <2>3. T[1] = n + 1 /\ n + 1 \in DOMAIN log BY <1>5, <1>7, <2>2
  <2>4. pc'[j] = "rebuild" /\ ops'[j] = PlanOf[log'[n + 1]]
    BY <1>1, <1>8, <1>10, <2>1, <2>2, <2>3 DEF Working, Types
  <2>5. skipped' = {} /\ (n + 1) + Len(todo'[j]) - 1 = Len(log')
    <3>1. skipped' = {} /\ Len(log') = Len(log) BY <1>1, <1>7, <2>1
    <3>2. Len(todo'[j]) = Len(todo[j]) - 1 /\ Len(todo[j]) \in Nat BY <1>8, <2>2
    <3>3. \A a, b \in Nat : (a + 1) + (b - 1) - 1 = a + b - 1 OBVIOUS
    <3> QED BY <1>5, <1>7, <3>1, <3>2, <3>3
  <2> HIDE DEF T
  <2>6. /\ \A v \in Jobs : Position(v)'
        /\ \A i \in DOMAIN log' : \A k \in DOMAIN PlanOf[log'[i]] : Applied(i, k)' <=> i < n + 1
    BY <1>1, <1>3, <1>5, <1>8, <2>3, <2>4, <2>5, Begins
  <2>7. \A i \in DOMAIN log : i < n + 1 <=> i <= n BY <1>5
  <2>8. Agree BY <1>1, <1>6, <2>6, <2>7 DEF Agree
  <2> QED BY <1>1, <1>2, <2>6, <2>8, Keeps
<1> QED BY <1>9, <1>10

\* A job is at operation m of the plan P of event n, and O is left of it.
Turn(j, n, P, O, m) ==
  Pending(j) /\ n = todo[j][1] /\ P = PlanOf[log[n]] /\ O = ops[j] /\ m = Len(P) - Len(O) + 1

\* The operation a job is at, and whether its event reaches it.
LEMMA Doing ==
  ASSUME Working, Solo, Replayed, Quiet, NEW j \in Jobs,
         NEW n, NEW P, NEW O, NEW m, Turn(j, n, P, O, m)
  PROVE  /\ n \in DOMAIN log /\ n \in Nat /\ n \notin skipped /\ Stamp(j) = n
         /\ P \in Seq(Ops) /\ m \in DOMAIN P /\ m \in Nat /\ O \in Seq(Ops) /\ O # <<>>
         /\ Head(O) \in Ops /\ Head(O).key = P[m].key /\ Head(O).ends = P[m].ends
         /\ Head(O).if # {} => Head(O).if = P[m].if
         /\ Head(O).if = {} => ~Skipping(n, P[m])
         /\ ~Skipping(n, P[m]) /\ Fitting(n, P[m]) => Reached(n, m)
         /\ Skipping(n, P[m]) => ~Reached(n, m)
         /\ \A k \in DOMAIN P : k >= m /\ ~Skipping(n, P[m]) /\ ~Fitting(n, P[m]) => ~Reached(n, k)
         /\ \A i \in DOMAIN log : \A k \in DOMAIN PlanOf[log[i]] :
              Applied(i, k) <=> i < n \/ (i = n /\ k < m)
<1> USE DEF Turn
<1>1. /\ Stamp(j) = n /\ P \in Seq(Ops) /\ m \in DOMAIN P /\ Head(O) \in Ops
      /\ Head(O).key = P[m].key /\ Head(O).ends = P[m].ends
      /\ Head(O).if = P[m].if \/ Head(O).if = {}
  BY OperationIsPlanned
<1>2. /\ n \in DOMAIN log /\ n \in Nat /\ n \notin skipped
      /\ Len(P) \in Nat /\ DOMAIN P = 1 .. Len(P) /\ Len(O) \in Nat
      /\ \A i \in DOMAIN log : \A k : Applied(i, k) <=>
           i < n \/ (i = n /\ k + Len(O) <= Len(PlanOf[log[i]]))
      /\ \A k \in 1 .. Len(P) - Len(O) : Fitting(n, P[k]) \/ Skipping(n, P[k])
      /\ O # <<>> /\ Head(O).if = {} => ~Skipping(n, P[m])
  BY At DEF Pending
<1>3. O \in Seq(Ops) /\ O # <<>> BY DEF Pending, Working, Types
<1>10. Len(P) \in Nat /\ Len(O) \in Nat /\ m \in 1 .. Len(P) BY <1>1, <1>2
<1>4. m \in Nat /\ \A k \in 1 .. m : k \in 1 .. Len(P) - Len(O) \/ k = m BY <1>10
<1>5. \A k : Reached(n, k) <=> ~Skipping(n, P[k])
               /\ \A h \in 1 .. k : Fitting(n, P[h]) \/ Skipping(n, P[h])
  BY DEF Reached, Fitting, Skipping
<1>6. ~Skipping(n, P[m]) /\ Fitting(n, P[m]) => Reached(n, m) BY <1>2, <1>4, <1>5
<1>7. \A k \in DOMAIN P : k >= m => m \in 1 .. k
  <2>1. \A k \in 1 .. Len(P) : k >= m => m \in 1 .. k BY <1>10
  <2> QED BY <1>2, <2>1
<1>8. \A k \in DOMAIN P : k >= m /\ ~Skipping(n, P[m]) /\ ~Fitting(n, P[m]) => ~Reached(n, k)
  BY <1>5, <1>7
<1>9. ASSUME NEW i \in DOMAIN log, NEW k \in DOMAIN PlanOf[log[i]]
      PROVE  Applied(i, k) <=> i < n \/ (i = n /\ k < m)
  <2>1. k \in Nat BY LogIndices
  <2>2. k + Len(O) <= Len(P) <=> k < m
    <3>1. \A a, b, c \in Nat : a + b <= c <=> a < c - b + 1 OBVIOUS
    <3> QED BY <1>2, <2>1, <3>1
  <2> QED BY <1>2, <2>2
<1> QED BY <1>1, <1>2, <1>3, <1>4, <1>5, <1>6, <1>8, <1>9

LEMMA GuardReplays ==
  ASSUME Working, Solo, Replayed, Quiet', NEW j \in Jobs, Guard(j)
  PROVE  Replayed'
<1>1. PICK n, P, O, m : n = todo[j][1] /\ P = PlanOf[log[n]] /\ O = ops[j] /\ m = Len(P) - Len(O) + 1
  OBVIOUS
<1>2. /\ Pending(j) /\ Head(O).if # {}
      /\ UNCHANGED <<store, log, graph, pc, todo, skipped, overlapped, interrupted>>
      /\ ops' = [ops EXCEPT ![j] = IF \A id \in Head(O).if : Has(id)
                                   THEN <<[Head(O) EXCEPT !.if = {}]>> \o Tail(O) ELSE Tail(O)]
  BY <1>1 DEF Guard, history
<1>3. Quiet BY <1>2 DEF Quiet
<1>4. /\ n \in DOMAIN log /\ n \in Nat /\ n \notin skipped
      /\ P \in Seq(Ops) /\ m \in DOMAIN P /\ O \in Seq(Ops) /\ O # <<>>
      /\ Head(O) \in Ops /\ Head(O).if = P[m].if
      /\ Skipping(n, P[m]) => ~Reached(n, m)
  <2>1. Turn(j, n, P, O, m) BY <1>1, <1>2 DEF Turn
  <2>2. n \in DOMAIN log /\ n \in Nat /\ n \notin skipped BY <1>3, <2>1, Doing
  <2>3. P \in Seq(Ops) /\ m \in DOMAIN P /\ O \in Seq(Ops) /\ O # <<>> /\ Head(O) \in Ops
    BY <1>3, <2>1, Doing
  <2>4. Head(O).if # {} => Head(O).if = P[m].if BY <1>3, <2>1, Doing
  <2>5. Skipping(n, P[m]) => ~Reached(n, m) BY <1>3, <2>1, Doing
  <2> QED BY <1>2, <2>2, <2>3, <2>4, <2>5
<1>5. /\ ~IsNode(Head(O).key)
      /\ \A id \in Head(O).if : <<id>> \in Keys
  BY <1>2, <1>4, OpFacts
<1>6. \A id \in Head(O).if : Has(id) <=> Present(id, n) BY <1>1, <1>2, <1>3, <1>5, HasIsPresent
<1>7. CASE \A id \in Head(O).if : Has(id)
  <2>1. PICK G : G = <<[Head(O) EXCEPT !.if = {}]>> \o Tail(O) OBVIOUS
  <2>2. ops'[j] = G BY <1>2, <1>7, <2>1 DEF Working, Types
  <2>3. Len(G) = Len(O)
    <3>1. [Head(O) EXCEPT !.if = {}] \in Ops BY <1>4, OpFacts
    <3> QED BY <1>4, <2>1, <3>1, ReplaceHead
  <2>4. /\ pc[j] \in {"emit", "rebuild"} /\ pc'[j] = pc[j] /\ todo'[j] = todo[j]
        /\ \A v \in Jobs \ {j} : pc[v] = "idle" /\ pc'[v] = "idle"
    BY <1>2, <1>3, OthersRest DEF Pending, Projecting, Quiet
  <2>5. Agree
    <3>1. \A i, k : Applied(i, k)' <=> Past(pc[j], todo[j], G, PlanOf[log[i]], i, k)
      BY <1>2, <2>2, <2>4, OneApplies
    <3>2. \A i, k : Applied(i, k) <=> Past(pc[j], todo[j], O, PlanOf[log[i]], i, k)
      BY <1>1, <2>4, AppliedAt
    <3> QED BY <2>3, <3>1, <3>2 DEF Agree, Past
  <2>6. /\ \A op : Fitting(n, op)' <=> Fitting(n, op)
        /\ \A op : Skipping(n, op)' <=> Skipping(n, op)
    BY <1>2, <1>4, LogIndices, ReachedStays
  <2>7. /\ \A k \in 1 .. Len(P) - Len(O) : Fitting(n, P[k])' \/ Skipping(n, P[k])'
    BY <1>1, <1>2, <1>3, <2>6, At DEF Pending
  <2>8. ~Skipping(n, P[m])' BY <1>4, <1>6, <1>7, <2>6 DEF Skipping
  <2>9. Position(j) BY <1>3 DEF Replayed
  <2>10. /\ pc[j] = "rebuild" => skipped' = {}
         /\ n \notin skipped' /\ n + Len(todo'[j]) - 1 = Len(log')
    BY <1>1, <1>2, <1>4, <2>4, <2>9 DEF Position, Pending
  <2>11. Position(j)'
    BY <1>1, <1>2, <2>2, <2>3, <2>4, <2>7, <2>8, <2>10, PositionAgain
  <2> QED BY <1>2, <1>3, <2>4, <2>5, <2>11, NoPosition, Keeps
<1>8. CASE ~\A id \in Head(O).if : Has(id)
  <2>1. Skipping(n, P[m]) BY <1>4, <1>6, <1>8 DEF Skipping
  <2>2. Advance(j) BY <1>1, <1>2, <1>8 DEF Advance
  <2>3. (\A v \in Jobs : Position(v)') /\ Gains(n, m) BY <1>1, <1>2, <1>3, <2>1, <2>2, Advances
  <2>4. Agree BY <1>4, <2>1, <2>3 DEF Agree, Gains
  <2> QED BY <1>2, <1>3, <2>3, <2>4, Keeps
<1> QED BY <1>7, <1>8

\* A projection that throws leaves out what comes after, and the log says so.
LEMMA ThrowReplays ==
  ASSUME Working, Solo, Replayed, Quiet, NEW j \in Jobs,
         NEW n, NEW P, NEW O, NEW m, Turn(j, n, P, O, m), Throw(j),
         UNCHANGED <<store, log, graph>>, Head(O).if = {}, ~Fitting(n, P[m])
  PROVE  Replayed'
<1>1. /\ Pending(j) /\ n = todo[j][1] /\ P = PlanOf[log[n]] /\ O = ops[j]
      /\ Projecting(j) /\ pc[j] \in {"emit", "rebuild"}
  BY DEF Turn, Pending, Projecting
<1>2. /\ n \in DOMAIN log /\ n \in Nat /\ n \notin skipped
      /\ \A k \in DOMAIN P : k >= m => ~Reached(n, k)
      /\ \A i \in DOMAIN log : \A k \in DOMAIN PlanOf[log[i]] :
           Applied(i, k) <=> i < n \/ (i = n /\ k < m)
  <2>1. ~Skipping(n, P[m]) BY Doing
  <2>2. \A k \in DOMAIN P : k >= m => ~Reached(n, k) BY <2>1, Doing
  <2>3. /\ n \in DOMAIN log /\ n \in Nat /\ n \notin skipped
        /\ \A i \in DOMAIN log : \A k \in DOMAIN PlanOf[log[i]] :
             Applied(i, k) <=> i < n \/ (i = n /\ k < m)
    BY Doing
  <2> QED BY <2>2, <2>3
<1>3. log \in Seq(Events) /\ Len(log) \in Nat /\ DOMAIN log = 1 .. Len(log) BY LogIndices
<1>4. pc' = [pc EXCEPT ![j] = "idle"] BY DEF Throw
<1>5. \A v \in Jobs : pc'[v] = "idle" BY <1>1, <1>4, OthersRest DEF Quiet, Working, Types
<1>6. \A i, k : Applied(i, k)' BY <1>5 DEF Applied, Past
<1>7. \A v \in Jobs : Position(v)' BY <1>5, NoPosition
<1>8. /\ todo[j] \in Seq(Nat) /\ todo[j] # <<>> /\ n + Len(todo[j]) - 1 = Len(log)
      /\ pc[j] = "emit" => Len(todo[j]) = 1
      /\ pc[j] = "rebuild" => skipped = {}
      /\ \A k \in DOMAIN todo[j] : todo[j][k] \in DOMAIN log /\ todo[j][k] = n + k - 1
  BY <1>1, Current DEF Replayed, Position, Working, JobOK, Projecting
<1>9. DOMAIN log' \ skipped' = (1 .. n) \ skipped /\ skipped' \subseteq DOMAIN log'
  <2>1. CASE pc[j] = "emit"
    <3>1. skipped' = skipped BY <2>1 DEF Throw
    <3>2. n = Len(log)
      <4>1. \A a, b \in Nat : a + 1 - 1 = b => a = b OBVIOUS
      <4>2. n + 1 - 1 = Len(log) BY <1>8, <2>1
      <4> QED BY <1>2, <1>3, <4>1, <4>2
    <3> QED BY <1>3, <3>1, <3>2 DEF Replayed
  <2>2. CASE pc[j] = "rebuild"
    <3>1. skipped' = ToSet(Tail(todo[j])) /\ skipped = {} BY <1>8, <2>2 DEF Throw
    <3>2. \A i : i \in ToSet(Tail(todo[j])) <=> i \in DOMAIN log /\ i > n
      <4>1. PICK t : t = todo[j] OBVIOUS
      <4>2. PICK l : l = Len(t) OBVIOUS
      <4>3. /\ l \in Nat /\ DOMAIN Tail(t) = 1 .. l - 1 /\ DOMAIN t = 1 .. l
            /\ \A k \in DOMAIN Tail(t) : k + 1 \in DOMAIN t /\ Tail(t)[k] = t[k + 1]
        BY <1>8, <4>1, <4>2, SequenceFacts
      <4>4. n + l - 1 = Len(log) BY <1>8, <4>1, <4>2
      <4>5. \A k \in 1 .. l - 1 : Tail(t)[k] = n + k /\ n + k \in DOMAIN log
        <5> TAKE k \in 1 .. l - 1
        <5>1. Tail(t)[k] = t[k + 1] /\ k + 1 \in DOMAIN t BY <4>3
        <5>2. t[k + 1] = n + (k + 1) - 1 /\ t[k + 1] \in DOMAIN log BY <1>8, <4>1, <5>1
        <5>3. n + (k + 1) - 1 = n + k BY <1>2
        <5> QED BY <5>1, <5>2, <5>3
      <4>6. \A k \in 1 .. l - 1 : n + k > n BY <1>2, <4>3
      <4>7. \A i \in DOMAIN log : i > n => i - n \in 1 .. l - 1 /\ n + (i - n) = i
        BY <1>2, <1>3, <4>3, <4>4
      <4>8. \A i : i \in ToSet(Tail(t)) <=> \E k \in 1 .. l - 1 : i = Tail(t)[k] BY <4>3 DEF ToSet
      <4>9. ASSUME NEW i \in ToSet(Tail(t)) PROVE i \in DOMAIN log /\ i > n
        <5>1. PICK k \in 1 .. l - 1 : i = Tail(t)[k] BY <4>8, <4>9
        <5> QED BY <4>5, <4>6, <5>1
      <4>10. \A i \in DOMAIN log : i > n => i \in ToSet(Tail(t)) BY <4>5, <4>7, <4>8
      <4> QED BY <4>1, <4>9, <4>10
    <3>3. \A i \in DOMAIN log : ~(i > n) <=> i \in 1 .. n BY <1>2, <1>3
    <3>4. 1 .. n \subseteq DOMAIN log BY <1>2, <1>3
    <3> QED BY <3>1, <3>2, <3>3, <3>4
  <2> QED BY <1>1, <2>1, <2>2
<1>10. \A i \in 1 .. n : i \in DOMAIN log /\ i \in Nat /\ i > 0 /\ (1 .. i) \ skipped' = (1 .. i) \ skipped
  <2>1. 1 .. n \subseteq DOMAIN log /\ DOMAIN log' = DOMAIN log BY <1>2, <1>3
  <2>2. \A i \in 1 .. n : i \in skipped' <=> i \in skipped BY <1>9, <2>1
  <2>3. \A i \in 1 .. n : i \in Nat /\ i > 0 /\ 1 .. i \subseteq 1 .. n BY <1>2
  <2> QED BY <2>1, <2>2, <2>3
<1>11. \A i \in 1 .. n : \A k : Reached(i, k)' <=> Reached(i, k)
  BY <1>10, ReachedStays
<1>12. ASSUME NEW key PROVE WritersNow(key)' = WritersNow(key)
  <2>1. ASSUME NEW i \in WritersNow(key) PROVE i \in WritersNow(key)'
    <3>1. PICK k \in DOMAIN PlanOf[log[i]] : PlanOf[log[i]][k].key = key /\ Reached(i, k) /\ Applied(i, k)
      BY <2>1 DEF WritersNow
    <3>2. i \in DOMAIN log /\ i \notin skipped BY <2>1 DEF WritersNow
    <3>3. i < n \/ i = n BY <1>2, <3>1, <3>2
    <3>4. i \in 1 .. n BY <1>2, <1>3, <3>2, <3>3
    <3>5. Reached(i, k)' /\ Applied(i, k)' BY <1>6, <1>11, <3>1, <3>4
    <3>6. i \in DOMAIN log' \ skipped' BY <1>9, <3>2, <3>4
    <3> QED BY <3>1, <3>5, <3>6 DEF WritersNow
  <2>2. ASSUME NEW i \in WritersNow(key)' PROVE i \in WritersNow(key)
    <3>1. PICK k \in DOMAIN PlanOf[log[i]] : PlanOf[log[i]][k].key = key /\ Reached(i, k)'
      BY <2>2 DEF WritersNow
    <3>2. i \in 1 .. n /\ i \notin skipped BY <1>9, <2>2 DEF WritersNow
    <3>3. i \in DOMAIN log /\ Reached(i, k) BY <1>10, <1>11, <3>1, <3>2
    <3>4. Applied(i, k)
      <4>1. CASE i = n
        <5>1. k \in DOMAIN P /\ k \in Nat /\ m \in Nat BY <1>1, <3>1, <3>3, <4>1, Doing, LogIndices
        <5>2. ~(k >= m) BY <1>2, <3>3, <4>1, <5>1
        <5>3. k < m BY <5>1, <5>2
        <5> QED BY <1>2, <3>1, <3>3, <4>1, <5>3
      <4>2. CASE i # n
        <5>1. i < n BY <1>2, <3>2, <4>2
        <5> QED BY <1>2, <3>1, <3>3, <5>1
      <4> QED BY <4>1, <4>2
    <3> QED BY <3>1, <3>2, <3>3, <3>4 DEF WritersNow
  <2> QED BY <2>1, <2>2
<1>13. \A key \in Keys : graph'[key] = Copies(store' = "memory", key, WritersNow(key)')
  BY <1>12 DEF Replayed
<1> QED BY <1>7, <1>9, <1>13 DEF Replayed, Copies

\* The copies of a key that one more event writes.
NextCopies(key, n) ==
  IF store = "memory" /\ IsNode(key) THEN <<WritersNow(key) \cup {n}>> ELSE <<{n}>>
Writes(key, n) == graph' = [graph EXCEPT ![key] = NextCopies(key, n)]

LEMMA CopiesOfNext ==
  ASSUME Working, Solo, Replayed, Quiet, NEW j \in Jobs,
         NEW n, NEW P, NEW O, NEW m, Turn(j, n, P, O, m), NEW key \in Keys
  PROVE  /\ graph[key] = Copies(store = "memory", key, WritersNow(key))
         /\ Copies(store = "memory", key, WritersNow(key) \cup {n}) = NextCopies(key, n)
         /\ UNION ToSet(graph[key]) = WritersNow(key) \/ store # "memory" \/ ~IsNode(key)
<1> DEFINE W == WritersNow(key)
<1>1. graph[key] = Copies(store = "memory", key, W) BY DEF Replayed
<1>2. Max(W \cup {n}) = n
  <2>1. /\ n \in Nat /\ \A i \in DOMAIN log : \A k \in DOMAIN PlanOf[log[i]] :
             Applied(i, k) <=> i < n \/ (i = n /\ k < m)
    BY Doing
  <2>2. \A i \in W : i \in DOMAIN log /\ \E k \in DOMAIN PlanOf[log[i]] : Applied(i, k)
    BY DEF WritersNow
  <2>3. \A i \in W : i \in Nat /\ i <= n BY <2>1, <2>2, LogIndices
  <2> HIDE DEF W
  <2>4. W \cup {n} \subseteq 0 .. n BY <2>1, <2>3
  <2> QED BY <2>1, <2>4, MaxOfLast
<1> HIDE DEF W
<1>3. UNION ToSet(<<>>) = {}
  <2>1. ToSet(<<>>) = {} BY DEF ToSet
  <2> QED BY <2>1
<1>4. UNION ToSet(<<W>>) = W
  <2>1. DOMAIN <<W>> = {1} /\ <<W>>[1] = W OBVIOUS
  <2>2. ToSet(<<W>>) = {W} BY <2>1 DEF ToSet
  <2> QED BY <2>2
<1>5. store = "memory" /\ IsNode(key) => UNION ToSet(graph[key]) = W
  <2>1. CASE W = {} BY <1>1, <1>3, <2>1 DEF Copies
  <2>2. CASE W # {} BY <1>1, <1>4, <2>2 DEF Copies
  <2> QED BY <2>1, <2>2
<1>6. W \cup {n} # {} OBVIOUS
<1>7. Copies(store = "memory", key, W \cup {n}) =
        IF store = "memory" /\ IsNode(key) THEN <<W \cup {n}>> ELSE <<{n}>>
  BY <1>2, <1>6 DEF Copies
<1> QED BY <1>1, <1>5, <1>7 DEF W, NextCopies

LEMMA WriteReplays ==
  ASSUME Working, Solo, Replayed, Quiet, NEW j \in Jobs,
         NEW n, NEW P, NEW O, NEW m, Turn(j, n, P, O, m), Advance(j),
         UNCHANGED <<store, log, pc, todo, skipped>>, Head(O).if = {}, Fitting(n, P[m]),
         NEW key, key = P[m].key,
         Writes(key, n)
  PROVE  Replayed'
<1>1. /\ n \in DOMAIN log /\ n \notin skipped /\ m \in DOMAIN P
      /\ Head(O) \in Ops /\ Head(O).key = P[m].key
  BY Doing
<1>2. ~Skipping(n, P[m]) BY Doing
<1>3. Reached(n, m) BY <1>2, Doing
<1>4. key \in Keys BY <1>1, OpFacts
<1>5. Pending(j) /\ n = todo[j][1] /\ P = PlanOf[log[n]] /\ O = ops[j] /\ m = Len(P) - Len(O) + 1
  BY DEF Turn
<1>6. (\A v \in Jobs : Position(v)') /\ Gains(n, m) BY <1>5, Advances
<1>9. PICK val : val = NextCopies(key, n) OBVIOUS
<1>7. val = Copies(store = "memory", key, WritersNow(key) \cup {n}) BY <1>4, <1>9, CopiesOfNext
<1>10. graph' = [graph EXCEPT ![key] = val] BY <1>9 DEF Writes
<1>8. m \in DOMAIN PlanOf[log[n]] /\ key = PlanOf[log[n]][m].key BY <1>1, <1>5
<1> QED BY <1>1, <1>3, <1>4, <1>6, <1>7, <1>8, <1>10, Adds

\* The ends that a link needs are there when the log has created them.
LEMMA FittingIsHaving ==
  ASSUME Working, Solo, Replayed, Quiet, NEW j \in Jobs,
         NEW n, NEW P, NEW O, NEW m, Turn(j, n, P, O, m)
  PROVE  /\ (\A id \in Head(O).ends : Has(id)) => Fitting(n, P[m])
         /\ store = "memory" /\ (\E id \in Head(O).ends : ~Has(id)) => ~Fitting(n, P[m])
<1>1. Head(O) \in Ops /\ Head(O).ends = P[m].ends BY Doing
<1>2. Pending(j) /\ n = todo[j][1] /\ O = ops[j] BY DEF Turn
<1>3. CASE IsNode(Head(O).key)
  <2>1. Head(O).ends = {} BY <1>1, <1>3, OpFacts
  <2> QED BY <1>1, <2>1 DEF Fitting
<1>4. CASE ~IsNode(Head(O).key)
  <2>1. \A id \in Head(O).ends : <<id>> \in Keys BY <1>1, OpFacts
  <2>2. \A id \in Head(O).ends : Has(id) <=> Present(id, n)
    BY <1>2, <1>4, <2>1, HasIsPresent
  <2> QED BY <1>1, <2>2 DEF Fitting
<1> QED BY <1>3, <1>4

LEMMA MemoryReplays ==
  ASSUME Working, Solo, Replayed, Quiet', NEW j \in Jobs, MemoryWrite(j)
  PROVE  Replayed'
<1>1. PICK n, P, O, m : n = todo[j][1] /\ P = PlanOf[log[n]] /\ O = ops[j] /\ m = Len(P) - Len(O) + 1
  OBVIOUS
<1>2. PICK key : key = Head(O).key OBVIOUS
<1>3. store = "memory" /\ Pending(j) /\ Head(O).if = {}
      /\ UNCHANGED <<store, log, overlapped, interrupted>>
  BY <1>1 DEF MemoryWrite
<1>4. Quiet BY <1>3 DEF Quiet
<1>5. Turn(j, n, P, O, m) BY <1>1, <1>3 DEF Turn
<1>6. /\ n \in DOMAIN log /\ n \in Nat /\ n \notin skipped /\ Stamp(j) = n /\ m \in DOMAIN P
      /\ Head(O) \in Ops /\ key = P[m].key
  BY <1>2, <1>4, <1>5, Doing
<1>7. key \in Keys BY <1>2, <1>6, OpFacts
<1>8. CASE \A id \in Head(O).ends : Has(id)
  <2>1. /\ graph' = [graph EXCEPT ![key] =
             IF IsNode(key) THEN <<(UNION ToSet(graph[key])) \cup {n}>> ELSE <<{n}>>]
        /\ Advance(j) /\ UNCHANGED <<pc, todo, skipped>>
    BY <1>1, <1>2, <1>6, <1>8 DEF MemoryWrite
  <2>2. IsNode(key) => UNION ToSet(graph[key]) = WritersNow(key)
    BY <1>3, <1>4, <1>5, <1>7, CopiesOfNext
  <2>3. Writes(key, n) BY <1>3, <2>1, <2>2 DEF NextCopies, Writes
  <2>4. Fitting(n, P[m]) BY <1>4, <1>5, <1>8, FittingIsHaving
  <2> QED BY <1>3, <1>4, <1>5, <1>6, <2>1, <2>3, <2>4, WriteReplays
<1>9. CASE \E id \in Head(O).ends : ~Has(id)
  <2>1. Throw(j) /\ UNCHANGED graph BY <1>1, <1>9 DEF MemoryWrite
  <2>2. ~Fitting(n, P[m]) BY <1>3, <1>4, <1>5, <1>9, FittingIsHaving
  <2> QED BY <1>3, <1>4, <1>5, <2>1, <2>2, ThrowReplays
<1> QED BY <1>8, <1>9

LEMMA HydraReplays ==
  ASSUME Working, Shape, Replayed, Quiet', NEW j \in Jobs, HydraWrite(j)
  PROVE  Replayed'
<1>1. PICK n, P, O, m : n = todo[j][1] /\ P = PlanOf[log[n]] /\ O = ops[j] /\ m = Len(P) - Len(O) + 1
  OBVIOUS
<1>2. PICK key : key = Head(O).key OBVIOUS
<1>3. /\ store = "hydra" /\ Pending(j) /\ found[j] # "unknown" /\ Advance(j)
      /\ UNCHANGED <<store, log, pc, todo, skipped, overlapped, interrupted>>
      /\ graph' = [graph EXCEPT ![key] =
           IF found[j] = "yes" THEN [c \in DOMAIN graph[key] |-> {Stamp(j)}]
           ELSE Append(graph[key], {Stamp(j)})]
  BY <1>1, <1>2 DEF HydraWrite, history
<1>4. Quiet /\ Solo /\ FoundStands BY <1>3 DEF Quiet, Shape
<1>5. Turn(j, n, P, O, m) BY <1>1, <1>3 DEF Turn
<1>6. /\ Stamp(j) = n /\ Head(O) \in Ops /\ key = P[m].key
  BY <1>2, <1>4, <1>5, Doing
<1>7. key \in Keys BY <1>2, <1>6, OpFacts
<1>8. Head(O).if = {} BY <1>1, <1>3 DEF Working, JobOK
<1>9. Fitting(n, P[m]) BY <1>3 DEF Fitting
<1>10. store # "memory" BY <1>3
<1>11. (IF found[j] = "yes" THEN [c \in DOMAIN graph[key] |-> {n}] ELSE Append(graph[key], {n})) = <<{n}>>
  <2>1. found[j] = "no" <=> graph[key] = <<>> BY <1>1, <1>2, <1>3, <1>4 DEF FoundStands, Quiet
  <2>2. graph[key] = Copies(store = "memory", key, WritersNow(key)) BY <1>4, <1>5, <1>7, CopiesOfNext
  <2>3. graph[key] = <<>> \/ \E x : graph[key] = <<x>> BY <2>2 DEF Copies
  <2>4. found[j] \in {"yes", "no"} BY <1>3 DEF Working, Types
  <2>5. \A x : DOMAIN <<x>> = 1 .. 1 /\ <<x>> # <<>> OBVIOUS
  <2>6. [c \in 1 .. 1 |-> {n}] = <<{n}>> /\ Append(<<>>, {n}) = <<{n}>> OBVIOUS
  <2> QED BY <2>1, <2>3, <2>4, <2>5, <2>6
<1>12. Writes(key, n) BY <1>3, <1>6, <1>10, <1>11 DEF NextCopies, Writes
<1> QED BY <1>3, <1>4, <1>5, <1>6, <1>8, <1>9, <1>12, WriteReplays

\* What a rebuild left out is of the log.
LEMMA SkippedStep ==
  ASSUME Working, Replayed, [Next]_vars
  PROVE  skipped' \subseteq DOMAIN log'
<1>1. skipped \subseteq DOMAIN log /\ DOMAIN log \subseteq DOMAIN log' BY LogGrows DEF Replayed
<1>2. CASE skipped' \in {skipped, {}} BY <1>1, <1>2
<1>3. ASSUME NEW j \in Jobs, Throw(j), Pending(j) PROVE skipped' \subseteq DOMAIN log'
  <2>1. todo[j] \in Seq(Nat) /\ todo[j] # <<>> /\ \A k \in DOMAIN todo[j] : todo[j][k] \in DOMAIN log
    BY <1>3, Current DEF Pending, Working, JobOK
  <2>2. \A k \in DOMAIN Tail(todo[j]) : Tail(todo[j])[k] \in DOMAIN log
    BY <2>1, SequenceFacts
  <2>3. skipped' = skipped \/ skipped' = skipped \cup ToSet(Tail(todo[j])) BY <1>3 DEF Throw
  <2> QED BY <1>1, <2>2, <2>3 DEF ToSet
<1>4. skipped' \in {skipped, {}} \/ \E j \in Jobs : Throw(j) /\ Pending(j)
  BY DEF Next, Rest, vars, history, Emit, StartRebuild, Clear, Cleared, ClearIgnored, ReadLog,
     EventDone, Handle, Project, Guard, MemoryWrite, HydraGet, HydraWrite, QueryFails, Crash
<1> QED BY <1>2, <1>3, <1>4

\* A step that moves no job and no data.
LEMMA SameReplays ==
  ASSUME Working, Replayed, Quiet', UNCHANGED <<store, log, graph, pc, todo, ops, history>>
  PROVE  Replayed'
<1>1. Quiet BY DEF Quiet, history
<1>2. UNCHANGED skipped BY DEF history
<1>3. Agree BY DEF Agree, Applied
<1>4. \A v \in Jobs : Position(v)' <=> Position(v)
  BY <1>2 DEF Position, Projecting, Fitting, Skipping, Present
<1>5. \A v \in Jobs : Position(v)' BY <1>1, <1>4 DEF Replayed
<1> QED BY <1>1, <1>2, <1>3, <1>5, Keeps

LEMMA ReplayedStep ==
  ASSUME Working, Shape, Replayed, [Next]_vars
  PROVE  Replayed'
<1>1. Solo BY DEF Shape
<1>2. CASE Quiet'
  <2>1. ASSUME NEW j \in Jobs, QueryFails(j) \/ Crash(j) PROVE Replayed'
    BY <1>2, <2>1 DEF QueryFails, Crash, Quiet
  <2>2. ASSUME NEW j \in Jobs, HydraGet(j) PROVE Replayed'
    BY <1>2, <2>2, SameReplays DEF HydraGet
  <2>3. CASE UNCHANGED vars BY <1>2, <2>3, SameReplays DEF vars, job
  <2> QED BY <1>1, <1>2, <2>1, <2>2, <2>3, EmitReplays, ReadReplays, ClearReplays, IdleReplays,
             DoneReplays, GuardReplays, MemoryReplays, HydraReplays
          DEF Next, Rest, Project
<1>3. CASE ~Quiet'
  <2>1. skipped' \subseteq DOMAIN log' BY SkippedStep
  <2> QED BY <1>3, <2>1 DEF Replayed, Quiet
<1> QED BY <1>2, <1>3

LEMMA ReplayedInductive == Spec => [](Working /\ Shape /\ Replayed)
BY WorkingInitial, WorkingStep, ShapeInitial, ShapeStep, ReplayedInitial, ReplayedStep, PTL DEF Spec

\* Emitting one by one and rebuilding give the same graph, in either store: when jobs have
\* not overlapped and none has died, a graph at rest is the one that the log describes, and
\* what follows an event at which a rebuild threw is all that is missing (projector.js's
\* rebuildProjection; test/projector.test.js rebuilds from a log of a few events).
THEOREM EmittingIsRebuilding == Spec => []GraphIsLog
<1>1. Replayed => GraphIsLog
  <2> SUFFICES ASSUME Replayed, Settled, NEW key \in Keys PROVE graph[key] = Expected(key)
    BY DEF GraphIsLog
  <2>1. Quiet BY DEF Settled, Quiet
  <2>2. \A i, k : Applied(i, k) BY DEF Settled, Applied, Past
  <2>3. WritersNow(key) = Writers(key) BY <2>2 DEF WritersNow, Writers
  <2>4. graph[key] = Copies(store = "memory", key, Writers(key)) BY <2>1, <2>3 DEF Replayed
  <2> QED BY <2>4 DEF Copies, Expected
<1> QED BY <1>1, ReplayedInductive, PTL
=============================================================================
