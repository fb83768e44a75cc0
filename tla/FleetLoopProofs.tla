---------------------------- MODULE FleetLoopProofs ----------------------------
(***************************************************************************)
(* Theorems about FleetLoop for any sites, any number of observers, judges *)
(* and consumers, and any KeepLast: its types, that a task leaves the      *)
(* queue only when a repair of its site is on the board (or, without       *)
(* REPAIR_CMD, a brief is written), and that passes of the consumer which  *)
(* do not overlap make one repair of a site.                               *)
(***************************************************************************)
EXTENDS FleetLoop, FiniteSetTheorems, SequenceTheorems, TLAPS

USE DEF At, Set, None
-----------------------------------------------------------------------------
(* Types                                                                   *)

Entries == [site : Sites \cup {None}, kind : {"standard-reconcile", "product-build"}]
Passes == [at : {"idle", "line", "open"}, line : Nat, last : Nat, consumed : Seq(Tasks),
           open : SUBSET Sites]
Stages == {"add", "register", "observe", "conformance"}

\* A site that is being deployed is there, like every listed one; a repair task names a site;
\* a pass goes over the lines that the outbox had when it began, and a repair on the board
\* came from one of them.
DeployOK == deploy.at \in Stages => deploy.site \in Sites /\ real[deploy.site] # None
ListedOK == \A s \in listed : real[s] # None
OutboxOK == \A t \in DOMAIN outbox : IsRepair(t) => outbox[t].site \in Sites
LinesOK ==
  \A c \in Consumers :
    /\ Line(c) > 0 /\ consumer[c].last <= Len(outbox)
    /\ consumer[c].at = "open" =>
         Line(c) \in DOMAIN outbox /\ IsRepair(Line(c)) /\ Task(c).site \in consumer[c].open
BoardOK == \A t \in Tasks : board[t] # None => t \in DOMAIN outbox /\ IsRepair(t)

Sound == TypeOK /\ DeployOK /\ ListedOK /\ OutboxOK /\ LinesOK /\ BoardOK

LEMMA SoundInitial == Init => Sound
<1> SUFFICES ASSUME Init PROVE Sound OBVIOUS
<1>1. <<>> \in Seq(Sites) /\ <<>> \in Seq(Entries) /\ <<>> \in Seq(Tasks) /\ Len(<<>>) = 0 OBVIOUS
<1>2. /\ KeepLast \in Nat /\ MaxTasks \in Nat /\ MaxBreaks \in Nat /\ MaxFaults \in Nat
      /\ Fleet \subseteq Sites
  BY FleetAssumption
<1>3. Idle \in Passes BY <1>1 DEF Idle, Passes
<1>7. consumer \in [Consumers -> Passes] BY <1>3 DEF Init
<1>8. /\ consumed = <<>> /\ open = {} /\ drift = <<>> /\ outbox = <<>> /\ deploy = NoDeploy
      /\ overlapped = FALSE /\ lost = FALSE /\ breaks = MaxBreaks /\ faults = MaxFaults
      /\ listed = Fleet /\ desired = Fleet
  BY DEF Init
<1>9. /\ real \in [Sites -> {"ok", "bad", None}] /\ seen \in [Sites -> {"ok", "bad", None}]
      /\ verdict \in [Sites -> {"ok", "bad", None}] /\ board \in [Tasks -> {None} \cup Outcomes]
      /\ command \in Commands
      /\ \A o \in Observers : probe[o] = <<>> 
      /\ \A k \in Judges : ruling[k] = <<>>
  BY DEF Init
<1>10. NoDeploy \in [site : Sites \cup {None},
                     at : {"idle", "add", "register", "observe", "conformance", "ended"}]
  BY DEF NoDeploy
<1>4. TypeOK
  <2>1. /\ drift \in Seq(Sites) /\ outbox \in Seq(Entries) /\ consumed \in Seq(Tasks)
        /\ Len(outbox) <= MaxTasks /\ Len(consumed) <= KeepLast
    BY <1>1, <1>2, <1>8
  <2>2. overlapped \in BOOLEAN /\ lost \in BOOLEAN BY <1>8
  <2>3. /\ breaks \in 0 .. MaxBreaks /\ faults \in 0 .. MaxFaults
        /\ listed \subseteq Sites /\ desired \subseteq listed /\ open \subseteq Sites
    BY <1>2, <1>8
  <2>4. deploy \in [site : Sites \cup {None},
                    at : {"idle", "add", "register", "observe", "conformance", "ended"}]
    BY <1>8, <1>10
  <2> QED BY <1>7, <1>9, <2>1, <2>2, <2>3, <2>4 DEF TypeOK, Entries, Passes
<1>5. DeployOK /\ ListedOK /\ OutboxOK /\ BoardOK
  BY <1>2 DEF Init, DeployOK, ListedOK, OutboxOK, BoardOK, NoDeploy, Stages
<1>6. LinesOK BY <1>1 DEF Init, LinesOK, Idle, Line
<1> QED BY <1>4, <1>5, <1>6 DEF Sound

\* Every finite set can be listed.
LEMMA SetIsListed ==
  ASSUME NEW S, IsFiniteSet(S)
  PROVE  SetToSeq(S) \in Seq(S)
<1>1. Cardinality(S) \in Nat /\ ExistsBijection(1 .. Cardinality(S), S) BY FS_CardinalityType
<1>2. PICK n \in Nat : n = Cardinality(S) BY <1>1
<1>3. \E f \in [1 .. n -> S] : IsInjective(f)
  BY <1>1, <1>2 DEF ExistsBijection, Bijection, Injection
<1>4. SetToSeq(S) \in [1 .. n -> S] BY <1>2, <1>3 DEF SetToSeq
<1> QED BY <1>4

\* What the outbox had it keeps.
LEMMA OutboxGrows ==
  ASSUME TypeOK, [Next]_vars
  PROVE  \A t \in DOMAIN outbox : t \in DOMAIN outbox' /\ outbox'[t] = outbox[t]
<1>1. outbox' = outbox \/ \E x : outbox' = Append(outbox, x)
  BY DEF Next, Deploy, Bootstrap, Break, AddSite, RegisterSites, ObserveAll, JudgeAll, DeployFails,
         Post, Probe, Record, Evaluate, FindDrift, CreateTask, MirrorBuild, Consume, Load, SkipLine,
         DispatchRepair, WriteOpen, Save, RepairFails, CutOff, Repair, vars, queue
<1>2. outbox \in Seq(Entries) BY DEF TypeOK, Entries
<1>3. CASE outbox' = outbox BY <1>3
<1>4. ASSUME NEW x, outbox' = Append(outbox, x)
      PROVE  \A t \in DOMAIN outbox : t \in DOMAIN outbox' /\ outbox'[t] = outbox[t]
  BY <1>2, <1>4
<1> QED BY <1>1, <1>3, <1>4

\* REPAIR_CMD is what it was when the model began.
LEMMA CommandStays == [Next]_vars => command' = command
BY DEF Next, Deploy, Bootstrap, Break, AddSite, RegisterSites, ObserveAll, JudgeAll, DeployFails,
       Post, Probe, Record, Evaluate, FindDrift, CreateTask, MirrorBuild, Consume, Load, SkipLine,
       DispatchRepair, WriteOpen, Save, RepairFails, CutOff, Repair, vars, estate

Levels == {"ok", "bad", None}

SiteTypes ==
  /\ real \in [Sites -> Levels] /\ listed \subseteq Sites /\ desired \subseteq listed
  /\ seen \in [Sites -> Levels] /\ verdict \in [Sites -> Levels]
  /\ \A o \in Observers : probe[o] = <<>> \/ probe[o] \in Sites \X {"ok", "bad"}
  /\ \A k \in Judges : ruling[k] = <<>> \/ ruling[k] \in Sites \X {"ok", "bad"}
  /\ deploy \in [site : Sites \cup {None}, at : Stages \cup {"idle", "ended"}]
QueueTypes ==
  /\ drift \in Seq(Sites) /\ outbox \in Seq(Entries) /\ Len(outbox) <= MaxTasks
  /\ consumer \in [Consumers -> Passes]
  /\ consumed \in Seq(Tasks) /\ Len(consumed) <= KeepLast /\ open \subseteq Sites
  /\ board \in [Tasks -> {None} \cup Outcomes] /\ command \in Commands
HistoryTypes ==
  /\ overlapped \in BOOLEAN /\ lost \in BOOLEAN
  /\ breaks \in 0 .. MaxBreaks /\ faults \in 0 .. MaxFaults

LEMMA TypesApart == TypeOK <=> SiteTypes /\ QueueTypes /\ HistoryTypes
BY DEF TypeOK, SiteTypes, QueueTypes, HistoryTypes, Levels, Stages, Entries, Passes

LEMMA TypesApartNext == TypeOK' <=> SiteTypes' /\ QueueTypes' /\ HistoryTypes'
BY DEF TypeOK, SiteTypes, QueueTypes, HistoryTypes, Levels, Stages, Entries, Passes

LEMMA HistoryStep ==
  ASSUME HistoryTypes, [Next]_vars
  PROVE  HistoryTypes'
<1>1. overlapped' \in BOOLEAN /\ lost' \in BOOLEAN
  BY DEF HistoryTypes, Next, Deploy, Bootstrap, Break, AddSite, RegisterSites, ObserveAll, JudgeAll,
     DeployFails, Post, Probe, Record, Evaluate, FindDrift, CreateTask, MirrorBuild, Consume, Load,
     SkipLine, DispatchRepair, WriteOpen, Save, RepairFails, CutOff, Repair, vars, queue
<1>2. MaxBreaks \in Nat /\ MaxFaults \in Nat BY FleetAssumption
<1>3. breaks' = breaks \/ (breaks > 0 /\ breaks' = breaks - 1)
  BY DEF Next, Deploy, Bootstrap, Break, AddSite, RegisterSites, ObserveAll, JudgeAll,
     DeployFails, Post, Probe, Record, Evaluate, FindDrift, CreateTask, MirrorBuild, Consume, Load,
     SkipLine, DispatchRepair, WriteOpen, Save, RepairFails, CutOff, Repair, vars, queue
<1>4. faults' = faults \/ (faults > 0 /\ faults' = faults - 1)
  BY DEF Next, Deploy, Bootstrap, Break, AddSite, RegisterSites, ObserveAll, JudgeAll,
     DeployFails, Post, Probe, Record, Evaluate, FindDrift, CreateTask, MirrorBuild, Consume, Load,
     SkipLine, DispatchRepair, WriteOpen, Save, RepairFails, CutOff, Repair, vars, queue
<1>5. breaks' \in 0 .. MaxBreaks BY <1>2, <1>3 DEF HistoryTypes
<1>6. faults' \in 0 .. MaxFaults BY <1>2, <1>4 DEF HistoryTypes
<1> QED BY <1>1, <1>5, <1>6 DEF HistoryTypes

\* The steps that deploy, observe and judge sites; Break and Repair change what a site is.
LEMMA SiteStep ==
  ASSUME SiteTypes, DeployOK, ListedOK, BoardOK, OutboxOK, [Next]_vars
  PROVE  SiteTypes' /\ DeployOK' /\ ListedOK'
<1> USE DEF SiteTypes, DeployOK, ListedOK, Levels
<1>1. ASSUME NEW s \in Sites, Deploy(s) PROVE SiteTypes' /\ DeployOK' /\ ListedOK'
  <2>1. PICK q \in {"ok", "bad"} : real' = [real EXCEPT ![s] = q] BY <1>1 DEF Deploy
  <2>2. /\ deploy' = [site |-> s, at |-> "add"] /\ s \notin listed
        /\ UNCHANGED <<listed, desired, seen, verdict, probe, ruling>>
    BY <1>1 DEF Deploy, sensing
  <2> QED BY <2>1, <2>2 DEF Stages
<1>2. CASE AddSite \/ RegisterSites \/ ObserveAll \/ JudgeAll \/ DeployFails
  <2>1. deploy.at \in Stages /\ real' = real /\ desired' = desired
    BY <1>2 DEF AddSite, RegisterSites, ObserveAll, JudgeAll, DeployFails, Stages
  <2>2. deploy.site \in Sites /\ real[deploy.site] # None BY <2>1
  <2>3. listed' = listed \/ listed' = listed \cup {deploy.site}
    BY <1>2 DEF AddSite, RegisterSites, ObserveAll, JudgeAll, DeployFails
  <2>4. deploy' = Ended \/ \E l \in Stages : deploy' = [deploy EXCEPT !.at = l]
    BY <1>2 DEF AddSite, RegisterSites, ObserveAll, JudgeAll, DeployFails, Stages
  <2>5. seen' \in [Sites -> Levels]
    <3>1. CASE seen' = seen BY <3>1
    <3>2. CASE seen' = [s \in Sites |-> IF s \in listed THEN real[s] ELSE seen[s]] BY <3>2
    <3> QED BY <1>2, <3>1, <3>2
         DEF AddSite, RegisterSites, ObserveAll, JudgeAll, DeployFails, sensing
  <2>6. verdict' \in [Sites -> Levels]
    <3>1. CASE verdict' = verdict BY <3>1
    <3>2. CASE verdict' = [s \in Sites |-> IF s \in desired THEN Judge(s) ELSE verdict[s]]
      BY <3>2 DEF Judge
    <3> QED BY <1>2, <3>1, <3>2
         DEF AddSite, RegisterSites, ObserveAll, JudgeAll, DeployFails, sensing
  <2>7. UNCHANGED <<probe, ruling>>
    BY <1>2 DEF AddSite, RegisterSites, ObserveAll, JudgeAll, DeployFails, sensing
  <2>8. deploy' \in [site : Sites \cup {None}, at : Stages \cup {"idle", "ended"}]
    BY <2>4 DEF Ended
  <2>9. deploy'.at \in Stages => deploy'.site = deploy.site
    BY <2>4 DEF Ended, Stages
  <2> QED BY <2>1, <2>2, <2>3, <2>5, <2>6, <2>7, <2>8, <2>9
<1>3. ASSUME NEW s \in Sites, Bootstrap(s) \/ Break(s) PROVE SiteTypes' /\ DeployOK' /\ ListedOK'
  BY <1>3 DEF Bootstrap, Break, sensing, registry
<1>4. ASSUME NEW o \in Observers, NEW s \in Sites, Probe(o, s) PROVE SiteTypes' /\ DeployOK' /\ ListedOK'
  <2>1. <<s, real[s]>> \in Sites \X {"ok", "bad"} BY <1>4 DEF Probe
  <2>2. \A p \in Observers : probe'[p] = probe[p] \/ probe'[p] = <<s, real[s]>> BY <1>4 DEF Probe
  <2> QED BY <1>4, <2>1, <2>2 DEF Probe, registry
<1>5. ASSUME NEW o \in Observers, Post(o) PROVE SiteTypes' /\ DeployOK' /\ ListedOK'
  <2>1. probe[o] \in Sites \X {"ok", "bad"} BY <1>5 DEF Post
  <2>2. seen' \in [Sites -> Levels] BY <1>5, <2>1 DEF Post
  <2>3. \A p \in Observers : probe'[p] = probe[p] \/ probe'[p] = <<>> BY <1>5 DEF Post
  <2> QED BY <1>5, <2>2, <2>3 DEF Post, registry
<1>6. ASSUME NEW k \in Judges, NEW s \in Sites, Evaluate(k, s) PROVE SiteTypes' /\ DeployOK' /\ ListedOK'
  <2>1. <<s, Judge(s)>> \in Sites \X {"ok", "bad"} BY DEF Judge
  <2>2. \A p \in Judges : ruling'[p] = ruling[p] \/ ruling'[p] = <<s, Judge(s)>> BY <1>6 DEF Evaluate
  <2> QED BY <1>6, <2>1, <2>2 DEF Evaluate, registry
<1>7. ASSUME NEW k \in Judges, Record(k) PROVE SiteTypes' /\ DeployOK' /\ ListedOK'
  <2>1. ruling[k] \in Sites \X {"ok", "bad"} BY <1>7 DEF Record
  <2>2. verdict' \in [Sites -> Levels] BY <1>7, <2>1 DEF Record
  <2>3. \A p \in Judges : ruling'[p] = ruling[p] \/ ruling'[p] = <<>> BY <1>7 DEF Record
  <2> QED BY <1>7, <2>2, <2>3 DEF Record, registry
<1>8. ASSUME NEW t \in Tasks, Repair(t) PROVE SiteTypes' /\ DeployOK' /\ ListedOK'
  <2>1. outbox[t].site \in Sites BY <1>8 DEF Repair, BoardOK, OutboxOK
  <2> QED BY <1>8, <2>1 DEF Repair, sensing, registry
<1>9. CASE UNCHANGED <<real, sensing, registry>>
  BY <1>9 DEF sensing, registry
<1>10. CASE FindDrift \/ CreateTask \/ MirrorBuild \/ UNCHANGED vars
            \/ \E c \in Consumers : Consume(c) \/ RepairFails(c) \/ CutOff(c)
  BY <1>9, <1>10 DEF FindDrift, CreateTask, MirrorBuild, Consume, Load, SkipLine, DispatchRepair,
     WriteOpen, Save, RepairFails, CutOff, vars, estate
<1> QED BY <1>1, <1>2, <1>3, <1>4, <1>5, <1>6, <1>7, <1>8, <1>10 DEF Next
-----------------------------------------------------------------------------
(* The outbox and its consumers                                            *)

QueueOK == QueueTypes /\ OutboxOK /\ LinesOK /\ BoardOK

LEMMA PassOf ==
  ASSUME QueueOK, NEW c \in Consumers
  PROVE  /\ consumer[c] \in Passes /\ Line(c) \in Nat /\ Line(c) > 0
         /\ consumer[c].last <= Len(outbox) /\ consumer[c].last \in Nat /\ Len(outbox) \in Nat
         /\ consumer[c].consumed \in Seq(Tasks) /\ consumer[c].open \subseteq Sites
         /\ outbox \in Seq(Entries) /\ DOMAIN outbox = 1 .. Len(outbox) /\ DOMAIN outbox \subseteq Tasks
<1>1. consumer[c] \in Passes BY DEF QueueOK, QueueTypes
<1>2. outbox \in Seq(Entries) /\ Len(outbox) <= MaxTasks BY DEF QueueOK, QueueTypes
<1>3. Len(outbox) \in Nat /\ DOMAIN outbox = 1 .. Len(outbox) BY <1>2
<1>4. DOMAIN outbox \subseteq Tasks BY <1>2, <1>3, FleetAssumption DEF Tasks
<1> QED BY <1>1, <1>2, <1>3, <1>4 DEF QueueOK, LinesOK, Line, Passes

\* A pass at a line of the outbox that it may act on.
LEMMA LineIsThere ==
  ASSUME QueueOK, NEW c \in Consumers, Repairing(c) \/ consumer[c].at = "open"
  PROVE  Line(c) \in DOMAIN outbox /\ Line(c) \in Tasks
<1>1. CASE Repairing(c)
  <2>1. Line(c) \in 1 .. Len(outbox) BY <1>1, PassOf DEF Repairing
  <2> QED BY <2>1, PassOf
<1>2. CASE consumer[c].at = "open" BY <1>2, PassOf DEF QueueOK, LinesOK
<1> QED BY <1>1, <1>2

LEMMA AckIsPass ==
  ASSUME QueueOK, NEW c \in Consumers, Repairing(c) \/ consumer[c].at = "open"
  PROVE  /\ Ack(c) \in Passes /\ Ack(c).at = "line" /\ Ack(c).line > 0 /\ Ack(c).last = consumer[c].last
         /\ Ack(c).open = consumer[c].open /\ Ack(c).consumed = Append(consumer[c].consumed, Line(c))
         /\ [consumer[c] EXCEPT !.line = @ + 1] \in Passes
<1>1. Append(consumer[c].consumed, Line(c)) \in Seq(Tasks) BY PassOf, LineIsThere
<1>2. consumer[c] \in Passes /\ Line(c) + 1 \in Nat /\ Line(c) + 1 > 0 BY PassOf
<1> QED BY <1>1, <1>2 DEF Ack, Passes, Line

\* The pass of one consumer moves on, and the outbox stays.
LEMMA PassStep ==
  ASSUME QueueOK, NEW c \in Consumers, NEW r \in Passes, Set(c, r),
         UNCHANGED <<drift, outbox, command>>,
         r.line > 0, r.last <= Len(outbox),
         r.at = "open" => /\ r.line \in DOMAIN outbox /\ IsRepair(r.line)
                          /\ outbox[r.line].site \in r.open,
         consumed' \in Seq(Tasks), Len(consumed') <= KeepLast, open' \subseteq Sites,
         board' = board \/ \E t \in DOMAIN outbox : IsRepair(t) /\ Accept(t)
  PROVE  QueueOK'
<1>1. consumer' = [consumer EXCEPT ![c] = r] BY DEF Set
<1>2. consumer' \in [Consumers -> Passes] /\ consumer'[c] = r
      /\ \A d \in Consumers : d # c => consumer'[d] = consumer[d]
  BY <1>1 DEF QueueOK, QueueTypes
<1>3. board' \in [Tasks -> {None} \cup Outcomes] /\ Outcomes' = Outcomes
  BY DEF QueueOK, QueueTypes, Accept, Outcomes
<1>4. QueueTypes' BY <1>2, <1>3 DEF QueueOK, QueueTypes
<1>5. OutboxOK' BY DEF QueueOK, OutboxOK, IsRepair
<1>6. BoardOK'
  <2>1. CASE board' = board BY <2>1 DEF QueueOK, BoardOK, IsRepair
  <2>2. ASSUME NEW t \in DOMAIN outbox, IsRepair(t), Accept(t) PROVE BoardOK'
    <3>1. \A u \in Tasks : u # t => board'[u] = board[u] BY <2>2 DEF Accept, QueueOK, QueueTypes
    <3> QED BY <2>2, <3>1 DEF QueueOK, BoardOK, IsRepair
  <2> QED BY <2>1, <2>2
<1>7. LinesOK'
  <2> SUFFICES ASSUME NEW d \in Consumers
               PROVE  /\ consumer'[d].line > 0 /\ consumer'[d].last <= Len(outbox)
                      /\ consumer'[d].at = "open" =>
                           /\ consumer'[d].line \in DOMAIN outbox
                           /\ outbox[consumer'[d].line].kind # "product-build"
                           /\ outbox[consumer'[d].line].site \in consumer'[d].open
    BY DEF LinesOK, Line, Task, IsRepair
  <2>1. CASE d = c BY <1>2, <2>1 DEF IsRepair
  <2>2. CASE d # c BY <1>2, <2>2 DEF QueueOK, LinesOK, Line, Task, IsRepair
  <2> QED BY <2>1, <2>2
<1> QED BY <1>4, <1>5, <1>6, <1>7 DEF QueueOK

\* The ids that a pass saves are the last ones it has.
LEMMA SavedIds ==
  ASSUME NEW S, NEW ids \in Seq(S),
         NEW saved, saved = SubSeq(ids, IF Len(ids) > KeepLast THEN Len(ids) - KeepLast + 1 ELSE 1, Len(ids))
  PROVE  saved \in Seq(S) /\ Len(saved) <= KeepLast /\ ToSet(saved) \subseteq ToSet(ids)
<1>1. PICK n \in Nat : n = Len(ids) OBVIOUS
<1>2. PICK k \in Nat : k = KeepLast BY FleetAssumption
<1>3. DOMAIN ids = 1 .. n /\ \A i \in 1 .. n : ids[i] \in S BY <1>1
<1>4. \A a, b \in Nat : a > b => a - b + 1 \in Nat /\ a - b + 1 > 0 /\ a - (a - b + 1) + 1 <= b OBVIOUS
<1>5. \E m \in Nat : m > 0 /\ n - m + 1 <= k /\ saved = SubSeq(ids, m, n)
  <2>1. CASE n > k
    <3>1. n - k + 1 \in Nat /\ n - k + 1 > 0 /\ n - (n - k + 1) + 1 <= k BY <1>4, <2>1
    <3>2. saved = SubSeq(ids, n - k + 1, n) BY <1>1, <1>2, <2>1
    <3> QED BY <3>1, <3>2
  <2>2. CASE ~(n > k)
    <3>1. saved = SubSeq(ids, 1, n) BY <1>1, <1>2, <2>2
    <3>2. n - 1 + 1 <= k BY <2>2
    <3>3. 1 \in Nat /\ 1 > 0 OBVIOUS
    <3> HIDE <2>2
    <3> QED BY ONLY <3>1, <3>2, <3>3, Zenon
  <2> QED BY <2>1, <2>2
<1>6. PICK m \in Nat : m > 0 /\ n - m + 1 <= k /\ saved = SubSeq(ids, m, n) BY <1>5
<1>7. \A i \in m .. n : ids[i] \in S BY <1>3, <1>6
<1>8. /\ saved \in Seq(S) /\ Len(saved) = IF m <= n THEN n - m + 1 ELSE 0
      /\ \A i \in 1 .. n - m + 1 : saved[i] = ids[m + i - 1]
  <2>1. m \in Int /\ n \in Int OBVIOUS
  <2>2. /\ SubSeq(ids, m, n) \in Seq(S)
        /\ Len(SubSeq(ids, m, n)) = IF m <= n THEN n - m + 1 ELSE 0
        /\ \A i \in 1 .. n - m + 1 : SubSeq(ids, m, n)[i] = ids[m + i - 1]
    BY ONLY <1>7, <2>1, SubSeqProperties
  <2> QED BY <1>6, <2>2
<1>9. Len(saved) <= k BY <1>6, <1>8
<1>10. \A i \in DOMAIN saved : m + i - 1 \in DOMAIN ids /\ saved[i] = ids[m + i - 1]
  <2>1. DOMAIN saved = 1 .. Len(saved) BY <1>8
  <2>2. \A i \in 1 .. Len(saved) : i \in 1 .. n - m + 1 BY <1>8
  <2>3. \A i \in 1 .. n - m + 1 : m + i - 1 \in 1 .. n BY <1>6
  <2> QED BY <1>3, <1>8, <2>1, <2>2, <2>3
<1>11. ToSet(saved) \subseteq ToSet(ids)
  <2> SUFFICES ASSUME NEW x \in ToSet(saved) PROVE x \in ToSet(ids) OBVIOUS
  <2>1. PICK i \in DOMAIN saved : x = saved[i] BY DEF ToSet
  <2>2. m + i - 1 \in DOMAIN ids /\ x = ids[m + i - 1] BY <1>10, <2>1
  <2> QED BY <2>2 DEF ToSet
<1> QED BY <1>2, <1>8, <1>9, <1>11

LEMMA ConsumeKeeps ==
  ASSUME QueueOK, NEW c \in Consumers, Consume(c) \/ RepairFails(c) \/ CutOff(c)
  PROVE  QueueOK'
<1>1. consumed \in Seq(Tasks) /\ Len(consumed) <= KeepLast /\ open \subseteq Sites
  BY DEF QueueOK, QueueTypes
<1>2. /\ consumer[c] \in Passes /\ Line(c) \in Nat /\ Line(c) > 0 /\ consumer[c].last <= Len(outbox)
      /\ Len(outbox) \in Nat
  BY PassOf
<1>3. Idle \in Passes /\ Idle.line > 0 /\ Idle.last <= Len(outbox) /\ Idle.at = "idle"
  <2>1. <<>> \in Seq(Tasks) OBVIOUS
  <2> QED BY <1>2, <2>1 DEF Idle, Passes
<1>4. CASE Load(c)
  <2>1. PICK r : r = [at |-> "line", line |-> 1, last |-> Len(outbox), consumed |-> consumed, open |-> open]
    OBVIOUS
  <2>2. r \in Passes /\ r.line > 0 /\ r.last <= Len(outbox) /\ r.at # "open"
    BY <1>1, <1>2, <2>1 DEF Passes
  <2>3. Set(c, r) /\ UNCHANGED <<drift, outbox, consumed, open, board, command>> BY <1>4, <2>1 DEF Load, files, estate
  <2> QED BY <1>1, <2>2, <2>3, PassStep
<1>5. CASE SkipLine(c) \/ RepairFails(c)
  <2>1. Repairing(c) BY <1>5 DEF SkipLine, RepairFails, Wanted
  <2>2. PICK r \in {Ack(c), [consumer[c] EXCEPT !.line = @ + 1]} : Set(c, r)
    BY <1>5 DEF SkipLine, RepairFails
  <2>3. r \in Passes BY <2>1, AckIsPass
  <2>4. r.line > 0 /\ r.last <= Len(outbox) /\ r.at = "line"
    <3>1. CASE r = Ack(c) BY <1>2, <2>1, <3>1, AckIsPass
    <3>2. CASE r = [consumer[c] EXCEPT !.line = @ + 1]
      <4>1. r.line = Line(c) + 1 /\ r.last = consumer[c].last /\ r.at = "line"
        BY <1>2, <2>1, <3>2 DEF Repairing, Line, Passes
      <4> QED BY <1>2, <4>1
    <3> QED BY <3>1, <3>2
  <2>5. UNCHANGED <<drift, outbox, consumed, open, board, command>> BY <1>5 DEF SkipLine, RepairFails, files, estate
  <2> QED BY <1>1, <2>2, <2>3, <2>4, <2>5, PassStep
<1>6. CASE DispatchRepair(c)
  <2>1. Repairing(c) /\ IsRepair(Line(c)) /\ Accept(Line(c)) BY <1>6 DEF DispatchRepair, Wanted
  <2>2. Line(c) \in DOMAIN outbox BY <2>1, LineIsThere
  <2>3. Task(c).site \in Sites BY <2>1, <2>2 DEF QueueOK, OutboxOK, Task
  <2>4. PICK r : r = [consumer[c] EXCEPT !.at = "open", !.open = @ \cup {Task(c).site}] OBVIOUS
  <2>5. /\ r \in Passes /\ r.line = Line(c) /\ r.last = consumer[c].last
        /\ r.open = consumer[c].open \cup {Task(c).site}
    BY <1>2, <2>3, <2>4 DEF Passes, Line
  <2>6. Set(c, r) /\ UNCHANGED <<drift, outbox, consumed, open, command>> BY <1>6, <2>4 DEF DispatchRepair, files, estate
  <2>7. outbox[r.line].site \in r.open BY <2>5 DEF Task
  <2> QED BY <1>1, <1>2, <2>1, <2>2, <2>5, <2>6, <2>7, PassStep
<1>7. CASE WriteOpen(c)
  <2>1. consumer[c].at = "open" BY <1>7 DEF WriteOpen
  <2>2. Ack(c) \in Passes /\ Ack(c).line > 0 /\ Ack(c).last <= Len(outbox) /\ Ack(c).at # "open"
    BY <1>2, <2>1, AckIsPass
  <2>3. open' \subseteq Sites BY <1>7, PassOf DEF WriteOpen
  <2>4. Set(c, Ack(c)) /\ UNCHANGED <<drift, outbox, consumed, board, command>> BY <1>7 DEF WriteOpen, estate
  <2> QED BY <1>1, <2>2, <2>3, <2>4, PassStep
<1>8. CASE Save(c)
  <2>1. PICK ids : ids = consumer[c].consumed OBVIOUS
  <2>2. ids \in Seq(Tasks) BY <2>1, PassOf
  <2>3. consumed' = SubSeq(ids, IF Len(ids) > KeepLast THEN Len(ids) - KeepLast + 1 ELSE 1, Len(ids))
    BY <1>8, <2>1 DEF Save
  <2>4. consumed' \in Seq(Tasks) /\ Len(consumed') <= KeepLast
    BY <2>2, <2>3, SavedIds
  <2>5. Set(c, Idle) /\ UNCHANGED <<drift, outbox, open, board, command>> BY <1>8 DEF Save, estate
  <2> QED BY <1>1, <1>3, <2>4, <2>5, PassStep
<1>9. CASE CutOff(c)
  <2>1. Set(c, Idle) /\ UNCHANGED <<drift, outbox, consumed, open, board, command>> BY <1>9 DEF CutOff, files, estate
  <2> QED BY <1>1, <1>3, <2>1, PassStep
<1> QED BY <1>4, <1>5, <1>6, <1>7, <1>8, <1>9 DEF Consume

\* A task joins the outbox.
LEMMA AppendKeeps ==
  ASSUME QueueOK, NEW e \in Entries, Len(outbox) < MaxTasks, outbox' = Append(outbox, e),
         e.kind # "product-build" => e.site \in Sites,
         drift' \in Seq(Sites), UNCHANGED <<consumer, consumed, open, board, command>>
  PROVE  QueueOK'
<1>1. outbox \in Seq(Entries) /\ Len(outbox) \in Nat /\ DOMAIN outbox = 1 .. Len(outbox)
  BY DEF QueueOK, QueueTypes
<1>2. PICK n \in Nat : n = Len(outbox) BY <1>1
<1>3. PICK m \in Nat : m = MaxTasks BY FleetAssumption
<1>4. outbox' \in Seq(Entries) /\ Len(outbox') = n + 1 /\ outbox'[n + 1] = e
      /\ \A t \in 1 .. n : outbox'[t] = outbox[t]
  BY <1>1, <1>2
<1>5. DOMAIN outbox' = 1 .. n + 1 BY <1>4
<1>6. Len(outbox') <= MaxTasks BY <1>2, <1>3, <1>4
<1>7. QueueTypes' BY <1>4, <1>6 DEF QueueOK, QueueTypes, Outcomes
<1>8. \A t \in DOMAIN outbox : t \in DOMAIN outbox' /\ outbox'[t] = outbox[t] BY <1>1, <1>2, <1>4, <1>5
<1>9. \A t \in DOMAIN outbox' : t \notin DOMAIN outbox => t = n + 1 BY <1>1, <1>2, <1>5
<1>10. OutboxOK'
  <2> SUFFICES ASSUME NEW t \in DOMAIN outbox', outbox'[t].kind # "product-build"
               PROVE  outbox'[t].site \in Sites
    BY DEF OutboxOK, IsRepair
  <2>1. CASE t \in DOMAIN outbox BY <1>8, <2>1 DEF QueueOK, OutboxOK, IsRepair
  <2>2. CASE t \notin DOMAIN outbox BY <1>4, <1>9, <2>2
  <2> QED BY <2>1, <2>2
<1>11. BoardOK' BY <1>8 DEF QueueOK, BoardOK, IsRepair
<1>12. LinesOK'
  <2> SUFFICES ASSUME NEW c \in Consumers
               PROVE  /\ Line(c) > 0 /\ consumer[c].last <= Len(outbox')
                      /\ consumer[c].at = "open" =>
                           /\ Line(c) \in DOMAIN outbox' /\ outbox'[Line(c)].kind # "product-build"
                           /\ outbox'[Line(c)].site \in consumer[c].open
    BY DEF LinesOK, Line, Task, IsRepair
  <2>1. PICK l \in Nat : l = consumer[c].last BY PassOf
  <2>2. l <= n BY <1>2, <2>1, PassOf
  <2>3. consumer[c].last <= Len(outbox') BY <1>4, <2>1, <2>2
  <2> QED BY <1>8, <2>3 DEF QueueOK, LinesOK, Task, IsRepair
<1> QED BY <1>7, <1>10, <1>11, <1>12 DEF QueueOK

LEMMA QueueStep ==
  ASSUME QueueOK, desired \subseteq listed, listed \subseteq Sites, [Next]_vars
  PROVE  QueueOK'
<1>1. CASE FindDrift
  <2>1. Drift \subseteq Sites BY DEF Drift
  <2>2. IsFiniteSet(Drift) BY <2>1, FS_Subset, FleetAssumption
  <2>3. SetToSeq(Drift) \in Seq(Drift) BY <2>2, SetIsListed
  <2>4. drift' \in Seq(Sites) BY <1>1, <2>1, <2>3 DEF FindDrift
  <2>5. UNCHANGED <<outbox, consumer, consumed, open, board, command>> BY <1>1 DEF FindDrift, queue, files, estate
  <2> QED BY <2>4, <2>5 DEF QueueOK, QueueTypes, OutboxOK, LinesOK, BoardOK, Line, Task, IsRepair, Outcomes
<1>2. CASE CreateTask
  <2>1. drift \in Seq(Sites) /\ drift # <<>> BY <1>2 DEF CreateTask, QueueOK, QueueTypes
  <2>2. Head(drift) \in Sites /\ Tail(drift) \in Seq(Sites) BY <2>1
  <2>3. PICK e : e = [site |-> Head(drift), kind |-> "standard-reconcile"] OBVIOUS
  <2>4. e \in Entries /\ e.site \in Sites BY <2>2, <2>3 DEF Entries
  <2>5. drift' \in Seq(Sites) /\ UNCHANGED <<consumer, consumed, open, board, command>>
    BY <1>2, <2>2 DEF CreateTask, files, estate
  <2>6. CASE Len(outbox) < MaxTasks
    <3>1. outbox' = Append(outbox, e) BY <1>2, <2>3, <2>6 DEF CreateTask
    <3> QED BY <2>4, <2>5, <2>6, <3>1, AppendKeeps
  <2>7. CASE ~(Len(outbox) < MaxTasks)
    <3>1. outbox' = outbox BY <1>2, <2>7 DEF CreateTask
    <3> QED BY <2>5, <3>1 DEF QueueOK, QueueTypes, OutboxOK, LinesOK, BoardOK, Line, Task, IsRepair, Outcomes
  <2> QED BY <2>6, <2>7
<1>3. CASE MirrorBuild
  <2>1. PICK e : e = [site |-> None, kind |-> "product-build"] OBVIOUS
  <2>2. e \in Entries /\ e.kind = "product-build" BY <2>1 DEF Entries
  <2>3. outbox' = Append(outbox, e) /\ Len(outbox) < MaxTasks BY <1>3, <2>1 DEF MirrorBuild
  <2>4. drift' \in Seq(Sites) /\ UNCHANGED <<consumer, consumed, open, board, command>>
    BY <1>3 DEF MirrorBuild, files, estate, QueueOK, QueueTypes
  <2> QED BY <2>2, <2>3, <2>4, AppendKeeps
<1>4. ASSUME NEW t \in Tasks, Repair(t) PROVE QueueOK'
  <2>1. board' = [board EXCEPT ![t] = "done"] /\ board[t] = "open"
        /\ UNCHANGED <<drift, outbox, consumer, consumed, open, command>>
    BY <1>4 DEF Repair, files
  <2>2. \A u \in Tasks : board'[u] # None => board[u] # None BY <2>1 DEF QueueOK, QueueTypes
  <2>3. board' \in [Tasks -> {None} \cup Outcomes] BY <2>1 DEF QueueOK, QueueTypes, Outcomes
  <2>4. Outcomes' = Outcomes BY <2>1 DEF Outcomes
  <2> QED BY <2>1, <2>2, <2>3, <2>4 DEF QueueOK, QueueTypes, OutboxOK, LinesOK, BoardOK, Line, Task, IsRepair, Outcomes
<1>5. CASE \E c \in Consumers : Consume(c) \/ RepairFails(c) \/ CutOff(c) BY <1>5, ConsumeKeeps
<1>6. CASE UNCHANGED <<drift, outbox, consumer, consumed, open, board, command>>
  BY <1>6 DEF QueueOK, QueueTypes, OutboxOK, LinesOK, BoardOK, Line, Task, IsRepair, Outcomes
<1>7. ASSUME Next, ~FindDrift, ~CreateTask, ~MirrorBuild, ~\E t \in Tasks : Repair(t),
             ~\E c \in Consumers : Consume(c) \/ RepairFails(c) \/ CutOff(c)
      PROVE  UNCHANGED <<drift, outbox, consumer, consumed, open, board, command>>
  BY <1>7 DEF Next, Deploy, Bootstrap, Break, AddSite, RegisterSites, ObserveAll, JudgeAll,
     DeployFails, Post, Probe, Record, Evaluate, queue, files, estate
<1>8. CASE UNCHANGED vars BY <1>6, <1>8 DEF vars, queue, files
<1> QED BY <1>1, <1>2, <1>3, <1>4, <1>5, <1>6, <1>7, <1>8

LEMMA SoundStep == Sound /\ [Next]_vars => Sound'
<1> SUFFICES ASSUME Sound, [Next]_vars PROVE Sound' OBVIOUS
<1>1. SiteTypes /\ QueueTypes /\ HistoryTypes BY TypesApart DEF Sound
<1>2. HistoryTypes' BY <1>1, HistoryStep
<1>3. SiteTypes' /\ DeployOK' /\ ListedOK' BY <1>1, SiteStep DEF Sound
<1>4. QueueOK' BY <1>1, QueueStep DEF Sound, QueueOK, SiteTypes
<1>5. TypeOK' BY <1>2, <1>3, <1>4, TypesApartNext DEF QueueOK
<1> QED BY <1>3, <1>4, <1>5 DEF Sound, QueueOK

\* What the loop keeps about its sites, its queue and its passes has its type always.
THEOREM TypeCorrect == Spec => []TypeOK
<1>1. Sound => TypeOK BY DEF Sound
<1> QED BY <1>1, SoundInitial, SoundStep, PTL DEF Spec

LEMMA AlwaysSound == Spec => []Sound
BY SoundInitial, SoundStep, PTL DEF Spec
-----------------------------------------------------------------------------
(* A task leaves the queue when its site has been acted for                *)

Accepted(t) == t \in DOMAIN outbox /\ (IsRepair(t) => RepairsOf(outbox[t].site) # {})
Backed(ids, sites) ==
  /\ \A t \in ToSet(ids) : Accepted(t)
  /\ \A s \in sites : RepairsOf(s) # {}

\* The ids a pass has consumed, and the sites it takes to have an open repair, are accepted, in
\* the files and in every pass in progress: the files are what later passes decide on.
Acceptance ==
  /\ Backed(consumed, open)
  /\ \A c \in Consumers : Backed(consumer[c].consumed, consumer[c].open)

\* What has become of a task stays.
LEMMA BoardStays ==
  ASSUME Sound, [Next]_vars
  PROVE  \A t \in Tasks : board[t] \in Outcomes => board'[t] \in Outcomes'
<1>1. board \in [Tasks -> {None} \cup Outcomes] BY TypesApart DEF Sound, QueueTypes
<1>2. board' = board \/ (\E t \in Tasks : Repair(t)) \/ \E c \in Consumers : DispatchRepair(c)
  BY DEF Next, Deploy, Bootstrap, Break, AddSite, RegisterSites, ObserveAll, JudgeAll, DeployFails,
         Post, Probe, Record, Evaluate, FindDrift, CreateTask, MirrorBuild, Consume, Load, SkipLine,
         WriteOpen, Save, RepairFails, CutOff, vars, queue
<1>3. Outcomes' = Outcomes BY CommandStays DEF Outcomes
<1>4. ASSUME NEW u \in Tasks, Repair(u) PROVE \A t \in Tasks : board[t] \in Outcomes => board'[t] \in Outcomes
  BY <1>1, <1>4 DEF Repair, Outcomes
<1>5. ASSUME NEW c \in Consumers, DispatchRepair(c)
      PROVE  \A t \in Tasks : board[t] \in Outcomes => board'[t] \in Outcomes
  BY <1>1, <1>5 DEF DispatchRepair, Accept, Outcomes
<1> QED BY <1>2, <1>3, <1>4, <1>5

LEMMA AcceptedStays ==
  ASSUME Sound, [Next]_vars
  PROVE  /\ \A s : RepairsOf(s) \subseteq RepairsOf(s)'
         /\ \A t : Accepted(t) => Accepted(t)'
         /\ \A ids, sites : Backed(ids, sites) => Backed(ids, sites)'
<1>1. \A t \in DOMAIN outbox : t \in DOMAIN outbox' /\ outbox'[t] = outbox[t]
  BY OutboxGrows DEF Sound
<1>2. DOMAIN outbox \subseteq Tasks
  <2>1. outbox \in Seq(Entries) /\ Len(outbox) <= MaxTasks BY TypesApart DEF Sound, QueueTypes
  <2> QED BY <2>1, FleetAssumption DEF Tasks
<1>3. ASSUME NEW s PROVE RepairsOf(s) \subseteq RepairsOf(s)'
  BY <1>1, <1>2, BoardStays DEF RepairsOf
<1>4. ASSUME NEW t, Accepted(t) PROVE Accepted(t)'
  <2>1. t \in DOMAIN outbox' /\ outbox'[t] = outbox[t] BY <1>1, <1>4 DEF Accepted
  <2>2. PICK s : s = outbox[t].site OBVIOUS
  <2>3. RepairsOf(s) \subseteq RepairsOf(s)' BY <1>3
  <2>4. IsRepair(t) => RepairsOf(s) # {} BY <1>4, <2>2 DEF Accepted
  <2>5. IsRepair(t)' => RepairsOf(s)' # {} BY <2>1, <2>3, <2>4 DEF IsRepair
  <2> QED BY <2>1, <2>2, <2>5 DEF Accepted, RepairsOf
<1>5. ASSUME NEW ids, NEW sites, Backed(ids, sites) PROVE Backed(ids, sites)'
  <2>1. \A t \in ToSet(ids) : Accepted(t)' BY <1>4, <1>5 DEF Backed
  <2>2. \A s \in sites : RepairsOf(s)' # {} BY <1>3, <1>5 DEF Backed
  <2> QED BY <2>1, <2>2 DEF Backed
<1> QED BY <1>3, <1>4, <1>5

\* One pass moves on to r, and the files hold the given ids and sites.
LEMMA AcceptanceKept ==
  ASSUME Sound, Acceptance, [Next]_vars, NEW c \in Consumers, NEW r, Set(c, r),
         NEW rids, NEW rsites, r.consumed = rids, r.open = rsites, Backed(rids, rsites)',
         NEW ids, NEW sites, consumed' = ids, open' = sites, Backed(ids, sites)'
  PROVE  Acceptance'
<1>1. consumer \in [Consumers -> Passes] BY TypesApart DEF Sound, QueueTypes
<1>2. Backed(consumed, open)' BY DEF Backed
<1>3. ASSUME NEW d \in Consumers PROVE Backed(consumer[d].consumed, consumer[d].open)'
  <2>1. CASE d = c
    <3>1. consumer'[d] = r BY <1>1, <2>1 DEF Set
    <3> QED BY <3>1 DEF Backed
  <2>2. CASE d # c
    <3>1. PICK q : q = consumer[d] OBVIOUS
    <3>2. consumer'[d] = q BY <1>1, <2>2, <3>1 DEF Set
    <3>3. Backed(q.consumed, q.open) BY <3>1 DEF Acceptance
    <3>4. PICK x, y : x = q.consumed /\ y = q.open OBVIOUS
    <3>5. Backed(x, y)' BY <3>3, <3>4, AcceptedStays
    <3> QED BY <3>2, <3>4, <3>5 DEF Backed
  <2> QED BY <2>1, <2>2
<1> QED BY <1>2, <1>3 DEF Acceptance

\* A pass that is done with its line has that line among its ids.
LEMMA AckedBacked ==
  ASSUME Sound, Acceptance, [Next]_vars, NEW c \in Consumers, Repairing(c) \/ consumer[c].at = "open",
         ~IsRepair(Line(c)) \/ Task(c).site \in consumer[c].open,
         NEW ids, ids = Append(consumer[c].consumed, Line(c)), NEW sites, sites = consumer[c].open
  PROVE  Backed(ids, sites)'
<1>1. QueueOK BY TypesApart DEF Sound, QueueOK
<1>2. Line(c) \in DOMAIN outbox BY <1>1, LineIsThere
<1>3. Backed(consumer[c].consumed, sites) BY DEF Acceptance
<1>4. Accepted(Line(c)) BY <1>2, <1>3 DEF Accepted, Backed, Task
<1>5. consumer[c].consumed \in Seq(Tasks) BY <1>1, PassOf
<1>6. \A s \in Seq(Tasks) : \A x : \A y \in ToSet(Append(s, x)) : y = x \/ y \in ToSet(s)
  <2> SUFFICES ASSUME NEW s \in Seq(Tasks), NEW x, NEW y \in ToSet(Append(s, x)), y # x
               PROVE  y \in ToSet(s)
    OBVIOUS
  <2>1. PICK i \in DOMAIN Append(s, x) : y = Append(s, x)[i] BY DEF ToSet
  <2>2. i \in DOMAIN s /\ y = s[i] BY <2>1
  <2> QED BY <2>2 DEF ToSet
<1>7. \A y \in ToSet(ids) : y = Line(c) \/ y \in ToSet(consumer[c].consumed) BY <1>5, <1>6
<1>8. Backed(ids, sites) BY <1>3, <1>4, <1>7 DEF Backed
<1> QED BY <1>8, AcceptedStays

LEMMA AcceptanceStep == Sound /\ Acceptance /\ [Next]_vars => Acceptance'
<1> SUFFICES ASSUME Sound, Acceptance, [Next]_vars PROVE Acceptance' OBVIOUS
<1>1. QueueOK BY TypesApart DEF Sound, QueueOK
<1>2. CASE UNCHANGED <<consumer, consumed, open>>
  <2>1. PICK ids, sites : ids = consumed /\ sites = open OBVIOUS
  <2>2. Backed(ids, sites)' BY <2>1, AcceptedStays DEF Acceptance
  <2>3. Backed(consumed, open)' BY <1>2, <2>1, <2>2 DEF Backed
  <2>4. ASSUME NEW d \in Consumers PROVE Backed(consumer[d].consumed, consumer[d].open)'
    <3>1. PICK x, y : x = consumer[d].consumed /\ y = consumer[d].open OBVIOUS
    <3>2. Backed(x, y)' BY <3>1, AcceptedStays DEF Acceptance
    <3> QED BY <1>2, <3>1, <3>2 DEF Backed
  <2> QED BY <2>3, <2>4 DEF Acceptance
<1>3. ASSUME NEW c \in Consumers, Consume(c) \/ RepairFails(c) \/ CutOff(c) PROVE Acceptance'
  <2>1. PICK fids, fsites : fids = consumed /\ fsites = open OBVIOUS
  <2>2. PICK pids, psites : pids = consumer[c].consumed /\ psites = consumer[c].open OBVIOUS
  <2>3. Backed(fids, fsites) /\ Backed(pids, psites) BY <2>1, <2>2 DEF Acceptance
  <2>4. Backed(fids, fsites)' /\ Backed(pids, psites)' BY <2>3, AcceptedStays
  <2>5. consumer[c] \in Passes BY <1>1, PassOf
  <2>6. ToSet(<<>>) = {} BY DEF ToSet
  <2>7. PICK none : none = <<>> OBVIOUS
  <2>8. Backed(none, {})' BY <2>6, <2>7 DEF Backed
  <2>9. CASE Load(c)
    <3>1. PICK r : r = [at |-> "line", line |-> 1, last |-> Len(outbox), consumed |-> consumed, open |-> open]
      OBVIOUS
    <3>2. Set(c, r) /\ consumed' = fids /\ open' = fsites BY <2>1, <2>9, <3>1 DEF Load, files
    <3>3. r.consumed = fids /\ r.open = fsites BY <2>1, <3>1
    <3> QED BY <2>4, <3>2, <3>3, AcceptanceKept
  <2>10. CASE SkipLine(c) \/ RepairFails(c)
    <3>1. Repairing(c) /\ consumed' = fids /\ open' = fsites
      BY <2>1, <2>10 DEF SkipLine, RepairFails, Wanted, files
    <3>2. CASE Set(c, [consumer[c] EXCEPT !.line = @ + 1])
      <4>1. PICK r : r = [consumer[c] EXCEPT !.line = @ + 1] OBVIOUS
      <4>2. Set(c, r) BY <3>2, <4>1
      <4>3. r.consumed = pids /\ r.open = psites BY <2>2, <2>5, <4>1 DEF Passes
      <4> QED BY <2>4, <3>1, <4>2, <4>3, AcceptanceKept
    <3>3. CASE Set(c, Ack(c)) /\ (~IsRepair(Line(c)) \/ Task(c).site \in consumer[c].open)
      <4>1. PICK r : r = Ack(c) OBVIOUS
      <4>2. PICK ids : ids = Append(consumer[c].consumed, Line(c)) OBVIOUS
      <4>3. Set(c, r) /\ r.consumed = ids /\ r.open = psites BY <1>1, <2>2, <3>1, <3>3, <4>1, <4>2, AckIsPass
      <4>4. Backed(ids, psites)' BY <2>2, <3>1, <3>3, <4>2, AckedBacked
      <4> QED BY <2>4, <3>1, <4>3, <4>4, AcceptanceKept
    <3> QED BY <2>10, <3>2, <3>3 DEF SkipLine, RepairFails
  <2>11. CASE DispatchRepair(c)
    <3>1. Repairing(c) /\ IsRepair(Line(c)) /\ Accept(Line(c)) BY <2>11 DEF DispatchRepair, Wanted
    <3>2. Line(c) \in DOMAIN outbox /\ Line(c) \in Tasks BY <1>1, <3>1, LineIsThere
    <3>3. PICK u, s : u = Line(c) /\ s = Task(c).site OBVIOUS
    <3>4. outbox' = outbox BY <2>11 DEF DispatchRepair
    <3>5. board'[u] \in Outcomes'
      <4>1. board \in [Tasks -> {None} \cup Outcomes] BY <1>1 DEF QueueOK, QueueTypes
      <4>2. Outcomes' = Outcomes BY CommandStays DEF Outcomes
      <4> QED BY <3>1, <3>2, <3>3, <4>1, <4>2 DEF Accept, Outcomes
    <3>6. RepairsOf(s)' # {} BY <3>2, <3>3, <3>4, <3>5 DEF RepairsOf, Task
    <3>7. PICK more : more = psites \cup {s} OBVIOUS
    <3>8. Backed(pids, more)' BY <2>4, <3>6, <3>7 DEF Backed
    <3>9. PICK r : r = [consumer[c] EXCEPT !.at = "open", !.open = @ \cup {Task(c).site}] OBVIOUS
    <3>10. r.consumed = pids /\ r.open = more BY <2>2, <2>5, <3>3, <3>7, <3>9 DEF Passes
    <3>11. Set(c, r) /\ consumed' = fids /\ open' = fsites BY <2>1, <2>11, <3>9 DEF DispatchRepair, files
    <3> QED BY <2>4, <3>8, <3>10, <3>11, AcceptanceKept
  <2>12. CASE WriteOpen(c)
    <3>1. consumer[c].at = "open" /\ Task(c).site \in consumer[c].open
      BY <1>1, <2>12 DEF WriteOpen, QueueOK, LinesOK
    <3>2. PICK r : r = Ack(c) OBVIOUS
    <3>3. PICK ids : ids = Append(consumer[c].consumed, Line(c)) OBVIOUS
    <3>4. Set(c, r) /\ r.consumed = ids /\ r.open = psites
      BY <1>1, <2>2, <2>12, <3>1, <3>2, <3>3, AckIsPass DEF WriteOpen
    <3>5. Backed(ids, psites)' BY <2>2, <3>1, <3>3, AckedBacked
    <3>6. consumed' = fids /\ open' = psites BY <2>1, <2>2, <2>12 DEF WriteOpen
    <3>7. Backed(fids, psites)' BY <2>4 DEF Backed
    <3> QED BY <3>4, <3>5, <3>6, <3>7, AcceptanceKept
  <2>13. CASE Save(c)
    <3>1. PICK saved : saved = consumed' OBVIOUS
    <3>2. saved = SubSeq(pids, IF Len(pids) > KeepLast THEN Len(pids) - KeepLast + 1 ELSE 1, Len(pids))
      BY <2>2, <2>13, <3>1 DEF Save
    <3>3. pids \in Seq(Tasks) BY <1>1, <2>2, PassOf
    <3>4. ToSet(saved) \subseteq ToSet(pids) BY <3>2, <3>3, SavedIds
    <3>5. Backed(saved, fsites)' BY <2>4, <3>4 DEF Backed
    <3>6. PICK r : r = Idle OBVIOUS
    <3>7. Set(c, r) /\ r.consumed = none /\ r.open = {} /\ open' = fsites
      BY <2>1, <2>7, <2>13, <3>6 DEF Save, Idle
    <3> QED BY <2>8, <3>1, <3>5, <3>7, AcceptanceKept
  <2>14. CASE CutOff(c)
    <3>1. PICK r : r = Idle OBVIOUS
    <3>2. Set(c, r) /\ r.consumed = none /\ r.open = {} /\ consumed' = fids /\ open' = fsites
      BY <2>1, <2>7, <2>14, <3>1 DEF CutOff, Idle, files
    <3> QED BY <2>4, <2>8, <3>2, AcceptanceKept
  <2> QED BY <1>3, <2>9, <2>10, <2>11, <2>12, <2>13, <2>14 DEF Consume
<1>4. ASSUME ~\E c \in Consumers : Consume(c) \/ RepairFails(c) \/ CutOff(c)
      PROVE  UNCHANGED <<consumer, consumed, open>>
  BY <1>4 DEF Next, Deploy, Bootstrap, Break, AddSite, RegisterSites, ObserveAll, JudgeAll,
     DeployFails, Post, Probe, Record, Evaluate, FindDrift, CreateTask, MirrorBuild, Repair, queue,
     files, vars
<1> QED BY <1>2, <1>3, <1>4

\* "ACK only after downstream acceptance": with REPAIR_CMD a repair task is consumed only when a
\* repair of its site has reached the board, whatever fails, is cut off or overlaps; without it,
\* when a brief for its site has been written, which is all that outbox-consumer.mjs:127 asks.
THEOREM AckFollowsAcceptance == Spec => []AckedIsAccepted
<1>1. Init => Acceptance
  <2> SUFFICES ASSUME Init PROVE Acceptance OBVIOUS
  <2>1. ToSet(<<>>) = {} BY DEF ToSet
  <2>2. consumed = <<>> /\ open = {} BY DEF Init
  <2>3. \A c \in Consumers : consumer[c].consumed = <<>> /\ consumer[c].open = {} BY DEF Init, Idle
  <2> QED BY <2>1, <2>2, <2>3 DEF Acceptance, Backed
<1>2. Acceptance => AckedIsAccepted BY DEF Acceptance, Backed, Accepted, AckedIsAccepted
<1> QED BY <1>1, <1>2, AcceptanceStep, AlwaysSound, PTL DEF Spec
-----------------------------------------------------------------------------
(* Passes that do not overlap make one repair of a site                    *)

Busy(c) == consumer[c].at # "idle"
Alone == \A c, d \in Consumers : Busy(c) /\ Busy(d) => c = d

\* The site of every repair is in the file, or about to be written to it; a pass knows what the
\* file does; two repairs are of two sites.
Known ==
  \A t \in Tasks : board[t] # None =>
    outbox[t].site \in open \/ \E c \in Consumers : consumer[c].at = "open" /\ outbox[t].site = Task(c).site
View == \A c \in Consumers : Busy(c) => open \subseteq consumer[c].open
Single ==
  \A t, u \in Tasks : board[t] # None /\ board[u] # None /\ outbox[t].site = outbox[u].site => t = u

Orderly ==
  /\ ~overlapped => Alone
  /\ ~overlapped /\ ~lost => Known /\ View /\ Single

\* Steps of others: the passes, the files and what is on the board stay.
LEMMA OthersOrderly ==
  ASSUME Sound, Orderly, [Next]_vars, UNCHANGED <<consumer, open, overlapped, lost>>,
         \A t \in Tasks : board'[t] # None => board[t] # None
  PROVE  Orderly'
<1>1. QueueOK BY TypesApart DEF Sound, QueueOK
<1>2. \A t \in DOMAIN outbox : t \in DOMAIN outbox' /\ outbox'[t] = outbox[t] BY OutboxGrows DEF Sound
<1>3. \A t \in Tasks : board'[t] # None => outbox'[t] = outbox[t] BY <1>1, <1>2 DEF QueueOK, BoardOK
<1>4. \A c \in Consumers : consumer[c].at = "open" => outbox'[Line(c)] = outbox[Line(c)]
  BY <1>1, <1>2 DEF QueueOK, LinesOK
<1>5. Alone => Alone' BY DEF Alone, Busy
<1>6. Known => Known'
  <2> SUFFICES ASSUME Known, NEW t \in Tasks, board'[t] # None
               PROVE  \/ outbox'[t].site \in open
                      \/ \E c \in Consumers :
                           consumer[c].at = "open" /\ outbox'[t].site = outbox'[Line(c)].site
    BY DEF Known, Task, Line
  <2>1. board[t] # None /\ outbox'[t] = outbox[t] BY <1>3
  <2> QED BY <1>4, <2>1 DEF Known, Task
<1>7. View => View' BY DEF View, Busy
<1>8. Single => Single' BY <1>3 DEF Single
<1> QED BY <1>5, <1>6, <1>7, <1>8 DEF Orderly

\* No other pass is in progress while one is.
LEMMA OthersIdle ==
  ASSUME Alone, NEW c \in Consumers, Busy(c)
  PROVE  \A d \in Consumers : d # c => consumer[d].at = "idle"
BY DEF Alone, Busy

\* A pass moves on to r, which leaves the board alone.
LEMMA PassOrderly ==
  ASSUME Sound, Orderly, NEW c \in Consumers, NEW r, Set(c, r), Busy(c), UNCHANGED <<outbox, board, overlapped>>,
         ~lost' => ~lost /\ r.at # "open" /\ (r.at # "idle" => open' \subseteq r.open)
                   /\ open \subseteq open' /\ (consumer[c].at = "open" => Task(c).site \in open')
  PROVE  Orderly'
<1>1. consumer \in [Consumers -> Passes] BY TypesApart DEF Sound, QueueTypes
<1>2. consumer'[c] = r /\ \A d \in Consumers : d # c => consumer'[d] = consumer[d] BY <1>1 DEF Set
<1>3. ASSUME Alone PROVE Alone'
  <2>1. \A d \in Consumers : d # c => consumer'[d].at = "idle" BY <1>2, <1>3, OthersIdle
  <2> QED BY <2>1 DEF Alone, Busy
<1>4. ASSUME Alone, Known, View, Single, ~lost' PROVE Known' /\ View' /\ Single'
  <2>1. \A d \in Consumers : d # c => consumer[d].at = "idle" /\ consumer'[d].at = "idle"
    BY <1>2, <1>4, OthersIdle
  <2>2. View'
    <3>1. \A d \in Consumers : consumer'[d].at # "idle" => d = c BY <2>1
    <3>2. r.at # "idle" => open' \subseteq r.open BY <1>4
    <3> QED BY <1>2, <3>1, <3>2 DEF View, Busy
  <2>3. Known'
    <3> SUFFICES ASSUME NEW t \in Tasks, board[t] # None PROVE outbox[t].site \in open' BY DEF Known
    <3>1. CASE outbox[t].site \in open BY <1>4, <3>1
    <3>2. ASSUME NEW d \in Consumers, consumer[d].at = "open", outbox[t].site = Task(d).site
          PROVE  outbox[t].site \in open'
      <4>1. d = c BY <2>1, <3>2
      <4> QED BY <1>4, <3>2, <4>1
    <3> QED BY <1>4, <3>1, <3>2 DEF Known
  <2>4. Single' BY <1>4 DEF Single
  <2> QED BY <2>2, <2>3, <2>4
<1> QED BY <1>3, <1>4 DEF Orderly

LEMMA OrderlyStep == Sound /\ Orderly /\ [Next]_vars => Orderly'
<1> SUFFICES ASSUME Sound, Orderly, [Next]_vars PROVE Orderly' OBVIOUS
<1>1. QueueOK BY TypesApart DEF Sound, QueueOK
<1>2. consumer \in [Consumers -> Passes] BY <1>1 DEF QueueOK, QueueTypes
<1>3. ASSUME NEW c \in Consumers, Load(c) PROVE Orderly'
  <2>1. PICK r : r = [at |-> "line", line |-> 1, last |-> Len(outbox), consumed |-> consumed, open |-> open]
    OBVIOUS
  <2>2. r.at = "line" /\ r.open = open BY <2>1
  <2>3. Set(c, r) /\ UNCHANGED <<outbox, open, board, lost>> BY <1>3, <2>1 DEF Load, files
  <2>4. consumer'[c] = r /\ \A d \in Consumers : d # c => consumer'[d] = consumer[d] BY <1>2, <2>3 DEF Set
  <2>5. ~overlapped' => ~overlapped /\ \A d \in Consumers : consumer[d].at = "idle" BY <1>3 DEF Load
  <2>6. ASSUME \A d \in Consumers : consumer[d].at = "idle" PROVE Alone' /\ View'
    <3>1. \A d \in Consumers : consumer'[d].at # "idle" => d = c BY <2>4, <2>6
    <3> QED BY <2>2, <2>3, <2>4, <3>1 DEF Alone, View, Busy
  <2>7. ASSUME \A d \in Consumers : consumer[d].at = "idle", Known PROVE Known'
    <3>1. \A t \in Tasks : board[t] # None => outbox[t].site \in open BY <2>7 DEF Known
    <3> QED BY <2>3, <3>1 DEF Known
  <2>8. Single => Single' BY <2>3 DEF Single
  <2> QED BY <2>3, <2>5, <2>6, <2>7, <2>8 DEF Orderly
<1>4. ASSUME NEW c \in Consumers, SkipLine(c) \/ RepairFails(c) PROVE Orderly'
  <2>1. Repairing(c) /\ UNCHANGED <<outbox, open, board, overlapped, lost>>
    BY <1>4 DEF SkipLine, RepairFails, Wanted, files
  <2>2. consumer[c].at = "line" /\ Busy(c) BY <2>1 DEF Repairing, Busy
  <2>3. PICK r \in {Ack(c), [consumer[c] EXCEPT !.line = @ + 1]} : Set(c, r)
    BY <1>4 DEF SkipLine, RepairFails
  <2>4. r.at = "line" /\ r.open = consumer[c].open
    <3>1. CASE r = Ack(c) BY <1>1, <2>1, <3>1, AckIsPass
    <3>2. CASE r = [consumer[c] EXCEPT !.line = @ + 1] BY <1>2, <2>2, <3>2 DEF Passes
    <3> QED BY <3>1, <3>2
  <2>5. CASE overlapped \/ lost
    <3>1. Alone => Alone'
      <4>1. \A d \in Consumers : consumer'[d].at # "idle" => consumer[d].at # "idle"
        BY <1>2, <2>2, <2>3 DEF Set
      <4> QED BY <4>1 DEF Alone, Busy
    <3> QED BY <2>1, <2>5, <3>1 DEF Orderly
  <2>6. CASE ~overlapped /\ ~lost
    <3>1. open' \subseteq r.open BY <2>1, <2>2, <2>4, <2>6 DEF Orderly, View
    <3> QED BY <2>1, <2>2, <2>3, <2>4, <3>1, PassOrderly
  <2> QED BY <2>5, <2>6
<1>5. ASSUME NEW c \in Consumers, WriteOpen(c) PROVE Orderly'
  <2>1. consumer[c].at = "open" /\ Busy(c) BY <1>5 DEF WriteOpen, Busy
  <2>2. PICK r : r = Ack(c) OBVIOUS
  <2>3. r.at = "line" /\ r.open = consumer[c].open BY <1>1, <2>1, <2>2, AckIsPass
  <2>4. Set(c, r) /\ open' = consumer[c].open /\ UNCHANGED <<outbox, board, overlapped, lost>>
    BY <1>5, <2>2 DEF WriteOpen
  <2>5. Task(c).site \in open' BY <1>1, <2>1, <2>4 DEF QueueOK, LinesOK
  <2>6. CASE overlapped \/ lost
    <3>1. Alone => Alone'
      <4>1. \A d \in Consumers : consumer'[d].at # "idle" => consumer[d].at # "idle"
        BY <1>2, <2>1, <2>4 DEF Set
      <4> QED BY <4>1 DEF Alone, Busy
    <3> QED BY <2>4, <2>6, <3>1 DEF Orderly
  <2>7. CASE ~overlapped /\ ~lost
    <3>1. open \subseteq open' BY <2>1, <2>4, <2>7 DEF Orderly, View
    <3> QED BY <2>1, <2>3, <2>4, <2>5, <2>7, <3>1, PassOrderly
  <2> QED BY <2>6, <2>7
<1>6. ASSUME NEW c \in Consumers, Save(c) PROVE Orderly'
  <2>1. consumer[c].at = "line" /\ Busy(c) BY <1>6 DEF Save, Busy
  <2>2. PICK r : r = Idle OBVIOUS
  <2>3. r.at = "idle" BY <2>2 DEF Idle
  <2>4. Set(c, r) /\ UNCHANGED <<outbox, open, board, overlapped, lost>> BY <1>6, <2>2 DEF Save
  <2>5. ~lost' => ~lost BY <2>4
  <2> QED BY <2>1, <2>3, <2>4, <2>5, PassOrderly
<1>7. ASSUME NEW c \in Consumers, CutOff(c) PROVE Orderly'
  <2>1. Busy(c) BY <1>7 DEF CutOff, Busy
  <2>2. PICK r : r = Idle OBVIOUS
  <2>3. Set(c, r) /\ lost' /\ UNCHANGED <<outbox, board, overlapped>> BY <1>7, <2>2 DEF CutOff, files
  <2> QED BY <2>1, <2>3, PassOrderly
<1>8. ASSUME NEW c \in Consumers, DispatchRepair(c) PROVE Orderly'
  <2>1. /\ Repairing(c) /\ Task(c).site \notin consumer[c].open /\ Accept(Line(c))
        /\ UNCHANGED <<outbox, open, overlapped, lost>>
    BY <1>8 DEF DispatchRepair, Wanted, files
  <2>2. consumer[c].at = "line" /\ Busy(c) BY <2>1 DEF Repairing, Busy
  <2>3. Line(c) \in Tasks BY <1>1, <2>1, LineIsThere
  <2>4. PICK r : r = [consumer[c] EXCEPT !.at = "open", !.open = @ \cup {Task(c).site}] OBVIOUS
  <2>5. r.at = "open" /\ r.line = Line(c) /\ r.open = consumer[c].open \cup {Task(c).site}
    BY <1>2, <2>4 DEF Passes, Line
  <2>6. consumer'[c] = r /\ \A d \in Consumers : d # c => consumer'[d] = consumer[d]
    BY <1>2, <1>8, <2>4 DEF DispatchRepair, Set
  <2>7. \A t \in Tasks : t # Line(c) => board'[t] = board[t]
    BY <2>1, <1>1 DEF Accept, QueueOK, QueueTypes
  <2>8. Alone => Alone'
    <3>1. \A d \in Consumers : consumer'[d].at # "idle" => consumer[d].at # "idle" BY <2>2, <2>6
    <3> QED BY <3>1 DEF Alone, Busy
  <2>9. ASSUME Alone, Known, View, Single PROVE Known' /\ View' /\ Single'
    <3>1. \A d \in Consumers : d # c => consumer[d].at = "idle" /\ consumer'[d].at = "idle"
      BY <2>2, <2>6, <2>9, OthersIdle
    <3>2. open \subseteq consumer[c].open BY <2>2, <2>9 DEF View
    <3>3. \A t \in Tasks : board[t] # None => outbox[t].site \in open BY <2>2, <2>9, <3>1 DEF Known
    <3>4. \A t \in Tasks : board[t] # None => outbox[t].site # outbox[Line(c)].site
      BY <2>1, <3>2, <3>3 DEF Task
    <3>5. View' BY <2>1, <2>5, <2>6, <3>1, <3>2 DEF View, Busy
    <3>6. Single' BY <2>1, <2>7, <3>4, <2>9 DEF Single
    <3>7. Known'
      <4> SUFFICES ASSUME NEW t \in Tasks, board'[t] # None
                   PROVE  \/ outbox[t].site \in open
                          \/ \E d \in Consumers :
                               consumer'[d].at = "open" /\ outbox[t].site = outbox[consumer'[d].line].site
        BY <2>1 DEF Known, Task, Line
      <4>1. CASE t = Line(c) BY <2>5, <2>6, <4>1
      <4>2. CASE t # Line(c) BY <2>7, <3>3, <4>2
      <4> QED BY <4>1, <4>2
    <3> QED BY <3>5, <3>6, <3>7
  <2> QED BY <2>1, <2>8, <2>9 DEF Orderly
<1>9. ASSUME NEW t \in Tasks, Repair(t) PROVE Orderly'
  <2>1. \A u \in Tasks : board'[u] # None => board[u] # None
    BY <1>1, <1>9 DEF Repair, QueueOK, QueueTypes
  <2>2. UNCHANGED <<consumer, open, overlapped, lost>> BY <1>9 DEF Repair, files
  <2> QED BY <2>1, <2>2, OthersOrderly
<1>10. ASSUME ~(\E t \in Tasks : Repair(t)), ~\E c \in Consumers : Consume(c) \/ RepairFails(c) \/ CutOff(c)
       PROVE  UNCHANGED <<consumer, open, board, overlapped, lost>>
  BY <1>10 DEF Next, Deploy, Bootstrap, Break, AddSite, RegisterSites, ObserveAll, JudgeAll,
     DeployFails, Post, Probe, Record, Evaluate, FindDrift, CreateTask, MirrorBuild, queue, files, vars
<1>11. CASE UNCHANGED <<consumer, open, board, overlapped, lost>>
  <2>1. \A t \in Tasks : board'[t] # None => board[t] # None BY <1>11
  <2> QED BY <1>11, <2>1, OthersOrderly
<1>12. ASSUME NEW c \in Consumers, Consume(c) \/ RepairFails(c) \/ CutOff(c) PROVE Orderly'
  BY <1>3, <1>4, <1>5, <1>6, <1>7, <1>8, <1>12 DEF Consume
<1> QED BY <1>9, <1>10, <1>11, <1>12

\* Tasks created anew by each drift call, and a list of consumed ids that forgets, make one
\* repair of a site at most (without REPAIR_CMD one brief), while passes neither overlap nor
\* are cut off.
THEOREM OneRepair == Spec => []OneRepairPerSite
<1>1. Init => Orderly
  <2> SUFFICES ASSUME Init PROVE Orderly OBVIOUS
  <2>1. \A c \in Consumers : consumer[c].at = "idle" BY DEF Init, Idle
  <2>2. \A t \in Tasks : board[t] = None BY DEF Init
  <2> QED BY <2>1, <2>2 DEF Orderly, Alone, Known, View, Single, Busy
<1>2. Sound /\ Orderly => OneRepairPerSite
  <2> SUFFICES ASSUME Sound, Orderly, ~overlapped, ~lost, NEW s \in Sites
               PROVE  Cardinality(RepairsOf(s)) <= 1
    BY DEF OneRepairPerSite
  <2>1. RepairsOf(s) \subseteq Tasks
    <3>1. outbox \in Seq(Entries) /\ Len(outbox) <= MaxTasks BY TypesApart DEF Sound, QueueTypes
    <3> QED BY <3>1, FleetAssumption DEF RepairsOf, Tasks
  <2>2. \A t, u \in RepairsOf(s) : t = u BY <2>1 DEF Orderly, Single, RepairsOf, Outcomes
  <2>3. CASE RepairsOf(s) = {} BY <2>3, FS_EmptySet
  <2>4. ASSUME NEW t \in RepairsOf(s) PROVE Cardinality(RepairsOf(s)) <= 1
    <3>1. RepairsOf(s) = {t} BY <2>2
    <3>2. Cardinality({t}) = 1 BY FS_Singleton
    <3> QED BY <3>1, <3>2
  <2> QED BY <2>3, <2>4
<1> QED BY <1>1, <1>2, OrderlyStep, AlwaysSound, PTL DEF Spec
=============================================================================
