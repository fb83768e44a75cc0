---------------------------- MODULE EventLogProofs ----------------------------
(***************************************************************************)
(* Theorems about EventLog for any number of writers: its types, that the  *)
(* lock directory is never left behind by live writers, and that it keeps  *)
(* lines whole unless it was stolen from a live writer.                    *)
(***************************************************************************)
EXTENDS EventLog, TLAPS

USE DEF Goto, lock

LEMMA TypeStep ==
  ASSUME TypeOK, [Next]_vars
  PROVE  TypeOK'
<1> USE WriterAssumption, KillAssumption DEF TypeOK, PCs, Acquiring, Holding, Ended
<1>1. ASSUME NEW w \in Writers, Step(w) PROVE TypeOK'
  <2>1. CASE Mkdir(w) BY <2>1 DEF Mkdir
  <2>2. CASE WriteOwner(w) BY <2>2 DEF WriteOwner
  <2>3. CASE StatOwner(w) BY <2>3 DEF StatOwner
  <2>4. CASE Steal(w) BY <2>4 DEF Steal, Remove
  <2>5. CASE Write(w) BY <2>5 DEF Write, Chunk
  <2>6. CASE WriteRest(w) BY <2>6 DEF WriteRest, Chunk
  <2>7. CASE CheckOwner(w) BY <2>7 DEF CheckOwner
  <2>8. CASE Release(w) BY <2>8 DEF Release, Remove
  <2> QED BY <1>1, <2>1, <2>2, <2>3, <2>4, <2>5, <2>6, <2>7, <2>8 DEF Step
<1>2. ASSUME NEW w \in Writers, Call(w) PROVE TypeOK' BY <1>2 DEF Call
<1>3. ASSUME NEW w \in Writers, Kill(w) PROVE TypeOK' BY <1>3 DEF Kill
<1>4. CASE Age BY <1>4 DEF Age
<1>5. CASE UNCHANGED vars BY <1>5 DEF vars
<1> QED BY <1>1, <1>2, <1>3, <1>4, <1>5 DEF Next

\* The log, the lock and the calls stay within their types, and there is an owner file
\* only inside a lock directory.
THEOREM TypeCorrect == Spec => []TypeOK
<1>1. Init => TypeOK
  <2>1. <<>> \in Seq(Chunk) OBVIOUS
  <2>2. Kills \in 0 .. Kills BY KillAssumption
  <2> SUFFICES ASSUME Init PROVE TypeOK OBVIOUS
  <2>3. log \in Seq(Chunk) BY <2>1 DEF Init
  <2>4. kills \in 0 .. Kills BY <2>2 DEF Init
  <2>5. pc \in [Writers -> PCs] BY DEF Init, PCs
  <2> QED BY <2>3, <2>4, <2>5 DEF Init, TypeOK
<1>2. TypeOK /\ [Next]_vars => TypeOK' BY TypeStep
<1> QED BY <1>1, <1>2, PTL DEF Spec
-----------------------------------------------------------------------------
(* The lock directory is not left behind                                   *)

LEMMA AwaitedStep ==
  ASSUME TypeOK, LockAwaited, [Next]_vars
  PROVE  LockAwaited'
<1> USE WriterAssumption DEF TypeOK, LockAwaited
<1>1. ASSUME NEW w \in Writers, Step(w) PROVE LockAwaited'
  <2>1. CASE Mkdir(w) BY <2>1 DEF Mkdir
  <2>2. CASE WriteOwner(w) BY <2>2 DEF WriteOwner
  <2>3. CASE StatOwner(w) BY <2>3 DEF StatOwner
  <2>4. CASE Steal(w) BY <2>4 DEF Steal, Remove
  <2>5. CASE Write(w) BY <2>5 DEF Write
  <2>6. CASE WriteRest(w) BY <2>6 DEF WriteRest
  <2>7. CASE CheckOwner(w) BY <2>7 DEF CheckOwner
  <2>8. CASE Release(w) BY <2>8 DEF Release, Remove
  <2> QED BY <1>1, <2>1, <2>2, <2>3, <2>4, <2>5, <2>6, <2>7, <2>8 DEF Step
<1>2. ASSUME NEW w \in Writers, Call(w) PROVE LockAwaited' BY <1>2 DEF Call
<1>3. ASSUME NEW w \in Writers, Kill(w) PROVE LockAwaited' BY <1>3, KillAssumption DEF Kill
<1>4. CASE Age BY <1>4 DEF Age
<1>5. CASE UNCHANGED vars BY <1>5 DEF vars
<1> QED BY <1>1, <1>2, <1>3, <1>4, <1>5 DEF Next

\* Unless a writer was killed, the lock directory is gone when every call has ended, however
\* the writers have stolen it from one another.
THEOREM LockIsReleased == Spec => []LockSettles
<1>1. Init => LockAwaited BY DEF Init, LockAwaited
<1>2. TypeOK /\ LockAwaited /\ [Next]_vars => LockAwaited'
  BY AwaitedStep
<1>3. TypeOK /\ LockAwaited => LockSettles
  BY WriterAssumption DEF TypeOK, LockAwaited, LockSettles, Ended
<1> QED BY <1>1, <1>2, <1>3, TypeCorrect, PTL DEF Spec
-----------------------------------------------------------------------------
(* Lines are whole unless a live writer was robbed                         *)

\* The lock lets one writer in, and what it writes in two pieces stays together.
WholeInv == OneInside /\ LinesAreWhole

\* Who was not inside before a step and is inside after it has made the directory.
LEMMA InsideStep ==
  ASSUME TypeOK, OneInside, NEW w \in Writers, Step(w) \/ Call(w) \/ Kill(w), ~robbed'
  PROVE  /\ ~robbed
         /\ \A v \in Writers \ {w} : pc'[v] = pc[v]
         /\ pc'[w] \in Inside =>
              /\ dir'
              /\ \/ pc[w] \in Inside
                 \/ \A v \in Writers : pc[v] \notin Inside
         /\ (\E v \in Writers \ {w} : pc[v] \in Inside) => dir' = dir
<1> USE DEF TypeOK, OneInside, Inside, Holding
<1>1. CASE Mkdir(w) BY <1>1 DEF Mkdir
<1>2. CASE WriteOwner(w) BY <1>2 DEF WriteOwner
<1>3. CASE StatOwner(w) BY <1>3 DEF StatOwner
<1>4. CASE Steal(w) BY <1>4 DEF Steal, Remove
<1>5. CASE Write(w) BY <1>5 DEF Write
<1>6. CASE WriteRest(w) BY <1>6 DEF WriteRest
<1>7. CASE CheckOwner(w) BY <1>7 DEF CheckOwner
<1>8. CASE Release(w) BY <1>8 DEF Release, Remove
<1>9. CASE Call(w) BY <1>9 DEF Call
<1>10. CASE Kill(w) BY <1>10 DEF Kill, Acquiring
<1> QED BY <1>1, <1>2, <1>3, <1>4, <1>5, <1>6, <1>7, <1>8, <1>9, <1>10 DEF Step

\* Where the file changes, one writer appends a piece of its own line.
LEMMA LogStep ==
  ASSUME TypeOK, NEW w \in Writers, Step(w) \/ Call(w) \/ Kill(w)
  PROVE  \/ log' = log /\ (pc'[w] = "rest" => pc[w] = "rest")
         \/ /\ pc[w] = "write" /\ log' = Append(log, [event |-> w, part |-> 1])
         \/ /\ pc[w] = "rest" /\ pc'[w] = "check"
            /\ log' = Append(log, [event |-> w, part |-> 2])
<1> USE DEF TypeOK
<1>1. CASE Write(w) BY <1>1 DEF Write
<1>2. CASE WriteRest(w) BY <1>2 DEF WriteRest
<1>3. CASE Mkdir(w) \/ WriteOwner(w) \/ StatOwner(w) \/ CheckOwner(w)
  BY <1>3 DEF Mkdir, WriteOwner, StatOwner, CheckOwner
<1>4. CASE Steal(w) \/ Release(w) BY <1>4 DEF Steal, Release, Remove
<1>5. CASE Call(w) \/ Kill(w) BY <1>5 DEF Call, Kill
<1> QED BY <1>1, <1>2, <1>3, <1>4, <1>5 DEF Step

LEMMA WholeWriter ==
  ASSUME TypeOK, WholeInv, NEW w \in Writers, Step(w) \/ Call(w) \/ Kill(w)
  PROVE  WholeInv'
<1>1. CASE robbed' BY <1>1 DEF WholeInv, OneInside, LinesAreWhole
<1>2. CASE ~robbed'
  <2>1. /\ ~robbed
        /\ \A v \in Writers \ {w} : pc'[v] = pc[v]
        /\ pc'[w] \in Inside =>
             /\ dir'
             /\ \/ pc[w] \in Inside
                \/ \A v \in Writers : pc[v] \notin Inside
        /\ (\E v \in Writers \ {w} : pc[v] \in Inside) => dir' = dir
    BY <1>2, InsideStep DEF WholeInv
  <2>2. \A u, v \in Writers : pc'[u] \in Inside /\ pc'[v] \in Inside => u = v
    BY <2>1 DEF WholeInv, OneInside
  <2>3. ASSUME NEW v \in Writers, pc'[v] \in Inside PROVE dir'
    <3>1. CASE v = w BY <2>1, <2>3, <3>1
    <3>2. CASE v # w
      <4>1. pc[v] \in Inside BY <2>1, <2>3, <3>2
      <4>2. dir BY <2>1, <4>1 DEF WholeInv, OneInside
      <4> QED BY <2>1, <3>2, <4>1, <4>2
    <3> QED BY <3>1, <3>2
  <2>4. ASSUME NEW p \in {1, 2}, log' = Append(log, [event |-> w, part |-> p])
        PROVE  /\ Len(log) \in Nat /\ Len(log') = Len(log) + 1
               /\ log' # <<>> /\ log'[Len(log')] = [event |-> w, part |-> p]
               /\ \A i \in 1 .. Len(log) : log'[i] = log[i]
               /\ DOMAIN log' = 1 .. (Len(log) + 1) /\ DOMAIN log = 1 .. Len(log)
    <3>1. [event |-> w, part |-> p] \in Chunk BY DEF Chunk
    <3> QED BY <2>4, <3>1 DEF TypeOK
  <2>5. CASE log' = log /\ (pc'[w] = "rest" => pc[w] = "rest")
    BY <1>2, <2>1, <2>2, <2>3, <2>5 DEF WholeInv, OneInside, LinesAreWhole
  <2>6. CASE pc[w] = "write" /\ log' = Append(log, [event |-> w, part |-> 1])
    <3>1. \A v \in Writers \ {w} : pc'[v] # "rest"
      BY <2>1, <2>6 DEF WholeInv, OneInside, Inside, Holding
    <3>2. OneInside' BY <2>2, <2>3, <2>4, <2>6, <3>1 DEF OneInside
    <3>3. ASSUME NEW i \in DOMAIN log', log'[i].part = 2
          PROVE  i > 1 /\ log'[i - 1] = [event |-> log'[i].event, part |-> 1]
      <4>1. i \in 1 .. Len(log) BY <2>4, <2>6, <3>3
      <4>2. i > 1 /\ log[i - 1] = [event |-> log[i].event, part |-> 1]
        BY <2>1, <2>4, <2>6, <3>3, <4>1 DEF WholeInv, LinesAreWhole
      <4> QED BY <2>4, <2>6, <4>1, <4>2
    <3> QED BY <3>2, <3>3 DEF WholeInv, LinesAreWhole
  <2>7. CASE /\ pc[w] = "rest" /\ pc'[w] = "check"
             /\ log' = Append(log, [event |-> w, part |-> 2])
    <3>1. \A v \in Writers : pc'[v] # "rest"
      BY <2>1, <2>7 DEF WholeInv, OneInside, Inside, Holding
    <3>2. OneInside' BY <2>2, <2>3, <3>1 DEF OneInside
    <3>3. log # <<>> /\ log[Len(log)] = [event |-> w, part |-> 1]
      BY <2>1, <2>7 DEF WholeInv, OneInside
    <3>4. Len(log) > 0 BY <3>3 DEF TypeOK
    <3>5. ASSUME NEW i \in DOMAIN log', log'[i].part = 2
          PROVE  i > 1 /\ log'[i - 1] = [event |-> log'[i].event, part |-> 1]
      <4>1. CASE i = Len(log) + 1
        <5>1. PICK n \in Nat : n = Len(log) BY <2>4, <2>7
        <5>2. n > 0 /\ i - 1 = n /\ i > 1 BY <3>4, <4>1, <5>1
        <5>3. \A j \in 1 .. n : log'[j] = log[j] BY <2>4, <2>7, <5>1
        <5>a. n \in 1 .. n BY <5>2
        <5>b. log[n] = [event |-> w, part |-> 1] BY <3>3, <5>1
        <5>c. log'[n] = [event |-> w, part |-> 1] BY <5>3, <5>a, <5>b
        <5>4. log'[i] = [event |-> w, part |-> 2] BY <2>4, <2>7, <4>1
        <5> QED BY <5>2, <5>c, <5>4
      <4>2. CASE i # Len(log) + 1
        <5>1. i \in 1 .. Len(log) BY <2>4, <2>7, <3>5, <4>2
        <5>2. i > 1 /\ log[i - 1] = [event |-> log[i].event, part |-> 1]
          BY <2>1, <2>4, <2>7, <3>5, <5>1 DEF WholeInv, LinesAreWhole
        <5> QED BY <2>4, <2>7, <5>1, <5>2
      <4> QED BY <4>1, <4>2
    <3> QED BY <3>2, <3>5 DEF WholeInv, LinesAreWhole
  <2> QED BY <2>5, <2>6, <2>7, LogStep
<1> QED BY <1>1, <1>2

\* Whoever is killed, and whatever is stolen from the dead: no other writer's line gets into
\* the middle of a line, unless a thief took the lock of a live writer.
THEOREM WholeLines == Spec => []LinesAreWhole
<1>1. Init => WholeInv
  BY DEF Init, WholeInv, OneInside, LinesAreWhole, Inside, Holding
<1>2. TypeOK /\ WholeInv /\ [Next]_vars => WholeInv'
  <2> SUFFICES ASSUME TypeOK, WholeInv, [Next]_vars PROVE WholeInv' OBVIOUS
  <2>1. CASE Age BY <2>1 DEF Age, WholeInv, OneInside, LinesAreWhole
  <2>2. CASE UNCHANGED vars BY <2>2 DEF vars, WholeInv, OneInside, LinesAreWhole
  <2> QED BY <2>1, <2>2, WholeWriter DEF Next
<1>3. WholeInv => LinesAreWhole BY DEF WholeInv
<1> QED BY <1>1, <1>2, <1>3, TypeCorrect, PTL DEF Spec
=============================================================================
