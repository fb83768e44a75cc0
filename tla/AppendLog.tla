------------------------------ MODULE AppendLog ------------------------------
(***************************************************************************)
(* What an event store promises its writers: nothing is ever removed, an   *)
(* event is acknowledged only after it is in the log, and it is added at   *)
(* most once, unless writers contest it: who looks an event up and then    *)
(* adds it holds nothing in between.  EventIngest implements it.           *)
(***************************************************************************)
EXTENDS Sequences

CONSTANT Events

VARIABLES
  lines,    \* the events in the order of the file
  acked,    \* the events whose writers have been answered
  contested \* the events two writers have been adding at one time

Init == lines = <<>> /\ acked = {} /\ contested = {}

Logged(e) == \E i \in DOMAIN lines : lines[i] = e

Add(e) ==
  /\ ~Logged(e) \/ e \in contested
  /\ lines' = Append(lines, e)
  /\ UNCHANGED <<acked, contested>>

\* One answer may acknowledge several events.
Ack(es) ==
  /\ \A e \in es : Logged(e)
  /\ acked' = acked \cup es
  /\ UNCHANGED <<lines, contested>>

Contest(es) ==
  /\ contested' = contested \cup es
  /\ UNCHANGED <<lines, acked>>

Next ==
  \/ \E e \in Events : Add(e)
  \/ \E es \in SUBSET Events : Ack(es) \/ Contest(es)

Spec == Init /\ [][Next]_<<lines, acked, contested>>
=============================================================================
