----------------------------- MODULE ReleaseGate -----------------------------
(***************************************************************************)
(* What the release boundary promises: main receives a commit for a run    *)
(* only after a verifier passed that commit for that run, and neither a    *)
(* pass nor a promotion is ever undone.  No script, lock, branch or status *)
(* file appears here; ReleaseBoundary implements it.                       *)
(***************************************************************************)
CONSTANTS Runs, Commits

VARIABLES
  passed,   \* the <<run, commit>> pairs a verifier found PASS for
  promoted  \* the <<run, commit>> pairs merged into main

Init == passed = {} /\ promoted = {}

Pass(r, c) ==
  /\ passed' = passed \cup {<<r, c>>}
  /\ UNCHANGED promoted

Promote(r, c) ==
  /\ <<r, c>> \in passed
  /\ promoted' = promoted \cup {<<r, c>>}
  /\ UNCHANGED passed

Next == \E r \in Runs, c \in Commits : Pass(r, c) \/ Promote(r, c)

Spec == Init /\ [][Next]_<<passed, promoted>>
=============================================================================
