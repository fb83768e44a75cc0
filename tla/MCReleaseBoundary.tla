-------------------------- MODULE MCReleaseBoundary --------------------------
(* Instances of ReleaseBoundary for TLC: one idea, and how often each kind of
   intervention happens in a run. *)
EXTENDS ReleaseBoundary, TLC

CONSTANT idea

OneIdea == [r \in Runs |-> idea]
Symmetry == Permutations(Workers) \cup Permutations(Runs)

Limits(k, n) == [kinds \in SUBSET Kinds |-> [j \in Kinds |->
                   IF j \in kinds THEN k ELSE IF j = "move" THEN n ELSE 0]]
Undisturbed == Limits(0, 2)[{}]
OperatorAndEdits == [Limits(1, 1)[{"spec", "suite"}] EXCEPT !["operator"] = 2]
KillsAndCrashes == Limits(1, 1)[{"kill", "crash"}]
=============================================================================
