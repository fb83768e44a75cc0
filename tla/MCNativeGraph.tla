---------------------------- MODULE MCNativeGraph ----------------------------
(* Instances of NativeGraph for TLC: two versions of the event that starts a build, the event
   that completes it, the same from the supervisor, whose system the contract does not know,
   and optionally a second start of the same build. *)
EXTENDS NativeGraph, TLC

CONSTANTS a1, a2, b1, c1, bad, a, b, c

MCEnvelopes == {a1, a2, b1, c1, bad}
MCId == (a1 :> a) @@ (a2 :> a) @@ (b1 :> b) @@ (c1 :> c) @@ (bad :> b)
MCType == (a1 :> "build_started") @@ (a2 :> "build_started") @@ (b1 :> "build_completed")
            @@ (c1 :> "build_started") @@ (bad :> "build_completed")
MCSystem == [e \in MCEnvelopes |-> IF e = bad THEN "foundry-supervisor" ELSE "builda-v2"]
MCSubject == [e \in MCEnvelopes |-> "build"]
MCBatches == {<<e>> : e \in MCEnvelopes \ {bad, c1}} \cup {<<a1, b1>>, <<b1, a2>>, <<bad, c1>>}

Symmetry == Permutations(Requests)
=============================================================================
