-------------------------- MODULE MCFactoryAdmission --------------------------
(* Instances of FactoryAdmission for TLC. *)
EXTENDS FactoryAdmission, TLC

CONSTANTS i1, i2, i3

TwoIdeas == <<i1, i2>>
ThreeIdeas == <<i1, i2, i3>>

\* All ideas are admitted, or all but the best.
MCSuites == {{i1, i2}, {i2}}
=============================================================================
