-------------------------- MODULE MCRegistryHarvest --------------------------
(* Instances of RegistryHarvest for TLC. *)
EXTENDS RegistryHarvest, TLC

CONSTANTS i1, i2, d1, d2, h1

TaskIdeas == [t \in Tasks |-> i1]
OneBatch == {{i1, i2}}
OneDraftFile == {{d1, d2}}
OneId == [d \in Drafts |-> h1]
=============================================================================
