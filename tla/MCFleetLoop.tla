------------------------------ MODULE MCFleetLoop ------------------------------
(* Instances of FleetLoop for TLC. *)
EXTENDS FleetLoop, TLC
=============================================================================
