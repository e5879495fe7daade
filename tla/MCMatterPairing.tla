-------------------------- MODULE MCMatterPairing --------------------------
(* Instances of MatterPairing for TLC.  Two of the rows are one physical    *)
(* device seen by two hubs.                                                 *)
EXTENDS MatterPairing

CONSTANTS d1, d2

MCDevices == {d1, d2}
SameMac == [d \in MCDevices |-> "m1"]
=============================================================================
