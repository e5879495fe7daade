------------------------- MODULE MCDeviceCommander -------------------------
(* Instances of DeviceCommander for TLC. *)
EXTENDS DeviceCommander, TLC

\* Threads are alike, and no liveness is checked.
Symmetry == Permutations(Threads)

=============================================================================
