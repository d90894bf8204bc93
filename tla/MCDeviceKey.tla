---------------------------- MODULE MCDeviceKey ----------------------------
(* A small instance of DeviceKey. *)
EXTENDS DeviceKey, TLC

CONSTANTS c1, c2

MCSymmetry == Permutations(Callers)

=============================================================================
