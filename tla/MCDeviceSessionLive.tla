------------------------ MODULE MCDeviceSessionLive -------------------------
(* A small instance of DeviceSessionLive: one account. *)
EXTENDS DeviceSessionLive, TLC

CONSTANTS s1, t1, k1, k2, k3, r1, r2, m1, m2

MCOneToken == t1 :> s1

=============================================================================
