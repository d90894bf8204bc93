---------------------- MODULE MCDeviceSessionRefusals -----------------------
(* A small instance of DeviceSessionRefusals: one account whose token rotates. *)
EXTENDS DeviceSessionRefusals, TLC

CONSTANTS s1, t1, t2, k1, k2, k3, r1, r2, m1, m2

MCRotation == t1 :> s1 @@ t2 :> s1

MCOneToken == t1 :> s1

MCSymmetry ==
    Permutations(TicketIds) \cup Permutations(Requests) \cup Permutations(Mints)

=============================================================================
