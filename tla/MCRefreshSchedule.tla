------------------------- MODULE MCRefreshSchedule -------------------------
(* A small instance of RefreshSchedule. *)
EXTENDS RefreshSchedule

MCNoExpiry == -1

=============================================================================
