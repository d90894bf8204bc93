------------------------- MODULE MCCredentialFiles -------------------------
(* Small instances of CredentialFiles. *)
EXTENDS CredentialFiles, TLC

CONSTANTS a1, a2, r1, r2

MCSymmetry == Permutations(Accounts) \cup Permutations(Requests)

=============================================================================
