--------------------------- MODULE MCLoginSession --------------------------
(* Small instances of LoginSession. *)
EXTENDS LoginSession, TLC

CONSTANTS s1, s2, e1, e2, h1, h2, p1, p2

MCSymmetry ==
    Permutations(States) \cup Permutations(Emails)
        \cup Permutations(Handlers) \cup Permutations(Pollers)

=============================================================================
