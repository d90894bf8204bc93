--------------------------- MODULE MCConsolePage ---------------------------
(* A small instance of ConsolePage. *)
EXTENDS ConsolePage, TLC

CONSTANTS a1, a2, c1, c2

MCSymmetry == Permutations(Calls)

=============================================================================
