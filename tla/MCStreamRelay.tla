--------------------------- MODULE MCStreamRelay ---------------------------
(* A small instance of StreamRelay: every byte stream up to MaxBytes. *)
EXTENDS StreamRelay
=============================================================================
