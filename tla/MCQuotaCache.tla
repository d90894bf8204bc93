---------------------------- MODULE MCQuotaCache ---------------------------
(* A small instance of QuotaCache: an account, and as many probes as overlap. *)
EXTENDS QuotaCache

CONSTANTS a1, p1, p2, p3

=============================================================================
