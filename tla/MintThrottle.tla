--------------------------- MODULE MintThrottle ----------------------------
(***************************************************************************)
(* What the relay may count on from a plugin that mints device sessions:   *)
(* for one account, one handshake at a time, and no more than two started  *)
(* within any mintCooldown.  The second one is the re-mint after a 401,    *)
(* which mintCooldown does not hold back (internal/relaysig/ticket.go).    *)
(***************************************************************************)
EXTENDS Integers

CONSTANTS Accounts, Cooldown

VARIABLES
    busy,   \* a handshake of the account is under way
    last,   \* time until its latest start is a cooldown old, 0 when it is
    prev    \* the same of the start before

vars == <<busy, last, prev>>

Init ==
    /\ busy = [a \in Accounts |-> FALSE]
    /\ last = [a \in Accounts |-> 0]
    /\ prev = [a \in Accounts |-> 0]

Start(a) ==
    /\ ~busy[a]
    /\ prev[a] = 0
    /\ busy' = [busy EXCEPT ![a] = TRUE]
    /\ prev' = [prev EXCEPT ![a] = last[a]]
    /\ last' = [last EXCEPT ![a] = Cooldown]

Finish(a) ==
    /\ busy[a]
    /\ busy' = [busy EXCEPT ![a] = FALSE]
    /\ UNCHANGED <<last, prev>>

Tick ==
    /\ last' = [a \in Accounts |-> IF last[a] > 0 THEN last[a] - 1 ELSE 0]
    /\ prev' = [a \in Accounts |-> IF prev[a] > 0 THEN prev[a] - 1 ELSE 0]
    /\ UNCHANGED busy

Next == Tick \/ \E a \in Accounts : Start(a) \/ Finish(a)

Spec == Init /\ [][Next]_vars

=============================================================================
