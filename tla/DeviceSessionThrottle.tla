----------------------- MODULE DeviceSessionThrottle -----------------------
(***************************************************************************)
(* DeviceSession with the ages of each account's last two mint starts, by  *)
(* which it is shown to implement MintThrottle.  The ages only observe:    *)
(* they guard nothing.                                                     *)
(***************************************************************************)
EXTENDS DeviceSession

VARIABLES lastMint, prevMint

observed == <<session, request, mint, lastMint, prevMint>>

\* This step starts a mint goroutine for account a.
StartsMint(a) ==
    \E m \in Mints :
        /\ mint[m].phase = "idle"
        /\ mint'[m].phase # "idle"
        /\ accountKey(mint'[m].token) = a

ObservedInit ==
    /\ Init
    /\ lastMint = [a \in Accounts |-> 0]
    /\ prevMint = [a \in Accounts |-> 0]

ObservedStep ==
    /\ \/ \E r \in Requests : RequestStep(r)
       \/ \E m \in Mints : MintStep(m)
    /\ lastMint' = [a \in Accounts |->
            IF StartsMint(a) THEN MintCooldown ELSE lastMint[a]]
    /\ prevMint' = [a \in Accounts |->
            IF StartsMint(a) THEN lastMint[a] ELSE prevMint[a]]

ObservedTick ==
    /\ Tick
    /\ lastMint' = [a \in Accounts |-> Sooner(lastMint[a])]
    /\ prevMint' = [a \in Accounts |-> Sooner(prevMint[a])]

ObservedNext == ObservedStep \/ ObservedTick

ObservedSpec == ObservedInit /\ [][ObservedNext]_observed

-----------------------------------------------------------------------------

MintAlive(a) == \E m \in Mints : MintOf(m, a)

Throttle == INSTANCE MintThrottle WITH
    Cooldown <- MintCooldown,
    busy <- [a \in Accounts |-> MintAlive(a)],
    last <- lastMint,
    prev <- prevMint

\* One handshake at a time and at most two started within a mintCooldown,
\* however many requests are refused, however late their 401s arrive, and
\* however the account's token rotates.
ImplementsThrottle == Throttle!Spec

\* Why: while two starts are within the cooldown, the later one still holds
\* nextAttempt back, and the 401 that let it come early still holds the next
\* 401 back (refusedNotBefore).
EarlyMintIsPaidFor ==
    \A a \in Accounts :
        LET s == session[a]
        IN  /\ prevMint[a] <= lastMint[a]
            /\ prevMint[a] > 0 =>
                s.refusedNotBefore >= prevMint[a] /\ s.nextAttempt >= lastMint[a]
            /\ s.nextAttempt < lastMint[a] => s.refusedNotBefore >= lastMint[a]

=============================================================================
