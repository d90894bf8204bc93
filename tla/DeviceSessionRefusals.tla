----------------------- MODULE DeviceSessionRefusals -----------------------
(***************************************************************************)
(* DeviceSession with a count of the refusals Refused has acted on since   *)
(* the relay last accepted a signed request of the account, or the account *)
(* last stood down: the refusals "in a row" of ticket.go.                  *)
(***************************************************************************)
EXTENDS DeviceSession

VARIABLE inARow

counted == <<session, request, mint, inARow>>

TicketRefused(a) ==
    /\ \E r \in Requests : RefusalOf(r, a)
    /\ session[a].ticket # NoTicket
    /\ session'[a].ticket = NoTicket

SignedAccepted(a) ==
    \E r \in Requests :
        /\ Answered(r)
        /\ request[r].ticket # NoTicket
        /\ accountKey(request[r].token) = a

StandsDown(a) == session'[a].standDownUntil > session[a].standDownUntil

CountedInit == Init /\ inARow = [a \in Accounts |-> 0]

CountedNext ==
    /\ Next
    /\ inARow' = [a \in Accounts |->
            IF StandsDown(a) \/ SignedAccepted(a) THEN 0
            ELSE IF TicketRefused(a) THEN inARow[a] + 1
            ELSE inARow[a]]

CountedSpec == CountedInit /\ [][CountedNext]_counted

\* "Standing down after a few refusals turns a total outage into three lost
\* requests per backoff window": refusalsBeforeStandDown refusals in a row
\* put the account on the plain token (ticket.go, refusalsBeforeStandDown).
ThreeRefusalsStandDown ==
    \A a \in Accounts : inARow[a] < RefusalsBeforeStandDown

=============================================================================
