------------------------- MODULE DeviceSessionLive -------------------------
(***************************************************************************)
(* What DeviceSession eventually does.  Time passes and the runtime        *)
(* schedules a waiting request: that is LiveSpec.  Where more is needed    *)
(* the property assumes it: that the host's HTTP call of a mint returns,   *)
(* that callers keep asking and the relay does not turn every handshake    *)
(* down.                                                                   *)
(***************************************************************************)
EXTENDS DeviceSession

SchedulingFairness ==
    /\ WF_vars(Tick)
    /\ \A r \in Requests : WF_vars(AwaitCheck(r)) /\ WF_vars(AwaitPoll(r))

AnswerFairness == \A m \in Mints : WF_vars(MintStep(m))

DemandFairness ==
    /\ \A r \in Requests :
        /\ \A tok \in Tokens : SF_vars(SignNow(r, tok) \/ BeginWait(r, tok))
        /\ WF_vars(Answered(r) \/ Answered401(r))
    /\ \A tok \in Tokens :
        SF_vars(\E m \in Mints : mint[m].token = tok /\ MintSucceeds(m))

LiveSpec == Spec /\ SchedulingFairness

\* "The wait is bounded, so a relay that hangs on the handshake still gets the
\* plain token instead of a stalled request" (Sign): a caller of Sign goes on
\* to send its request whatever the relay does with the mint.
SignReturns ==
    \A r \in Requests :
        request[r].phase \in {"checking", "sleeping"} ~> request[r].phase = "sent"

\* "Every exit path has to clear the minting flag" (mint): if the HTTP calls of
\* mints return, an account that mints becomes free to mint again.
MintingEnds ==
    AnswerFairness => \A a \in Accounts : session[a].minting ~> ~session[a].minting

\* No sequence of refusals, expiries, failures and stand-downs wedges an
\* account: with callers that use each of its tokens again and again and a relay
\* that grants a ticket now and then, it has a ticket to sign with again and
\* again.
SessionRecovers ==
    AnswerFairness /\ DemandFairness => \A a \in Accounts : []<>Usable(session[a])

=============================================================================
