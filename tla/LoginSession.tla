--------------------------- MODULE LoginSession ----------------------------
(***************************************************************************)
(* One-time-code logins: internal/auth/session.go with its callers, the    *)
(* login page's handlers (internal/management/login.go) and the host's     *)
(* auth.login.start and auth.login.poll (internal/auth/auth.go).           *)
(*                                                                         *)
(* A caller first looks its session up and then works on it, each in a     *)
(* critical section of its own, with a call to the sign-in backend in      *)
(* between: the session it holds may have been consumed, expired or shut   *)
(* down meanwhile.  A login of that kind is no longer listed, but it is    *)
(* still an object its holders change.  The backend acts between the call  *)
(* and its answer: a code goes out, or is judged, before the handler has   *)
(* written that down, and the answer may still be lost.                    *)
(***************************************************************************)
EXTENDS Integers, FiniteSets

CONSTANTS
    States,             \* the random states newState returns, never twice
    Emails,
    Handlers,           \* requests of the login page being served
    Pollers,            \* auth.login.poll calls being served
    NoState, NoEmail,
    SessionTTL, MaxVerifyAttempts

ASSUME NullAssumption == NoState \notin States /\ NoEmail \notin Emails

ASSUME LimitAssumption == SessionTTL \in Nat \ {0} /\ MaxVerifyAttempts \in Nat \ {0}

ASSUME HandlersAssumption == IsFiniteSet(Handlers)

VARIABLES
    login,      \* the Session of each state, and whether sessions lists it
    handler,    \* the page's requests
    poller,     \* the host's polls
    guesses,    \* of a login: what the backend has judged for an email since it
                \* last sent that email a code (history, no step depends on it)
    handed      \* how often a login's credential was handed back

vars == <<login, handler, poller, guesses, handed>>

\* left is the time until now is after expiresAt, 0 once it is; tokens is
\* whether a verified token pair is there for the poll.
NewSession ==
    [started |-> FALSE, listed |-> FALSE, left |-> 0, email |-> NoEmail,
     codeSent |-> FALSE, attempts |-> 0, tokens |-> FALSE, failed |-> FALSE]

IdleHandler == [phase |-> "idle", state |-> NoState, email |-> NoEmail]

IdlePoller == [phase |-> "idle", state |-> NoState]

Init ==
    /\ login = [s \in States |-> NewSession]
    /\ handler = [h \in Handlers |-> IdleHandler]
    /\ poller = [p \in Pollers |-> IdlePoller]
    /\ guesses = [s \in States |-> [e \in Emails |-> 0]]
    /\ handed = [s \in States |-> 0]

-----------------------------------------------------------------------------
(* The sessions map *)

Live(s) == login[s].listed /\ login[s].left > 0

\* pruneLocked
Pruned == [s \in States |-> [login[s] EXCEPT !.listed = Live(s)]]

\* LookupSession for a state that is unknown or expired, or by a request that
\* is then turned down for its email or its empty code: an error answer.
LookupMiss ==
    /\ login' = Pruned
    /\ UNCHANGED <<handler, poller, guesses, handed>>

LoginStart(s) ==
    /\ ~login[s].started
    /\ login' = [Pruned EXCEPT ![s] =
            [NewSession EXCEPT !.started = TRUE, !.listed = TRUE, !.left = SessionTTL]]
    /\ UNCHANGED <<handler, poller, guesses, handed>>

Shutdown ==
    /\ login' = [s \in States |-> [login[s] EXCEPT !.listed = FALSE]]
    /\ UNCHANGED <<handler, poller, guesses, handed>>

\* sessionTTL runs down; nothing happens to the session until it is looked up.
Tick ==
    /\ login' = [s \in States |->
            [login[s] EXCEPT !.left = IF @ > 0 THEN @ - 1 ELSE 0]]
    /\ UNCHANGED <<handler, poller, guesses, handed>>

-----------------------------------------------------------------------------
(* handleLoginCode and handleLoginVerify *)

Enter(h, s, phase, e) ==
    /\ handler[h].phase = "idle"
    /\ Live(s)
    /\ login' = Pruned
    /\ handler' = [handler EXCEPT ![h] = [phase |-> phase, state |-> s, email |-> e]]
    /\ UNCHANGED <<poller, guesses, handed>>

Leave(h) == handler' = [handler EXCEPT ![h] = IdleHandler]

AskCode(h, s, e) == Enter(h, s, "asking", e)

\* The backend sends the email a code; RequestCode has not returned yet.
CodeGoesOut(h) ==
    /\ handler[h].phase = "asking"
    /\ handler' = [handler EXCEPT ![h].phase = "sent"]
    /\ guesses' = [guesses EXCEPT ![handler[h].state][handler[h].email] = 0]
    /\ UNCHANGED <<login, poller, handed>>

\* Mutant: a code for a new email discards the tokens of an old one.
MarkCodeSentAnew(h) ==
    /\ handler[h].phase = "sent"
    /\ login' = [login EXCEPT ![handler[h].state] = [@ EXCEPT
            !.email = handler[h].email, !.codeSent = TRUE, !.attempts = 0,
            !.tokens = FALSE]]
    /\ Leave(h)
    /\ UNCHANGED <<poller, guesses, handed>>

MarkCodeSent(h) ==
    /\ handler[h].phase = "sent"
    /\ login' = [login EXCEPT ![handler[h].state] = [@ EXCEPT
            !.email = handler[h].email, !.codeSent = TRUE, !.attempts = 0]]
    /\ Leave(h)
    /\ UNCHANGED <<poller, guesses, handed>>

\* Mutant: a resend that could not be sent opens a new budget as well.
CodeNotSentForgiven(h) ==
    /\ handler[h].phase \in {"asking", "sent"}
    /\ login' = [login EXCEPT ![handler[h].state].attempts = 0]
    /\ Leave(h)
    /\ UNCHANGED <<poller, guesses, handed>>

\* RequestCode returns an error, which does not say that no code went out.
CodeNotSent(h) ==
    /\ handler[h].phase \in {"asking", "sent"}
    /\ Leave(h)
    /\ UNCHANGED <<login, poller, guesses, handed>>

AskVerify(h, s) == Enter(h, s, "booking", NoEmail)

\* Mutant: a code is verified whether or not one was sent.
CodeOrNot(s) == TRUE

CodeWasSent(s) == login[s].codeSent /\ login[s].email # NoEmail

\* NextAttempt and the tests of its results.  Attempts beyond the cap are all
\* alike, so the count stops one above it.
NextAttempt(h) ==
    LET s == handler[h].state
        attempts == IF login[s].attempts > MaxVerifyAttempts
                    THEN login[s].attempts ELSE login[s].attempts + 1
    IN  /\ handler[h].phase = "booking"
        /\ login' = [login EXCEPT ![s].attempts = attempts]
        /\ \/ /\ ~CodeWasSent(s)
              /\ Leave(h)
           \/ /\ CodeWasSent(s)
              /\ attempts > MaxVerifyAttempts
              /\ handler' = [handler EXCEPT ![h].phase = "failing"]
           \/ /\ CodeWasSent(s)
              /\ attempts <= MaxVerifyAttempts
              /\ handler' = [handler EXCEPT ![h] =
                    [phase |-> "verifying", state |-> s, email |-> login[s].email]]
        /\ UNCHANGED <<poller, guesses, handed>>

Fail(h) ==
    /\ handler[h].phase = "failing"
    /\ login' = [login EXCEPT ![handler[h].state].failed = TRUE]
    /\ Leave(h)
    /\ UNCHANGED <<poller, guesses, handed>>

\* The backend judges the code it was called with; VerifyCode has not returned.
CodeJudged(h) ==
    /\ handler[h].phase = "verifying"
    /\ \E verdict \in {"accepted", "refused"} :
        handler' = [handler EXCEPT ![h].phase = verdict]
    /\ guesses' = [guesses EXCEPT ![handler[h].state][handler[h].email] = @ + 1]
    /\ UNCHANGED <<login, poller, handed>>

\* Mutant: a verified login is put back in the map for the poll to find.
CompleteAndList(h) ==
    /\ handler[h].phase = "accepted"
    /\ login' = [login EXCEPT ![handler[h].state].tokens = TRUE,
                              ![handler[h].state].listed = TRUE]
    /\ Leave(h)
    /\ UNCHANGED <<poller, guesses, handed>>

\* VerifyCode has accepted the code of the email it was called with.
Complete(h) ==
    /\ handler[h].phase = "accepted"
    /\ login' = [login EXCEPT ![handler[h].state].tokens = TRUE]
    /\ Leave(h)
    /\ UNCHANGED <<poller, guesses, handed>>

\* VerifyCode returns an error: the code was refused, the backend was not
\* reached, or its answer was lost.
VerifyRefused(h) ==
    /\ handler[h].phase \in {"verifying", "refused", "accepted"}
    /\ Leave(h)
    /\ UNCHANGED <<login, poller, guesses, handed>>

-----------------------------------------------------------------------------
(* auth.login.poll *)

PollLookup(p, s) ==
    /\ poller[p].phase = "idle"
    /\ Live(s)
    /\ login' = Pruned
    /\ poller' = [poller EXCEPT ![p] = [phase |-> "found", state |-> s]]
    /\ UNCHANGED <<handler, guesses, handed>>

\* Mutant: the session stays listed.
StillListed(s) == login

Consumed(s) == [login EXCEPT ![s].listed = FALSE]

\* The switch of poll: the login has failed or is pending.
PollEmpty(p) ==
    LET s == poller[p].state
    IN  /\ poller[p].phase = "found"
        /\ login[s].failed \/ ~login[s].tokens
        /\ poller' = [poller EXCEPT ![p] = IdlePoller]
        /\ UNCHANGED <<login, handler, guesses, handed>>

\* The tokens are returned for the host to save as a credential.
PollTokens(p) ==
    LET s == poller[p].state
    IN  /\ poller[p].phase = "found"
        /\ ~login[s].failed
        /\ login[s].tokens
        /\ login' = Consumed(s)
        /\ poller' = [poller EXCEPT ![p] = IdlePoller]
        /\ handed' = [handed EXCEPT ![s] = @ + 1]
        /\ UNCHANGED <<handler, guesses>>

-----------------------------------------------------------------------------

HandlerStep(h) ==
    \/ \E s \in States : AskVerify(h, s) \/ \E e \in Emails : AskCode(h, s, e)
    \/ CodeGoesOut(h) \/ MarkCodeSent(h) \/ CodeNotSent(h)
    \/ NextAttempt(h) \/ Fail(h)
    \/ CodeJudged(h) \/ Complete(h) \/ VerifyRefused(h)

PollStep(p) ==
    \/ \E s \in States : PollLookup(p, s)
    \/ PollEmpty(p) \/ PollTokens(p)

Next ==
    \/ \E s \in States : LoginStart(s)
    \/ \E h \in Handlers : HandlerStep(h)
    \/ \E p \in Pollers : PollStep(p)
    \/ LookupMiss \/ Shutdown \/ Tick

Spec == Init /\ [][Next]_vars

\* The host goes on polling a login it has started.
FairSpec ==
    /\ Spec
    /\ \A p \in Pollers :
        /\ \A s \in States : SF_vars(PollLookup(p, s))
        /\ WF_vars(PollEmpty(p) \/ PollTokens(p))

-----------------------------------------------------------------------------

Sessions ==
    [started : BOOLEAN, listed : BOOLEAN, left : Nat, email : Emails \cup {NoEmail},
     codeSent : BOOLEAN, attempts : Nat, tokens : BOOLEAN, failed : BOOLEAN]

\* The state has its types; who is not idle works on a login that was started,
\* and a login has an email once a code was sent.
TypeOK ==
    /\ login \in [States -> Sessions]
    /\ handler \in [Handlers ->
            [phase : {"idle", "asking", "sent", "booking", "failing", "verifying",
                      "accepted", "refused"},
             state : States \cup {NoState}, email : Emails \cup {NoEmail}]]
    /\ poller \in [Pollers -> [phase : {"idle", "found"}, state : States \cup {NoState}]]
    /\ guesses \in [States -> [Emails -> Nat]]
    /\ handed \in [States -> Nat]
    /\ \A h \in Handlers :
        /\ handler[h].phase # "idle" =>
            handler[h].state \in States /\ login[handler[h].state].started
        /\ handler[h].phase \in {"asking", "sent", "verifying", "accepted", "refused"} =>
            handler[h].email \in Emails
    /\ \A p \in Pollers :
        poller[p].phase # "idle" =>
            poller[p].state \in States /\ login[poller[p].state].started
    /\ \A s \in States :
        /\ login[s].listed => login[s].started
        /\ login[s].codeSent => login[s].email \in Emails

\* Of one login the backend judges at most the cap's number of guesses for each
\* code it sends, if the page's requests come one at a time.  n requests at once
\* can each hold the record of a send back until guesses have been made on what
\* an earlier one allows, and one guess may be under way when the code goes out:
\* n times the cap, and one.
GuessesWithinBudget ==
    LET n == Cardinality(Handlers)
    IN  \A s \in States, e \in Emails :
            guesses[s][e] <= MaxVerifyAttempts * n + (IF n > 1 THEN 1 ELSE 0)

\* A login whose credential was handed back cannot be looked up any more.
HandedBackMeansGone == \A s \in States : handed[s] > 0 => ~login[s].listed

\* "The credential is handed back exactly once" (poll): never twice.
HandedBackOnce == \A s \in States : handed[s] <= 1

\* A login that was consumed, pruned or shut down is never listed again, not
\* by a handler that still holds it nor by the answer of the backend it waits
\* for.
ForgottenForGood ==
    [][\A s \in States :
        login[s].started /\ ~login[s].listed => ~login'[s].listed]_vars

\* A verified login that is not given up nor forgotten is handed back.
VerifiedIsHandedBack ==
    \A s \in States :
        Live(s) /\ login[s].tokens
            ~> handed[s] > 0 \/ login[s].failed \/ ~Live(s)

=============================================================================
